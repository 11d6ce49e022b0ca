# A formal model of cli-provider-router (CPR)

CPR is a local router that sits between AI command-line programs (Claude Code, Codex) and the
providers that serve them. Part of it forwards requests; another part rewrites configuration that
belongs to other programs, so that they talk to CPR, and must be able to undo that. This directory
holds TLA+ models of the parts whose correctness depends on order, on concurrency or on failure,
the TLC configurations that check them, and proofs for TLAPS.

Paths in this text are relative to `src/`; `PROJECT.json` maps every definition to the lines it
models.

## 1. Inventory

| component | state it keeps | operations | interacts with |
|---|---|---|---|
| **CC-Switch takeover** `lib/ccswitch/{apply,restore,snapshot,status,operations,plan,discover,health}.js`, `lib/takeover-state.js` | `CPR_HOME/ccswitch/state.json`, immutable snapshot directories; it rewrites CC-Switch's SQLite database | `discover`, `snapshot`, `apply`, `restore`, `status`, `fullRestore` | CC-Switch (shared database), web API, gateway, service lifecycle |
| **CC-Switch gateway** `lib/ccswitch/{gateway,upstream}.js` | none; reads state and endpoint map on every request | forward one request | takeover state, snapshots |
| **Claude proxy** `lib/proxy/claude.js` | per turn: terminal flag, connections, client liveness | one HTTP turn | CLI, provider, request hooks, usage and activity callbacks |
| **Request hooks** `lib/proxy/request-hook.js` | per turn: current body, repairs | `prepare`, `repair`, `readErrorBody` | host code, both proxies |
| **Codex proxy** `lib/proxy/codex.js`, **translation** `codex-transform.js`, **transport** `provider-transport.js` | per turn: attempt, commit and close flags; stream state machine; per-origin dispatcher | three modes of turn; chat stream to Responses stream; fetch with session rotation | CLI, provider, hooks |
| **Durable store** `lib/durable-store.js`, `lib/atomic-json.js` | lock file, JSON document with a revision, rolling backups | `load`, `save`, `mutate`, recovery | web service and every `cpr` command, as processes |
| **Provider, profile, settings stores** `lib/{store,route-profile-store,settings-store}.js` | documents of the durable store | CRUD | web API, CLI |
| **Direct CLI configuration** `lib/direct-cli-config/index.js` | a state file per CLI; rewrites native configuration files | `apply`, `restore`, `status` | hop credentials, takeover state |
| **Hop credentials** `lib/proxy/hop-credentials.js` | one JSON file | issue, revoke, verify | direct configuration, Claude proxy |
| **Service** `lib/service.js`, `cli/proxy-server.js` | pid and state files; a process with signal handlers | start, stop, restart, boot, signals, close | takeover state (`assertCanStop`), the takeovers it serves |
| **Usage ledger** `lib/usage-ledger.js` | JSON-lines shards, its own lock, an index per process | append, query, prune | proxies |
| **Web API, CLI, host embedding** | none of their own | thin calls | all of the above |
| routing, model policy, spawn environment, paths, constants | none | pure functions | proxies |

What is hard, and what makes each part correct:

- *Takeover.* Four parties meet on one database: the service, CC-Switch (which takes part in no
  protocol), the user, and crashes. Correct means that a field CPR rewrote can always be put back,
  that nothing CC-Switch or the user wrote is overwritten unasked, that the recorded status is
  true, and that the gateway serves a field from the upstream it had.
- *Proxy turns.* Client, provider and host act independently. Correct means one truthful terminal
  event per turn, no connection kept for nobody, bounded retries, and none once an answer has begun.
- *Durable store.* Lock files with stale recovery, without compare-and-delete. Correct means no
  lost update, and no wedge after a crash.
- *Service lifecycle.* A check that no takeover is active, against requests that start one.
- *Full restore.* A database replaced by two renames, in a process that may fail or die at each.
- *Chat translation.* Two protocols with different ideas of what is open at a time. Correct means
  a well-formed stream of events and a completed response that lists what was streamed.
- *Provider transport.* Requests share an HTTP/2 session that may die under all of them. Correct
  means one replacement per failure, no request executed twice, and nothing lost at `close`.
- *Usage ledger, backups.* Files shared by processes of which one may die at each operation.
- *Direct configuration.* Several files, replaced one after the other, and credentials that must be
  revoked on every failure path.

`PROJECT.json` lists the hazards line by line with the properties that cover each.

## 2. Modules

| module | models | composed with |
|---|---|---|
| `CcSwitchTakeover` (`MCCcSwitchTakeover`) | takeover, its state file, snapshots, gateway, CC-Switch, crashes | |
| `CcSwitchTakeoverProofs` | six theorems about it | extends `CcSwitchTakeover` |
| `DisasterRestore` | `fullRestore`: the two renames, side files, the undoing, failures and deaths | |
| `ServiceLifecycle` (`MCServiceLifecycle`) | the service as a process: commands, signals, crashes, the applies and restores it executes | extends `DisasterRestore`: both work on one database |
| `ServiceLifecycleProofs` | seven theorems about both | extends `ServiceLifecycle` |
| `ProxyTurn` | what a turn of either proxy has: client, answer, terminal report, repairs | extended by the next two |
| `ClaudeTurn` | one turn of the Claude proxy with its repair hook | extends `ProxyTurn` |
| `CodexTurn` | one turn of the Codex proxy in its three modes: dials, repairs, busy retries, deferred commit, client close | extends `ProxyTurn` |
| `TurnProofs` | nine theorems about both turns | extends `ClaudeTurn`, `CodexTurn` |
| `ResponsesStream` | abstract: what a reader of a Responses event stream may rely on | |
| `ChatToResponses` | the translation of a chat stream, and the loop that feeds it | implements `ResponsesStream` |
| `ChatToResponsesProofs` | three theorems about it, one of them the refinement | extends `ChatToResponses` |
| `ProviderTransport` | dispatchers per origin, rotation, one retry, `close` | |
| `ProviderTransportProofs` | five theorems about it | extends `ProviderTransport` |
| `DurableStore` | lock file, stale recovery, save and mutate | |
| `BackupRotation` | what a locked write and an unlocked load do to the document and its backups | takes from `DurableStore` that there is one writer at a time |
| `StoreProofs` | seven theorems about both | extends `DurableStore`, `BackupRotation` |
| `UsageLedger` | append, prune, the ledger's own lock, an index per process | |
| `UsageLedgerProofs` | three theorems about it | extends `UsageLedger` |
| `DirectCliConfig` (`MCDirectCliConfig`) | apply, restore and status of a native CLI's files, with the hop credential store they issue and revoke tokens in | |
| `DirectCliConfigProofs` | five theorems about it | extends `DirectCliConfig` |

The order was that of the damage a fault would do: first what rewrites other programs' data, then
the path every request takes, then shared state, then the rest. `CcSwitchTakeover` has the database
field by field and one service; `ServiceLifecycle` has the endpoints as one value, and the processes
and commands around them.

A type invariant that is proved is not repeated in a run, nor are the bounds `RepairsBounded` and
`AttemptsBounded` and `ClosedIsQuiet`; the theorems of section 9 are about them. The exceptions are
`TypeOK` of `DurableStore`, which says that revisions never run ahead of the writes, and
`RotationTypeOK`, which says that only a document that was written is put back: a mistake in the
code can break them, so they are run as well.

Abstract specifications still worth writing: an atomic store (one step per update) that
`DurableStore` implements for two writers; a "swap and swap back" specification of the database that
the takeover implements.

## 3. CcSwitchTakeover

**State.** `db` is the live value of every endpoint field (a Claude `ANTHROPIC_BASE_URL`, a Codex
`base_url` line, a `provider_endpoints` row); `dbId` the identity of the database file; `file` the
state file; `snaps` the snapshot directories; `base` the service's address; `req` the web requests
in flight; `job` the synchronous section being executed. A URL is an upstream URL or
`LocalUrl(base, route)`, what `localProviderUrl` computes. A field may also be `Gone` (row deleted,
settings unparsable, line removed) or `Blank`.

**Atomicity.** The service is one JavaScript thread. `apply` suspends at two macro-task awaits, the
health probe and the SQLite backup; these are the request states `health` and `backup`. What runs
between two awaits excludes other requests (`job`), but it reads and writes files and a database,
so it is split into the steps that a crash or CC-Switch can separate: plan and write-ahead record,
inspection, transaction, verification. The fault-injection points (`inject`) await only a test's
function. The transaction is one step: SQLite makes it so.

**Environment.** CC-Switch and its user edit any field to any upstream URL or remove it, the
database file is replaced by a copy, a transaction fails, the service dies and comes up on
another port: any of these, `MaxEnv` times, between any two steps. Assumed: CC-Switch never writes a CPR
URL by itself (a user who pastes one is outside the model), and an empty endpoint can only be a
Claude environment variable, since the empty `base_url` line is not a value it writes.
Configurations of the other kind of failure, a torn state file, cannot occur: it is replaced by
rename.

**Properties.** `NoOrphan`: a field that holds a local URL belongs to an unsettled takeover that
knows a real upstream for it. `NeverOverwriteDrift`: a step of CPR only swaps original and applied
value. `HonestStatus`: active, or restored, is only written after reading it back.
`GatewayOwnUpstream`: a field with a route of its own (`SharesRoute`) is served from its own
upstream. `ConflictHasCause`: a restore reports a conflict only if its transaction threw, a field
holds neither of its values, or one was edited under its hands; a mixture of original and applied
fields is none. `NeverDisplaced`: the record of an unsettled takeover is not replaced by another's.

Nothing in the code makes `NeverDisplaced` true (section 10). `raced` remembers that an apply has
recorded its takeover over one that another apply began behind its check; `NoOrphan` and
`GatewayOwnUpstream` say what holds until then, the other three what holds in any case.

**Runs.**
`takeover_serial`: one request slot, two fields of two providers, two ports, two database
identities, two snapshots, three environment events; all properties but `NeverDisplaced` hold
(about 1.7 million states up to symmetry). Three events are enough for a crash, an edit and a
restart on another port to meet in one takeover; two snapshots for a stale one and a fresh one.
`takeover_displaced` has two request slots and no environment events, and finds two applies of which
one displaces the other. With two slots and one or two events of either kind the other properties
hold as well (0.8 million states with one event, 7.5 million with two; too long a run to keep), and
the theorems of section 9 say so for any number of requests.
`SYMMETRY` is used on values the specification treats alike.

**Fairness.** None: no liveness is claimed.

## 4. ServiceLifecycle and DisasterRestore

**State.** `life[i]` is what a service process does: not spawned, starting, up, closing, ended;
`term` the processes with a SIGTERM not handled yet; `pidFile` and `statePid` the two files by which
a command finds the service; `ctl[c]` the command that runs in a terminal. `phase` and `recorded`
are what the lifecycle needs of the takeover's state file, `req` the apply or restore a service
executes. Of the database there is which one it is and whose endpoints it holds (`db`), whose side
files lie beside it (`wal`), the old one set aside (`rollback`), the private copy that `fullRestore`
makes first (`displaced`), and what the snapshots hold (`taken`).

**Atomicity.** Code between two awaits is one step for its own process: a signal handler runs
only while no synchronous section does (`Attentive`). It is several steps for the other processes,
for SIGKILL and for a crash: an apply is split at its await, at its transaction and at its
verification. `fullRestore` runs in a process of the host and is split at every rename and removal.
A command is split at every poll, and wherever it may die between two of its effects: the check
before SIGKILL (`StopDeadline`) and the signal (`StopKill`) are two steps, and a start spawns its
child, writes `service.pid` and writes `service.json` in three (`StartSpawn`, `StartNote`,
`StartRecord`).

**Failures.** A service is killed, the terminal of a command is closed, a transaction fails, an
operation of `fullRestore` fails, one of its undoing fails, its process dies. The read-only
connection of the verification may leave side files of its own (`Opened`). `full = "failed"` is a
full restore that has thrown and undone its work.

**Properties.** `StrandsOnlyRaced`: a takeover is left without its service by a stop only if it
began after the last check of whoever stopped the service. `Tracked`: a service that is up is found
by the next command, until a command leaves a child that lives without a word of it (`disowned`: it
died before it had noted the pid, or gave up waiting) or the commands of two terminals overlap
(`crowded`); section 10 says what happens then. `NoOrphan`: before any full
restore, endpoints that point at CPR are those of the takeover in force. `NeverGone`,
`NoForeignSideFiles`, `FailureUndone`: wherever `fullRestore` fails or dies, the old database is
there under one name or the other, no side files lie beside a database that is not theirs, and a
failure reported is a failure undone. They are conditional on `botched`: a first rename that failed
(section 10), or an undoing that failed itself or was cut off between putting the old database back
and its side files. At that point (`undo-wal`) the old database may lie beside the side files that
the verification left, and `NoForeignSideFiles` exempts it (section 10).

**Runs.** `service`: two service processes (one that is stopped and one that succeeds it), one
terminal, two commands, one full restore, and one failure, crash or death, on top of which the
undoing of a full restore may fail and its process die at any step; about 3.7 million states up to
symmetry of the processes, two minutes. The database has side files at first (`FirstSideFiles = {0}`,
the harder case; the theorems allow both). Two commands are a start and the stop or restart
that races with a takeover, or a start that dies and the next one. More terminals, commands, restores
and failures are left to the theorems of section 9, which prove all six properties for any number of
them. `service_strands` is a finding. Deadlock is not checked, because commands and faults run out.

**Fairness.** None: no liveness is claimed.

## 5. ClaudeTurn

One turn, since turns share no state. `client` is the response's `'close'`, `answer` what has been
written downstream, `outcome` the terminal event and `repairs` the counter of the hook's stage, in
`ProxyTurn`, which the Codex turn has too; `up` is the connection of the latest dial, `rejection`
the progress of the asynchronous rejection handler. Actions are the handler's setup, the events of
the response (`ResponseClosed`), of the provider (headers, end, error, premature close), and the two
awaits of the rejection handler (error body, host hook). Events that cannot be told apart by a
property are one (`'aborted'` and `'error'` of the response). After the process is killed by an
exception in a callback the turn is `crashed` and does nothing.

**Properties.** `ToldTruly`: success is reported only for an answer the client was given whole, a
disconnect only for a client that left before its end, and no answer is completed without a report.
`ProviderReleased`: once the client is gone no connection stays open for it, unless the host
repaired a rejection. `TurnSettles`: every turn that was announced ends.

`RetryMax = 3` lets repairs run out; the default of the code is smaller. The model has no other
bound and no deadlock check, because a turn ends.

**Fairness.** Setup runs; a hook is cut off by `hookTimeoutMs`; reading ends with its connection.
That a provider connection answers, ends or breaks eventually is an assumption about providers: the
proxy sets no timeout of its own. The client owes nothing, so `TurnSettles` does not depend on
its leaving.

## 6. CodexTurn, ChatToResponses, ProviderTransport

**State.** `lib/proxy/codex.js` writes the handler three times, and `mode` says which one runs:
`chat` translates to chat completions and back, `direct` passes a Responses stream through,
`compat` repairs a Responses dialect that is busy at times and may not complete its streams. `at` is
the await the handler is suspended at; everything between two awaits is one step, because nothing
else runs then. `attempt` and `repairs` are the counters of the loop and of the hook's stage, `conn`
the connection of the latest dial, `committed` and `after` compat's local flags, `client` and
`noticed` the difference between a client that is gone and a `'close'` the handler has seen,
`answer` and `outcome` as in `ClaudeTurn`.

**Actions.** The pre-dial hook (`Prepared`), the three results of a dial, the error body and the
host's decision, the events of a stream by what they do to the turn (output, completed, failed,
busy, end, break), compat's `reader.cancel()` and its sleep, and the client's leaving at any await.
Parsing, translation and the usage and delta tees are data.

**Properties.** `Accounted`: every turn ends with its terminal report, and one that failed has told
its client. `AttemptsBounded`: repairs and busy retries each stay within their budget, in any order,
though they share a counter. `UpstreamReleased`: a turn that ends with its client leaves no
connection, nor does a client that leaves a chat or direct turn. `NoDialAfterOutput`: no dial, of a
repair or a busy retry, once an event of an answer has gone out. In chat and direct nothing at all
has gone out by then; a compat turn has flushed its response headers before its first dial
(`Flushed`, `lib/proxy/codex.js:26-33`, `:683`), so that its rejections come as `response.failed`
under status 200, and its retries are not invisible in the sense of `docs/request-hooks.md`
(section 10). `DisconnectSettles`: a turn whose client leaves ends, even if the provider
never sends another byte, with one exception: compat may dial again after that, and reads a
rejection to its end.

**Runs.** `codex_turn` has `COMPAT_BUSY_RETRY_MAX` of the code and two repairs, so that the two
budgets can mix in every order and both run out; there is no other bound. A turn ends, so deadlock
is not checked.

**Fairness.** The handler goes on after each await; a hook, a sleep and a dial are bounded by timers
(`hookTimeoutMs`, `setTimeout`, undici's `headersTimeout`). Between two bytes of a body nothing is
(`bodyTimeout` is 0), so there is none for a provider that has begun to answer, except that reading
from an aborted connection fails.

### ChatToResponses

**State.** `text`, `textAcc`, `tools` and `output` are the translator's own fields, `finished` and
`reader` those of `end()` and of the loop. Text and arguments are counted in pieces. `items` is what
a CLI assembles from the events, `ended` and `listed` the event that ends the response and what it
lists.

**Actions.** One chunk of the provider each: text, an entry of `tool_calls`, a finish reason,
`[DONE]`; and the ends of the stream: closed by the provider, broken, or left by the client. The
provider may send them in any order.

**Properties.** `WellFormed` is the refinement: `ChatToResponses` implements `ResponsesStream`. Its
reader may rely on this: items are announced one after the other, only grow, and what an item was
closed with is final; a completed response has closed every item and lists them in that order, a
call with the arguments it was closed with, and so a message if it comes first (a message that was
opened after a call is listed without its text, section 10). `KeepsAll` says that the answer itself
is complete, if the provider sends its text before its calls, in chunks of its own, and nothing to
an item that is closed.

The code does send deltas for items it has closed (`lib/proxy/codex-transform.js:354`, `:388`). They
are counted apart, in `late`: a reader that takes an item from its `output_item.done` is not misled by
them, one that adds up deltas is. `WellFormed` promises nothing of `late`.

**Run.** `chat_translation`: two calls, two pieces of each text and arguments: enough for calls to
interleave, and for a piece to come late.

### ProviderTransport

**State.** A dispatcher is named by its generation. `current` is the one in service for an origin,
`retired` and `draining` those taken out of it, `pc`, `used` and `delivered` what became of each
request, `failed` the dispatchers a failure was reported on, `waits` what `close()` awaits.

**Actions.** A fetch runs without interruption up to its await; it may fail because its session is
dead (and may be repeated, if its body can be), or otherwise. A provider's GOAWAY fails requests of
a session at any time. undici is external: it is modelled by what the code relies on.

**Properties.** `DeliveredOnce`: a retry never repeats what the provider has accepted. `NoneLeaks`:
every dispatcher is in service or retired. `OnlyFailedRotated`: the second of two requests that fail
on one session does not replace the dispatcher that the first has put in its place. `CloseSettles`:
`close()` resolves once the answers that were streaming have ended.

**Run.** `provider_transport`: three requests, one origin (origins share nothing but the map), three
dispatchers: one that fails, its successor, and the one a late failure would make.

**Fairness.** `headersTimeout` bounds the wait for an answer, so a request is answered or fails.
Nothing bounds a body, hence the premise of `CloseSettles`. A dispatcher that was closed resolves
once its streams have ended, which is undici's contract.

## 7. DurableStore, BackupRotation, UsageLedger

Each system call on the lock file is a step: exclusive creation, writing the owner's record, reading
the holder, probing pid and age, reading again, removing; and for the release, reading and removing.
A lock record is named by its acquisition, as the random token does. The record is written into a
descriptor, so it is lost if the name has been removed meanwhile. `save` carries a payload read
earlier without the lock, and the revision of that time, or none (`overwrite`, what `saveStore` of
`lib/store.js:353` does): then it replaces whatever has been written since, and `replaced` remembers
what. `mutate` reads under the lock. Processes may be killed at any step or fail to write their
record.

Assumed: a live process does not hold the lock longer than `staleMs` (30 seconds; its critical
section is a few file operations), so age only ever strikes abandoned locks; a pid is not reused.

`NoLostUpdate` and `SoleHolder` hold until a process breaks another lock file than the one it has
judged stale (`overtaken`): it compares the holder with what it read before, and an unstamped lock
reads like an unreadable one (`lib/durable-store.js:147`). Up to then no kill, failed stamp or wait
matters, no update is lost but to an overwrite, and the proofs say so for any number of writers;
beyond it an update can be lost without anybody's failing (section 10). `store_pair` has two writers
of two operations each, and up to two failures: 0.3 million states, in which a lock is abandoned,
broken, and broken again. `NeverWedged`, in the same run, is the claim that "a lock can therefore
never wedge permanently": whoever tries gets it, is killed, or gives up, even if the owner died
before its record was written. `FairSpec` gives weak fairness to each process's steps and to time,
none to `TimeOut`, so that the claim does not rest on giving up.

### BackupRotation

A document is named by the number of the write that made it. A writer, who holds the store's lock,
shifts the backups, copies the document to the first of them and replaces it by rename, one file
operation at a time; the copy truncates its destination before it fills it. A load takes no lock; if
it cannot read the document it takes the newest backup it can read, and writes that back. Faults are
deaths, failed copies and damages to the document.

`NeverForgotten`: no interleaving makes a load return defaults for a document that was written
(`MISSING`). `LosesFew`: as long as there are fewer faults than backups, something can be loaded, and
it is older than the last write by at most one write per fault. `Atomic`: what a load would return
changes in one step, from the old document to the new, although a rotation takes five. The last two
hold until a load puts back an older document over a newer (`reverted`, section 10).
`RotationTypeOK` says what may be in a file at all.

`backup_rotation`: three backups, five writes (so that a backup is shifted out), one load beside the
writer, two faults of either kind, hence up to four, one more than the properties allow for.

### UsageLedger

`lines[e][p]` counts the lines of an event by the process that wrote them, `index[p]` is the set of
event ids a process has read or appended, `lock` the lock file, which is broken above 30 seconds
whoever holds it. Of an event only the kind of its day matters: expired, so that prune removes its
shard, or recent. Writes fail with or without the line on disk, or are cut short; processes die and
are started again.

`OncePerProcess`: no process appends an event twice, apart from lines it was told had failed and from
shards that cannot be read. `Recorded`: an event that append has accepted, or called known, is on
disk. `NeverStuck`: the lock of a dead process does not stay while others have something to record.

`usage_ledger`: two processes, one event of either kind, one fault. **Fairness**: processes go on,
are started again and have something to append, and time passes.

## 8. DirectCliConfig

**State.** `disk` is the content of every native file: the user's own part (`text`) and the routing
fields that CPR manages (`plan`, `cred`), absent in a file that does not point at CPR. `state` is
`state/<cli>.json`, with its phase, its snapshot, its token and the contents it stands for; `snaps`
the snapshot manifests; `creds` the hop credential store, per token the routes still alive and
whether it has expired; `profile` the content of the route profile. `job[p]` is the command a
process runs: where it is, what it has read, how many files it has handled. `edited` is history: the
files last written by somebody else, or by a forced restore.

**Atomicity.** `apply` and `restore` are synchronous functions, so one process does one at a time;
but the web service and each `cpr cli-config` command are processes of their own, and no lock is
taken. A step is one access to a shared file: loading the credential store, saving it, writing the
record, replacing one native file. Reads of several native files that one picture or one test takes
together (`Picture`, `status`, `SameAs`) are one step, as is the load of the record with them: an
edit that falls between two of them is not modelled.

**Failures.** Replacing a file may fail at each file, in apply (then the token is revoked and the
files are undone, last first), in the undoing (then the record says `rollback-required`), in a
restore (then it rolls forward to the applied contents) and in rolling forward. A process may die at
any step, which is also what an exception without a handler amounts to. Loading the credential file
gives an empty store whenever it cannot be read or parsed (`lib/proxy/hop-credentials.js:94`,
`lib/atomic-json.js:40-43`), when issuing and when revoking (`MisreadCreds`). `removeDirect`
swallows its failure; that too is a death between two steps.

**Environment.** Files are edited, the profile is edited while no takeover is in force (the web API
refuses it otherwise), and tokens expire between commands.

**Properties.** All four safety properties but `Recoverable` hold until the commands of two processes
overlap (`overlapped`), and that one until then or until force leaves routing fields behind that no
snapshot undoes (`insisted`: a snapshot forced under a takeover, or one put back that lacks a file of
it). `Recoverable`: a file that points at CPR is accounted for by the takeover in force, whose
snapshot does not point at CPR. `ActiveComplete`: an active takeover has all its files as
apply wrote them, or somebody else has rewritten them. `NoSilentLoss`: a command without force
replaces only what its snapshot holds, what it wrote itself, or what changed while it ran.
`TokenDiesFirst`: a record is removed only after its token has died, unless the credential file
could not be read when it was to be revoked (`misread`). `Ends`: in whatever phase a
failed command left a takeover, a normal restore ends it, unless somebody interfered or that restore
failed.

**Runs.** `direct_config`: one process, two files, two profile contents (one file and one route; two
files and two routes), two snapshots, two failures or deaths, one failing restore, one edit, expiry
or forced snapshot; about 1.6 million states. Two failures are what it takes to fail a write and its
rollback, and the failing restore comes on top. There is one token, so a second takeover is not
followed beyond the point where it would issue one. More processes are left to the theorems, since
what is claimed of two ends where their commands overlap.

**Fairness.** `WF` of each command's steps: a synchronous function goes on (dying is another
action). `WF` of a normal restore being asked for and allowed: the user of `Ends` keeps asking. No
fairness for failures or edits.

## 9. Proofs

`CcSwitchTakeoverProofs`, for all constants satisfying the assumptions of the module:

| theorem | property |
|---|---|
| `TypeCorrect` | `TypeOK` |
| `DriftSafe` | `NeverOverwriteDrift` |
| `VerdictsHonest` | `HonestStatus` |
| `NeverOrphaned` | `NoOrphan` |
| `GatewayServes` | `GatewayOwnUpstream` |
| `ConflictsCaused` | `ConflictHasCause` |

The invariants are not inductive by themselves. `DriftSafe` and `VerdictsHonest` need the shape of
the state file and of the job (the snapshot a takeover refers to exists and is never rewritten, the
fields it names had endpoints in it). `NeverOrphaned` needs in addition that the upstreams a record
would restore are real ones (`UpstreamInv`): an apply that records over a settled takeover finds, by
`NoOrphan` itself, no local URL in any row, so what it found unchanged is a real upstream; the
transaction writes one or the other, and a verdict of restored is read off the rows. One that records
over an unsettled takeover sets `raced`, and nothing is claimed from then on (`NothingClaimed`).
`GatewayServes` adds that a route of its own makes a field the only entry of the endpoint map.
`ConflictsCaused` rests on `MixtureInv`: the two values of a change differ, and while a restore is at
its transaction no field it passes over, and after it none at all, is as CPR wrote it. No theorem
assumes that requests exclude each other: overlapping applies are covered as far as the code keeps
them safe.

`TurnProofs`, for every `RetryMax`: `ClaudeTypes`, `ClaudeToldTruly`, `ClaudeDialsBounded`,
`ClaudeReleases`, from one invariant: before the launch nothing is announced; a turn that is live,
not settled and not being repaired has a connection; dials are repairs plus one; a client that is
gone has settled its turn. And for every `RetryMax` and `BusyMax`: `CodexTypes`, `CodexAccounted`,
`CodexAttemptsBounded`, `CodexReleases`, `CodexNoDialAfterOutput`, from one invariant: a repair or a
busy retry that is about to happen has budget left (so that the loop has an iteration for it, and is
never exhausted); a handler that may still dial has given the client nothing, in compat its headers
at most; one that waits for no provider has no connection; and a failure that is left to report has
been told.

`DirectCliConfigProofs`, for all constants satisfying the assumptions of the module:

| theorem | property | until |
|---|---|---|
| `DirectTypeCorrect` | `TypeOK` | |
| `DirectRecoverable` | `Recoverable` | commands overlap, or force leaves a file behind |
| `DirectActiveComplete` | `ActiveComplete` | commands overlap |
| `DirectTokenDiesFirst` | `TokenDiesFirst` | commands overlap; but for tokens whose file was misread |
| `DirectNoSilentLoss` | `NoSilentLoss` | commands overlap |

All five are about any number of processes and any profile contents, with different files too; what
ends them is part of the property (`overlapped`, `insisted`, `misread`), not an assumption. `Apart`
says that until commands overlap at most one process is not idle.

`DirectTypeCorrect` holds for any number of overlapping commands. It needs `ShapeInv`: records and
snapshots agree on the plan, and so on the files; what a command holds at each of its points; its
counter stays within the files it walks through; and that snapshots are never rewritten, so that
what one process knows of a snapshot survives the steps of the others. `DirectRecoverable`
strengthens that to `SafeInv`: a command between its first write and its last knows the record in
force; the files a rollback or a restore has already passed no longer point at CPR (nobody else
makes them do so again); and a snapshot is taken only while nothing points at CPR, or by force.
`DirectActiveComplete` rests on `ActiveInv`: a command that has begun to write has found no record or
has taken "active" out of it first, and the files it has come past are as its record wants them, so
that it may write "active" again only when all are. `DirectTokenDiesFirst` needs `TokenInv`: a command
that has loaded the credential file has it as it is (so that saving it loses nothing), or has it empty
because it could not be read, and then the tokens it overlooks are in `misread`; the record in force
names a token that was issued; and the command about to remove the record has killed it or
overlooked it.
`DirectNoSilentLoss` needs `LossInv`: from the comparison with its snapshot on (or, for a restore,
from the drift check on) each file a command may still write has the snapshot's content, the
content of its own record, or has changed under its hands.

`ProviderTransportProofs`, for any requests, origins and number of dispatchers: `TransportTypes`,
`TransportDeliversOnce`, `TransportKeepsTrack`, `TransportClosesQuietly`, `TransportRotatesFailed`.
The invariant says that generations are used once, that an entry in service is its origin's and not
retired, that a request on its way holds an entry that has not finished draining, that `close()`
awaits all that drains, and that only a request past its dial has been accepted.

`UsageLedgerProofs`, for any processes, events and faults: `LedgerTypes`, `LedgerOnce`,
`LedgerKeeps`. An index that has been read knows every line of its own process (lines that failed
and unreadable shards apart); of recent events it knows only those on disk; and a process about to
append has looked the event up. The lock plays no part in this: neither property needs it.

`ChatToResponsesProofs`, for any calls and any number of pieces: `ChatTypes`, `ChatWellFormed`, the
refinement, and `ChatKeepsAll`. The invariant ties every item the CLI has seen to what the
translator has stored: the same kind and call at the same position; a call closed exactly if it is
done, and as large as its arguments unless it was closed before the last of them came (`late`); the
message closed exactly if the text is. Each kind of chunk is shown to extend the stream, and `end()`
to close it. `ChatKeepsAll` needs of what the translator has stored that every call and the message
have their item, that the message is the first, and that what is closed has the size of what arrived
for it, unless something arrived out of order (`astray`).

`ServiceLifecycleProofs`, for any processes, terminals and bounds:

| theorem | property | argument |
|---|---|---|
| `ServiceTypes` | `TypeOK` | a command past its spawn or signal has a process; from its displacement on, `fullRestore` has its copy |
| `StopsRacedOnly` | `StrandsOnlyRaced` | while a takeover is in force, whoever is closing or about to be killed was so when it began |
| `EndpointsCovered` | `NoOrphan` | an apply or restore past its first write executes under a record in force |
| `DatabaseNeverGone` | `NeverGone` | where the old database is, stage by stage |
| `SideFilesBelong` | `NoForeignSideFiles` | whose the side files are, stage by stage |
| `FailedRestoreUndone` | `FailureUndone` | the same |
| `ServiceTracked` | `Tracked` | until a child is disowned or terminals crowd: whatever runs is what the files name, or the child that the one command in progress has not recorded yet; and nothing runs where it spawns or cleans up |

`StoreProofs`, for any processes, operations and failures, and for any number of backups, loads,
writes and faults:

| theorem | property | argument |
|---|---|---|
| `StoreTypes` | `TypeOK` | a revision counts writes, and each write is of another operation |
| `StoreKeepsUpdates` | `NoLostUpdate` | `Locked`, `Judgement`, `Based` below; what an overwrite replaces is in `replaced` |
| `StoreOneHolder` | `SoleHolder` | two at work would both own the one lock file |
| `RotationTypes` | `RotationTypeOK` | each stage knows what it has read |
| `DocumentNeverForgotten` | `NeverForgotten` | the document is replaced, never renamed away |
| `RotationLosesFew` | `LosesFew` | `Spreads`, `Recent` below |
| `RotationAtomic` | `Atomic` | `Spreads`, `Agreed` below |

For the lock: a process between the creation of its lock file and its removal has it in place; an
acquisition that is over never comes back; what has been judged stale is nobody's lock that lives, or
is not the one whose owner was dead, which reading again finds out; and a revision names one
content, so that a save that finds its revision has lost nothing. All of it is conditional on
`~overtaken`, since the step that makes it true may take the lock from an owner that lives.

For the backups, `LosesFew` is far from inductive, because a rotation makes a hole among the backups
that it later fills, and a recovery reads them one by one while they move. `Spreads` counts the
holes below each backup against deaths, failed copies and damages (`Harm`), with one more where the
rotation has been, and one less while a damage has not been made good. `Recent` says how old the
document, the first good backup, and what a recovery has read or will read next may be. `Agreed`
says that all that recover at once put the same document back, also the one a writer is about to
copy. TLC checked the invariant with one to three backups before it was proved. The first good
backup exists because intervals are well-founded under inclusion (`Least`): induction is not needed.

Every invariant and every action property that a passing run checks is proved. Only model-checked:
liveness (`TurnSettles`, `NeverWedged`, `NeverStuck`, `Ends`, `DisconnectSettles`, `CloseSettles`),
which is out of the prover's reach.

## 10. Findings and known behaviours

Two runs are expected to find a violation.

`takeover_displaced`: `apply` tests for an unsettled takeover (`lib/ccswitch/apply.js:35`) before it
awaits the backup, and writes its own record afterwards (`:104`) without testing again;
`POST /api/ccswitch/apply` (`lib/web-api.js:393`) holds no lock. Of two applies that overlap there
the later replaces the record of the other's takeover, whose rows go on pointing at CPR with nothing
left to restore them. `docs/ccswitch-safety.md:38` asks to refuse an operation while another one of
CPR is unfinished. `raced` says that nothing else breaks `NoOrphan`.

`service_strands`: `close()` tests that no takeover is in
force and then awaits the requests in flight (`cli/proxy-server.js:142`), one of which may be an
apply; and between the test before SIGKILL and the signal (`lib/service.js:127`) an apply may record
its takeover. `service.js:124` and `docs/ccswitch-safety.md:89` say that a stop never strands one.
`StrandsOnlyRaced`, which holds, says that these two windows are all there is.

The models contain more behaviours that a reader should know of. Where a constant or a property is
named, changing the configuration shows the behaviour as a counterexample.

*Takeover*

- The database identity that `apply` records was read before its awaits
  (`lib/ccswitch/apply.js:95`).
- A Codex provider with two `base_url` lines gets one local URL for both (`lib/ccswitch/plan.js:79`),
  and the gateway serves the second from the upstream of the first (`lib/ccswitch/upstream.js:17`):
  `GatewayOwnUpstream` exempts fields whose route another field shares.
- A full restore whose first rename fails removes the live database in its undoing: it deletes
  what is under the live name although nothing was set aside (`lib/ccswitch/restore.js:136`, `:143`).
  `NeverGone` exempts it through `botched`; the private copy remains.
- A full restore of a snapshot taken during a takeover brings CPR's endpoints back, under a record
  that has nothing to restore (`lib/ccswitch/restore.js:159`). `NoOrphan` of `ServiceLifecycle` ends
  where a full restore begins.
- The verification of a full restore opens the new database read-only; on a database in WAL mode that
  may leave side files. The undoing renames the old database back (`lib/ccswitch/restore.js:144`)
  before it removes them (`:150`): a process that dies in between leaves the old database beside side
  files of another. `NoForeignSideFiles` exempts that step.
- A start spawns its child (`lib/service.js:72`) before it writes `service.pid` (`:87`) and
  `service.json` (`:88`). If it dies in between, the child comes up without a record; if the next
  start spawns another meanwhile, that one finds the port taken and exits, and its start removes the
  files (`:99`): a service is up and nothing names it. A start that gives up on a live child
  (`lib/service.js:98`) has the same result. `Tracked` exempts both (`disowned`).
- The commands of two terminals may do it without a death: both find no service and start one, and
  the start whose child finds the port taken removes the files of the other. `Tracked` ends where
  they overlap (`crowded`).

*Turns*

- A reset during the error body of a rejection answers the client, and the repair is dialled
  afterwards (`lib/proxy/claude.js:907`), although `claude.js:891-893` says that nothing downstream
  has been written by then: `RepairInvisible` of `ClaudeTurn` fails.
- A compat turn flushes its response headers before its first dial (`lib/proxy/codex.js:32`, `:683`),
  so a repair is not "before anything has been written downstream", and a rejection that is not
  repaired reaches the client as `response.failed` under status 200 and not "verbatim"
  (`docs/request-hooks.md:77-79`): `RetryInvisible` of `CodexTurn` fails.
- A premature close settles the turn but leaves the client waiting (`lib/proxy/claude.js:943`):
  `AnswerEnds` of `ClaudeTurn` fails.
- A repair is dialled for a client that left while the host's hook ran (`lib/proxy/claude.js:868`).
- A compat turn whose client left during a repair or a backoff dials once more, for nobody
  (`lib/proxy/codex.js:709`): `LeavingReleases` of `CodexTurn` fails.
- A compat turn does not look at `res.destroyed` after the pre-dial hook, so a client that left
  during it is never noticed and its turn is reported as it ends (`lib/proxy/codex.js:680`). A
  stream error of a compat turn is reported as success (`lib/proxy/codex.js:927`).
- A busy retry needs `attempt < 5`, and `attempt` counts repairs too (`lib/proxy/codex.js:831`), so
  repairs use up busy retries; `docs/request-hooks.md:90` says each budget stays its own.
- Text that comes after a tool call is lost from `response.completed`: a message that was closed is
  not opened again, and one that is not the first item is listed empty
  (`lib/proxy/codex-transform.js:219`): `TextKept` of `ChatToResponses` fails. The events of a message
  always say `output_index: 0`. `KeepsAll` exempts such streams (`astray`).
- Pieces of text or arguments that come for an item already closed are sent as deltas all the same
  (`lib/proxy/codex-transform.js:354`, `:388`), and a chunk with tool calls loses the text beside them
  (`:337-362`). `KeepsAll` exempts both (`astray`); `WellFormed` counts the former apart (`late`).

*Stores*

- A contender that finds the lock file gone judges it stale (`lib/durable-store.js:93`), and takes one
  that is gone, or created and not stamped, for unchanged when it reads it again (`:147`): what it
  removes then may be the lock another process has just taken. An update may be lost without any
  failure, though `durable-store.js:12-13` and `CHANGELOG.md:131-133` say that processes cannot lose
  updates: `UpdatesKept` of `DurableStore` fails with `MaxFail = 0`, for the two processes of two
  operations of `DurableStorePair.cfg` or for three of one.
- `saveStore` (`lib/store.js:353-355`) saves without an expected revision, so it never conflicts
  (`lib/durable-store.js:248`) and writes over what was committed since its caller's load. No command
  of CPR calls it; it is exported. `NoLostUpdate` exempts what such a save replaced (`replaced`).
- A load that recovers from a backup takes no lock, and may overwrite a newer document
  (`lib/atomic-json.js:139`); the revision it brings back is then given out a second time. The
  default number of backups is two, one less than in the run. A load in the middle of a rotation may
  miss a backup that is being renamed.
- Each process of the ledger has its own index (`lib/usage-ledger.js:225`): two of them append the
  same event, one line each. A line that was written and not flushed is reported as an error and
  duplicated by a retry; a line cut short counts as inserted if nothing throws, and makes its shard
  unreadable; an index read before that remains partial. A lock older than 30 seconds is broken
  although its holder lives.

*Direct configuration*

- Commands of two processes exclude each other by nothing: one takes the record of a command that runs
  for that of an interrupted one (`lib/direct-cli-config/index.js:484`), and both load, modify and
  save the credential file (`lib/proxy/hop-credentials.js:148`). All four safety properties fail
  beyond `overlapped`.
- A credential file that cannot be read counts as empty (`lib/proxy/hop-credentials.js:94`). A
  revocation then finds nothing, throws nothing, and the restore removes the record
  (`lib/direct-cli-config/index.js:519-522`) while the token lives; an issue writes the file anew
  without the tokens it did not see. `TokenDiesFirst` exempts the tokens concerned (`misread`).
- A snapshot forced while a takeover is in force (`lib/direct-cli-config/index.js:221`) holds files
  that point at CPR, and a snapshot of another profile may lack a file the takeover has written (a
  role's agent file). A forced restore of either leaves routing fields behind and removes the record.
  `docs/direct-cli-config.md:129` warns that a forced restore replaces what it finds.
  `Recoverable` ends there (`insisted`).
- A failed apply revokes its token before it rolls back; if the rollback and the restore after it
  both meet a failing file, the restore rolls forward to an active takeover with the dead token,
  which every normal restore then refuses as drifted (`lib/direct-cli-config/index.js:511`). `Ends`
  exempts restores that failed for this reason.

## 11. Not modelled

Nothing protects a provider from being deleted between the check that no route profile refers to it
and the deletion (`lib/web-api.js:363`): two documents, two transactions. CC-Switch's own routing flag
is read once and not modelled.

Left out for good: the preview, the audit log, routing and model policy, the spawn environment
(pure functions of strings with good unit tests), the CRUD of the provider, profile and settings
stores on top of the durable store, `responsesToChat`, the queries of the ledger, header and body
rewriting, the usage parser, the web page, the parsing of command lines, type declarations,
packaging and installation scripts. Byte-level content never matters to the properties; where a
conversion does (the local URL, the endpoint map, what is counted of a text), it is modelled by what
it distinguishes.

## 12. Running

    tlc -workers 2 -config CcSwitchSerial.cfg MCCcSwitchTakeover.tla
    tlc -workers 2 -config CcSwitchDisplaced.cfg MCCcSwitchTakeover.tla  (finds the violation)
    tlc -workers 2 -config Service.cfg MCServiceLifecycle.tla
    tlc -workers 2 -config ServiceStrands.cfg MCServiceLifecycle.tla     (finds the violation)
    tlc -workers 2 -config ClaudeTurn.cfg ClaudeTurn.tla
    tlc -workers 2 -config CodexTurn.cfg CodexTurn.tla
    tlc -workers 2 -config ChatToResponses.cfg ChatToResponses.tla
    tlc -workers 2 -config ProviderTransport.cfg ProviderTransport.tla
    tlc -workers 2 -config DurableStorePair.cfg DurableStore.tla
    tlc -workers 2 -config BackupRotation.cfg BackupRotation.tla
    tlc -workers 2 -config UsageLedger.cfg UsageLedger.tla
    tlc -workers 2 -config DirectCliConfig.cfg MCDirectCliConfig.tla

and `tlapm M.tla` for each module `M` whose name ends in `Proofs`. No run takes more than about three
minutes. Where a module's comments call an operator a mutant, that operator is the definition with a
plausible mistake; the property named with it in `PROJECT.json` fails if it takes the definition's
place.
