# Verification of the MS365 MCP servers

TLA+ models of the MS365 MCP servers (accounts and tokens, tool calls, pooling,
start-up, migration, and the state the domain tools keep), the TLC configurations that check them on small instances, and TLAPS
proofs for every size of instance. Paths are relative to the repository's root
(`src/`); line numbers refer to the files as they are now.

- Check a run: `tlc -workers 2 -config <file>.cfg <module>.tla`
- Check a proof: `tlapm <module>.tla`

The runs are listed with their module, configuration and properties in
`PROJECT.json`; "map" there names the source lines behind every definition.

## 1. The system

Eight domain servers (Outlook, Calendar, Teams, OneDrive, OneNote, To Do, Time,
File handler) offer tools over MCP. In *operator mode* (mode 0) they act for one
operator, whose tokens are in a shared `auth.db`. In *multi-user mode* (mode 1)
a bearer key identifies the caller, every call runs with that user's Graph token
and service, and an auth gateway process connects users to Microsoft Graph.
All processes share the file system: `registry.db` (accounts, key index, OAuth
tickets and states), one `auth.db` and one wrapped data key per user, and lock
files. There is no message bus: processes interact through SQLite transactions
and file locks, the tasks of one process through asyncio.

| component | state | operations | interacts with | what is hard |
|---|---|---|---|---|
| Graph token store (`session/token_store.py`, `user_auth_store.py`) | versioned token row per user and app | token request with refresh, commit of a connection, rollback, delete | registry (status, epoch), file lock, asyncio lock, Entra | two databases without a common transaction; reads without a lock; refresh tokens usable once; crash between writes; cancelled calls whose thread goes on writing |
| Graph connection attempts (`session/graph_connect.py`) | attempts (per user), tickets and states (registry) | start, browser redirect, callback, poll, cancel on disconnect, housekeeping | token store's commit, registry, user lock, Entra | duplicated and late callbacks, expiry while a code is exchanged, a limit checked and then used |
| Identity registry (`identity_registry.py`, `registry_admin.py`, `_registry_db.py`) | accounts with status and `auth_epoch`, tombstones, key index; keys in `auth.db` | register, delete, enable/disable, bump, issue/rotate/revoke keys, disconnect, authenticate, check again before answering | pool's drain, user files, both locks | commands that die half-way and are run again, epochs over several lives of an account |
| Process locks (`file_lock.py`) | lock files | acquire with time limit, release, release by death | all of the above | polling, time limit against a late holder |
| Service pool (`mcp_common/service_pool.py`) | entries per (user, domain) with leases, closing and failed closes | lease, create, evict, invalidate, drain, close | tool runtime, registry_admin's deletion | tasks interleaving at awaits, cancellation anywhere, capacity, failing closes |
| Operator login (`auth_manager.py`, `auth_service.py`, `auth_database.py`, `external_login.py`, `callback_server.py`) | token rows by e-mail, waiters by state, a callback server per process on one port | validate and refresh, browser login, login link, external login, remove, clean up | Entra, browser | several calls of a process and several processes for one port, duplicate callbacks, spelling of e-mails |
| User keys (`user_crypto.py`, `key_provider.py`) | wrapped data key, cache | create, load, seal, open, forget | registry_admin, token store | a key made twice, a cache that outlives its file |
| Tool runtime (`mcp_common/runtime.py`, `service_context.py`, `mcp_identity_bridge.py`, `principal.py`) | identity bound to the task | one call: identity, checks, lease, handler, check again, audit | HTTP identity, pool, registry, audit | revocation between the checks; exactly one audit record |
| HTTP identity (`http_identity.py`, transports) | none that lasts | order of checks before a request reaches the SDK | registry, runtime | order of the checks |
| Audit log (`audit.py`) | append-only file | one line per event | runtime, registry | several processes appending; a failing sink must change nothing |
| File access (`secure_files.py`, `paths.py`) | user directories | exclusive create, staged write and rename, guarded open | Outlook, File handler, OneDrive | a tree that changes between check and use |
| Tool contracts (`param_spec.py`, `schema_normalize.py`, `validation.py`, `input_bounds.py`) | none | defaults, coercion, validation | runtime | order of defaults, coercion and validation |
| Migration tool (`tools/migrate_multi_user`) | plan, per-area journal, target tree | plan, apply, verify, activate | file system, SQLite | a crash between rename and journal, resumption, a source that changes under it |
| Domain services (`mcp_outlook`, `mcp_onenote`, `mcp_teams`, `mcp_file_handler`, `mcp_onedrive`, `mcp_calendar`, `mcp_todo`, `mcp_time`) | local databases (OneNote pages, Teams chats, file metadata), attachment trees, conversion slots | queries and writes against Graph, synchronisation, conversion | pool, file access, Graph | partial failure of batches, local state against the remote one, limits |

`PROJECT.json` lists every component with its files and says what is modelled.

## 2. The modules

| module | models | composed with |
|---|---|---|
| `GraphConnection` | token requests, commits, disconnects of one user over registry.db, auth.db and the two locks, with crashes | in `MCLiveness` |
| `GraphConnectionAdmin` | the same disturbed by what takes no lock: administrators, cancelled calls with writes under way | extends `GraphConnection` |
| `GraphConnectionProofs` | inductive invariants and theorems, of both | extends `GraphConnectionAdmin` |
| `OAuthAttempts` | attempts, tickets, states: start, browser, callback, poll, disconnect | the commit, one step here, is `GraphConnection`'s |
| `OAuthAttemptsProofs` | inductive invariant and theorems | extends `OAuthAttempts` |
| `UserLifecycle` | registration, deletion, keys, authentication and last check | implements `Account` |
| `UserLifecycleProofs` | inductive invariants, theorems, the refinement | extends `UserLifecycle` |
| `Account` | what the registry promises about status and epochs (abstract) | |
| `OperatorLogin` | mode 0 login of several processes | in `Office` |
| `ServicePool` | the pool of one process | in `MCLiveness` |
| `ServicePoolProofs` | inductive invariants and theorems | extends `ServicePool` |
| `ToolCall` | one tool call from the bearer gate to the answer and its audit records | in `Server`; uses what `UserLifecycle` and `ServicePool` promise |
| `UserKeys` | wrapped data keys, caches, sealed records | in `Server` |
| `Startup` | start and stop of servers, gateway and command line on one data root | in `Server` |
| `MigrationPlan` | who gets what of the legacy data | in `Server` |
| `Migration` | plan, apply, activate, unlock with kills between any two writes | in `Server` |
| `Server` | one of the five above at a time, with the properties of the run `server` | has an instance of each |
| `MigrationProofs` | inductive invariants and theorems of `MigrationPlan` and `Migration` | extends `Server` |
| `ServerProofs` | those of `Startup`, `UserKeys`, `ToolCall`, and theorems about `Server` | extends `MigrationProofs` |
| `OneNote`, `Teams`, `Mailbox`, `Calendar` | the tools of an account's pages, chats, mail and events | in `Office` |
| `Office` | one of the five above at a time, with the properties of the run `office` | has an instance of each |
| `OfficeProofs` | inductive invariants of the five, and theorems about `Office` | extends `Office` |
| `MailFiles`, `Conversions`, `FileRecords`, `OneDrive`, `ToDo` | saved attachments, conversions to text, records of files, the drive, task lists | in `Files`; `Conversions` in `MCLiveness` too |
| `Files` | one of the five above at a time, with the properties of the run `files` | has an instance of each |
| `FilesProofs` | inductive invariants of the five, and theorems about `Files` | extends `Files` |
| `MC...` | constants for TLC, and runs over several modules | |

A run over several modules (`MCLiveness`, `Server`, `Office`, `Files`) has an instance
of each and a variable `part` that the initial state sets to the component at work; the
variables of the others are `Off`. `MCServer`, `MCOffice` and `MCFiles` give the
constants of `Server`, `Office` and `Files` their values. These
components share no state in the code at the grain of the models (a page store
and a migration never touch the same file at once; an instance on each side of
an interface takes what the other promises as its choices), so the run explores
each one's behaviours in full, and a property of the run is the conjunction of
what its parts promise. Actions and invariants are named by the component's
module; read a property of these runs as the list of the names in it.

Common form: one action is what runs between two points where others can run,
that is one SQLite transaction, one file operation, or what a task does between
two awaits. `pc` says where a worker is, `mem` what its local variables hold.
Formatting, logging, texts of errors, encryption and HTTP are left out. Where
Entra, Graph, a browser or the clock decide, the action chooses. Definitions
with a comment "Mutant" are the plausible mistakes the checks are tried on; no
specification uses them.

### 2.1 GraphConnection

`user` is the row of `users`, `row` the row of `graph_tokens`; `flock` and
`plock` are the refresh lock file and the asyncio lock of each process. A link
is a completed code exchange, with a number; a token row says which link it
comes from, which is how the properties know a token of a disconnected link.
Requests follow `get_graph_access_token`: read without a lock, queue, read again
under the lock, ask Entra, check the account, conditional write, check again.
Callbacks follow `commit_graph_connection`, with the rollback; disconnects
follow `disconnect_graph` (unlink the account first, then erase what was read).
`Crash` kills a process with all its workers and frees its locks.

Properties: `ActiveUsesLiveLink` (an active account has the token of a link
nobody disconnected), `LinkedIffToken` (and with the lock free and no crash so
far, exactly then), `RefreshKeepsItsRow` and `SingleRefresh` (the refresh token
presented is the stored one, and one request presents it), `NoTokenAfterUnlink`
(no request gets a token after its link was disconnected: `HandOver` checks
again), `SavesOnlyWhileLinked`, and in `calls_end` `EveryCallEnds`.

- `graph_connection`: two requests in two processes, two callbacks and a
  disconnect in the gateway, one crash. Two links, epochs and versions to 2:
  enough for a token of a first link to meet a second one, for a version to
  come back after an erasure, and for each writer to meet each other.
- `calls_end` (part "graph"): two requests in one process (so that one queues on
  the asyncio lock), a callback, a disconnect, a crash.
- `connection_admin`: one request, with disable, enable and bump at any time, and a
  request cancelled at any await. `OnlyCommitsConnect` is `OnlyEnableEnables`,
  `NoResurrection` (an erased row is created only by a commit), `LinkKept` (a row
  changes its link by a commit), `NewerVersionStays` and `UndoesOnlyItsOwn`.
  `LinkKept` excepts one writer, the thread of a cancelled refresh: it writes without
  the lock, and after a disconnect and a new connection the version it expects may
  be there again, so that the token of the disconnected link comes back
  (`DeadStaysAway`, see 5).

### 2.2 OAuthAttempts

An attempt, its ticket and its state have the name of the start that made them:
tokens are random and never repeat. `user` keeps only whether the account is
usable, and the epoch. `age` is 0, 1 (ticket too old) or 2 (attempt too old).
Under the user lock a start expires and prunes what is old, makes room and
inserts; each is a transaction of its own. A callback looks the state up, reads
account and attempt, and only then updates, conditionally. `Crash` is for the
holders of a lock; for the other calls, to die is never to take another step.
`outdated` is a history variable: the attempts under way when the account was
connected, disconnected, disabled or bumped.

Properties: `CodeExchangedOnce`, `TicketUsedOnce`, `AttemptsBounded`,
`LinksUnchangedAccount` (no outdated attempt connects the account),
`CompletedIsLinked`, `EndedStays`.

`oauth_attempts` has two starts, browsers and callbacks, or one disconnect or
two administrators in place of some of them (`TwoOfEach`); one attempt allowed at a time,
so that the second start must make room, is refused, or races; epochs to 2. An
attempt that expires while its code is being exchanged can still connect the
account; it then reads expired, and `CompletedIsLinked` says only the converse.
Index rows of attempts that ended otherwise stay until they are pruned.

### 2.3 ServicePool

No section under the pool's lock awaits, so an action is what a task does from
one await to the next. An entry is named by the request that creates it;
`leases` is the set of requests its counter counts. Which idle entry is evicted
is left open (the code takes the least recently used).

Properties: `PoolHolds` is `NotClosedInUse` and `NothingForgotten` (no path out
of `lease`, an exception or a cancellation included, loses an entry);
`DrainKeepsItsPromise` is `AdmissionBlocked` and `DrainMeansQuiet` (what `drain`
returning True says); `EveryCallEnds` covers the requests of the pool too.

`calls_end` (part "pool") has three requests of two users and a drain on a pool of one
entry: creation, joining, eviction, overload and drains all meet. One of them is
cancelled at any await. Idle entries expire at any lease (`idle_ttl` is on by
default). Three open items of the design document are in the model and break what
the pool promises; the properties except these cases and no other:

- The entry a request finds may be among the expired ones it collects next
  (`spec/spec_멀티유저.md:1301`): it is closed and leased all the same. Such a
  request is in the history variable `stale`; `NotClosedInUse` excepts it where it
  is the only one with a lease of that entry, `DrainMeansQuiet` excepts its lease.
  What the module promises without the exception is `LeasedStaysOpen` and
  `DrainWaitsForLeases`, which do not hold (see 5).
- A creator cancelled while it waits for evictions leaves an entry nobody
  completes (`:1297`); `EveryCallEnds` excepts exactly this, by `PendingHasCreator`.
- Two drains of one user share the admission mark (`:1295`). The run has one; with
  two `DrainsAdmitNobody` fails (see 5).

### 2.4 UserLifecycle and Account

One user's row, tombstone, key index, files and keys. Registrations, deletions,
issues, revocations and requests run side by side; any command may die between
two steps and be run again. `pending_link` and `active` are one status here, and
the refresh locks that a deletion takes with the user lock are left out, as no
step of this module holds one. The earlier expiry that a rotation gives the old
key is left to `KeyExpires`.

`AccountSpec` is `Account` under a refinement mapping: the phase is the status,
the epoch the highest one used so far, in the row or in the tombstone. It says
that an account is deleted only after it was closed and that no epoch comes
back in a later life, which the pools of other processes rely on. Further:
`KeysBounded`, `UsableHasStore`, `NoKeyLeadsNowhere`, `NotServedLate` (the last
check refuses a key revoked, or an epoch over, before the check began).

`user_lifecycle` has two registrations, two deletions, two issues, a revocation
and a request, one key allowed. `Serial` lets a deletion overlap no registration
and no other deletion: otherwise `AccountSpec` fails, which `lifecycle_rerun`
shows.

### 2.5 OperatorLogin

Token rows have the spelling of their e-mail as key. A call is
`validate_and_refresh_token`, a flow `authenticate_with_browser` from a script,
a link `get_auth_url_for_login`. `site` are the processes that take their
callback server to be running, `up` the one that has the port: the two differ
after a failed start. `RemoveUser` also stands for `cleanup_expired_tokens`; the
mark a rejected refresh leaves (`refresh_state`) is left out, as only
`connection_state` reads it.

Properties: `LoginsTakeTurns` is `RefreshAlone` (for the calls of one process that
spell the e-mail alike, which is what an asyncio lock per process and spelling can
give: two processes may present one refresh token) and `LocksReturned`;
`LoginsHearTheirOwn` is `AnswersRequested` (a token goes only to who asked for
that account, whoever logged in) and `HearsItsOwn`.

`office` (part "login") lets two workers of two processes run at a time
(the constraint `TwoWorkers`: two calls of one process, calls of two processes, a call and a flow, a
flow and a link), with two callbacks, one account in two spellings and another.

### 2.6 ToolCall

What is wrong with a request is its set of `flaws`; `callPc` is where its task is
(gate, policy, dispatched, checks, waiting for a service, handler, answer),
`acting` and `service` are the two context variables bound to the task,
`standing` what the registry says of the user now. The gate's checks, the
policy's and the call's run in the code's order (`GateChecks`, `PolicyChecks`,
`CallChecks`), so the first flaw decides the answer. `Dispatch` lets the SDK run
the message in a task with any leftover context (`Leftovers`). At every await the
user may be revoked or disabled (`Change`), the client hang up (`Cancel`), the
registry, pool or handler fail. Mode 0 is there with its choice of an account
(`Chosen`). Left out: contents of arguments and results, time limits of handlers.

`CallsAreTheCallers`: `ActsForItsCaller`, `AuditTellsTheAnswer`,
`RevokedGetsNothing`. Two users with one request each; the first one's has every
flaw alone, and the pairs where the order of the checks decides.

### 2.7 UserKeys

`wrapped` is `wrapped_dek.json` of each user (which key, under which KEK, for
which deployment and owner), `cache` the cached keys of each process by path and
bytes of the file, `tokens` a record sealed with a key. Registration creates the
key under the user lock and inserts the user afterwards (`BeginRegister`,
`CreateDek`, `InsertUser`), deletions, other processes and restarts with another
KEK interleave; `Misplace` is an operator who copies a user's files or restores
old ones. The crypto is taken to open what it sealed and to refuse the rest.

A deletion may come between any two steps of a registration, which holds the user lock
only while it makes the key. `KeysFit`: `RecordsFitTheKey` (whoever overlaps, a record of a registered
user has the key it was sealed with) and `OpensWhereItBelongs`. That a registered user
has a key at all does not hold (`UsersHaveKeys`, see 5). Two users, processes and
KEKs, two keys made, so that a key of an earlier life meets a later one, and a
cache of one entry, so that entries are thrown out.

### 2.8 Startup

A process reads its environment (`Boot`), is checked (`ValidateStartup`), finds
or makes the deployment marker one file operation at a time (`LookForMarker`,
`CreateMarker`, `WriteMarker`, `ReadMarker`), prepares, brings its services up
in their order and stops in the reverse one. It may die between any two steps.
Environments are a mode and what is wrong in it.

`StartsSafely`: `OneDeployment`, `ServesOnlySafely`, `HealthIsTrue`. An HTTP
server, a stdio server and the gateway start at once; two services, one with a
store of mode 0, which a migration may freeze at any time.

### 2.9 MigrationPlan and Migration

`MigrationPlan` reads mapping entries and rules, then files, rows and records, one
at a time and each any that can occur, and assigns them (`Ambiguous` addresses,
files under rules of two users, the latest of rows that merge, quarantine with
its reason). Two owners, two addresses, two nested paths, up to two of each kind.

`Migration` has one action per durable write of plan, apply, activate and
unlock; `ToolDies` kills the command between any two. Content is a set of named
parts with how often each is in a store, and whether a user wrote there
(`own`). Around it: mode 0 processes that write into the legacy data
(`WriterOpens`, `WriterWrites`), users' servers that start while no tool runs,
and an administrator who removes an account. One tool command runs at a time,
and servers are stopped while it runs, as its checks of the ports demand. Two
simplifications: whatever a user wrote counts as seen by the verification, which
looks at some of it only; and problems with the registry are found at the step
that writes the manifest, where the code looks just before its snapshot.

`MigrationKeepsData`: `EachRowOnce`, `NobodyGetsAnothers`, `NothingTwice`,
`CompletesAsPlanned`, `OwnDataKept`. One user, two runs (so that one run's
staging meets another's), one row step and one file, one write of each source.

### 2.10 OneNote

Graph holds pages with versions, the store a row per page, the order of use,
summaries and the history. A call asks Graph (`asking`), Graph carries the
request out or not and the answer may be lost (`replied`), then the store is
written without an await. Listings come in chunks of which any may fail
(`listing`), and a chunk may come without pages though there is a further link
(`hollow`): the client ends the listing there and takes it for whole. The agent
summarises between awaits. Two calls and the owner's own work interleave.
`DeletedMeansGone`, `SparesTheLiving`; the second names the two cases in which the row
of a page in Graph is pruned, a page created since the listing began and a listing with
an empty chunk, and the comment of `sync_db` knows neither (`PrunesGone`, see 5). Two
pages, two versions, one page in a chunk.

### 2.11 Teams

Graph holds chats, members, files with their readers, and messages; the store
the chats' rows with the Korean names. A send with a file is four requests, each
of which may be carried out and still look failed. A sync takes one answer of
chats and puts the missing ones away only if there were no more. `SparesTheJoined`,
`GivenNamesStay`, `FilesReadable`, `FilesStay`, `NotSentMeansNotSent`. Two chats,
one in an answer; two people, one without email; two calls.

### 2.12 Mailbox

A query asks for its pages by `$skip`, several at once, in any order
(`AskPage`, `FetchPage`), and puts the answers together by page number
(`Assemble`); batches of ids are posted one after the other, may fail whole or
in part, or be carried out without an answer. Without a token a batch tool ends at
once and names neither done nor failed mails. The caller's list is taken as it is: an
id given twice may be done the first time and fail the second. `QueryShowsTheInbox`,
`BatchAnswersAreTrue`, `AnswersOwnUp`. Pages of two, three mails, lists of ids out of
order and with a repeated one, two batches.

### 2.13 Calendar

A time is an hour and how it was written: bare, or with the zone UTC or Korea's.
Events keep instants (`InstantOf`); `asked` remembers which bare times a tool
gave. The owner books, invites and cancels elsewhere. `BareTimesAgree`,
`KeepsTheRest`. Three hours, zones one hour apart, two events, a page of one.

### 2.14 MailFiles

A call leaves out mails on the list of done ones (`skip_duplicates`), fetches the
others in batches, makes a folder per mail and saves its text (unless `include_body`
is false) and attachments, in memory, in the user's files (new names for taken ones,
quota) or in OneDrive (simple uploads, upload sessions with their chunks), and puts a
mail on the list when nothing of it failed (`Complete`). It may end for want of a token
at its start, before each batch wherever it saves to, and at any request to OneDrive
(`NoToken`, `ConnectAgain`). An
attachment whose content Graph does not send is passed over without an error.
`FilesAreTrue` takes `RecordedIsSaved`, `SuccessIsRecorded` and `QuotaKept` from here,
`OnlyTheNamedChanges` takes `UserFilesStay`. `RecordedIsSaved` says that a mail on the
list has each *wanted* item, and only two things are not wanted: the text without
`include_body`, and attachments without content (that these are lacking contradicts a
comment: `RecordedIsWhole`, see 5). `QuotaKept` excepts calls that wrote at once. A
taken name is numbered up to `MaxNumber` (99999 in the code), after which the item
fails (`FreeCopies`); mails are asked for in any order, and one may be asked for twice
(lists of `MaxAsked`). Two mails of one folder whose items share names, two calls, a
budget, quota and limits that are reached. The constraint `OneOrder` fixes the order of
the mails in mode 0, which makes none of these promises; `OddCallsAlone` lets a call
without texts or with a repeated mail run before or after the others, not among them.

### 2.15 Conversions

A pair `<<call, item>>` is a converter thread, which cannot be stopped: it may
outlive its call's deadline (`ConversionTimesOut`), its service's close, its
user's next service. `taken` are the threads that hold a slot. A mail call
converts what it has in memory; a file call runs in a worker with a work
directory, which its last thread cleans up (`deferred`). `ConvertersHold`:
`WorkersBounded`, `DirectoryHeld`, `BudgetKept`, `ClosedIsQuiet`; and
`EveryCallEnds`. A service asks, when it is closed, for the threads of its own groups
only: `service` of a call says whether its service is still the open one, was closed or
failed to close, and `Reopen` makes the user a new one, next to what an earlier one
that failed to close left running; `ClosedIsQuiet` excepts just that. A thread that could not be
started stays in its group (`GroupOf`), so the clean-up left to the last thread never
comes when another of the call outlived it; `DirectoryHeld` excepts just that
(`LeftoversGo`, see 5). Two slots, two calls of two threads in `files`, one slot in
`calls_end`; two files that exceed the budget together. Mail calls and file calls have slots of their own and meet nowhere: the
constraint `OneKindOfCalls` explores the behaviours of one kind and then of the other.

### 2.16 FileRecords, OneDrive, ToDo

`FileRecords`: the owned table of mode 1 and the two legacy stores (SQLite, a
JSON file held in memory). Texts are sequences of characters, so that LIKE's
wildcards and keywords that run into each other occur. `SearchIsLiteral`,
`RowsStayTheirOwners`.

`OneDrive`: Graph resolves a path when it carries a request out; a move and a
copy look their destination up before and use its id; a download may be
redirected, and is followed only after a new check. The owner renames, moves,
deletes and adds at any time. `ContentsStay`, `MovesWhereItLooked`,
`CutOffGetsNothing`. Three items, two names.

`ToDo`: a list is looked up by id, built-in name, or display name and then used.
`TouchesTheNamedList`. Two lists, one whose id is long enough to pass for one; Graph's
first answer has both of them or only the first (`FirstPages`).

## 3. Fairness

Safety needs none. `EveryCallEnds` of `calls_end` is checked under
`LiveFairness`, which is the fairness the three modules state:

- `GraphConnection`: a worker that can go on does (weak fairness per worker:
  Entra's client and SQLite have time limits), and strong fairness for taking
  the asyncio lock, whose queue is first come, first served. The file lock is
  polled and gets no such help: its time limit ends the wait.
- `ServicePool`: factories, handlers and `close()` end, since their time limits
  lie outside the pool; a request that has not asked for a lease need not.
- `Conversions`: a call's own steps and its deadline go on. A converter thread
  has no fairness: it may read its file for ever, and the call is answered all
  the same.

As one component is at work in a behaviour, fairness to a caller of either one
is fairness to each; this lets the callers be numbered, and keeps the number of
fairness conditions small. The property is conditional on the call having begun.
Nothing is assumed of administrators, browsers, the clock or crashes.

## 4. What is proved

For any number of workers, processes, calls and crashes; the
assumptions are the named ones on the constants (kinds of workers are disjoint,
bounds are natural numbers, the starts are a finite set), and what is said with
a module below.

`GraphConnectionProofs`: `IInv` is inductive. Its argument: a worker inside a
locked section holds the file lock (`LockHeld`), so that what a commit, a
disconnect or a refresh read there still stands when it writes (`CommitHolds`,
`UnlinkHolds`, `RefreshHolds`); and epochs never return (`EpochGuards`), so that
what a request read with no lock is good while its epoch is current. The
property `ActiveUsesLiveLink` alone is not inductive: it does not exclude a commit
about to confirm a row whose link is already dead. Theorems: `TypeCorrect`,
`LinkedSafely`, `LinkedExactly`, `RefreshSafely`, `RefreshAlone`, `UnlinkFinal`,
`SaveGuarded`.

Its second part is about `GraphConnectionAdmin`, where most of `IInv` fails: a bump
or a disable takes no lock. What stays, `AdminInv`, is the exclusion itself
(`LockHeld`), that a refresh has read a row (`RefreshHasRow`), that the row a
commit stored is there until it confirms or takes it back, or is newer by another
link (`StoredIsOwn`), and that the row a refresh has read is stored still or a newer
version is (`ReadIsOwn`), so that its save changes no link: `AdminTypeCorrect`,
`AdminRefreshAlone` (one request presents the refresh token at a time, also when
another one was cancelled and its thread still writes) and `ConnectionStaysGone`, the
property `OnlyCommitsConnect`, with the exception of 2.1. The run
`admin_cancel` refutes `DisconnectErases`; `UncancelledDisconnectErases` proves it
when `Cancellable` is empty, so that the cancelled request is the only cause.

`OAuthAttemptsProofs`: the lemma `RowMoves` gives the edges an attempt's status
may take in any step; no status is left and entered again. So whoever moved an
attempt to redeeming is alone (`RedeemersApart`) and the attempt never looks
pending again (`RedeemedStays`): `CodeOnce`. A ticket in the index is in no
browser's hands (`TicketsFresh`): `TicketOnce`. The user lock makes counting and
inserting one step (`LockHeld`, `RoomHeld`): `Bounded`, with cardinalities. The
epochs of attempts and of what callbacks have read are never ahead of the account's
(`EpochsPast`), and those of outdated attempts are behind it (`OutdatedOld`), where the
commit's comparison finds them: `LinksUnchanged`. `CompletedLinked` and
`EndedForGood` follow from the edges. `CodeExchangedOnce` alone is not
inductive: nothing in it says that two callbacks about to present the same code
do not exist.

`UserLifecycleProofs`: a command in its locked section holds the lock
(`LockHeld`), so the room it counted is there when it adds its key
(`RoomHeld`): `KeysAreBounded`. A request's key was issued by a command that is
over (`KeysNamed`), so once it is not live it stays so (`LateIsDead`):
`ServedInTime`. For lives that do not overlap (the constant `Serial`, see 2.4; the
run `lifecycle_rerun` shows what happens otherwise) `Lives` adds: a deletion is
alone (`Turns`), a registration has what it made (`Built`), a deletion past its
first transaction finds the account closed (`Closed`), and an account not closed
has its store (`Stored`). `UsableHasStore` alone is not inductive: enabling a
disabled account would need the store of one nothing is said of. Theorems:
`ServedFromItsStore`, `IndexEmptied`, and `KeepsItsPromise`, by which every step
is one of `Account` or leaves it alone.

`ServicePoolProofs`: an entry's leases are the requests on their way with it
(`Leases`), what is leased stays in the pool unless its creation failed
(`LeasedKept`), and what is in the pool is open (`PoolOpen`): `OpenWhileUsed`.
`AllRemembered`: what is removed is closed in the same step, and an entry that is
made is in the pool (`Creators`). A drain keeps its user out (`DrainingHeld`):
`DrainKeepsOut`; so what it found when nothing was in flight cannot come back, and
every close under way is one it waits for (`DrainClean`): `DrainReportsQuiet`.
Idle expiry is in all of it, and the requests in `stale` are the only exception.
Assumptions: `PoolAssumption`, and for the two theorems about drains that no two are of
one user (`DrainersApart`, see 2.3).

`Server` is one component at a time, so its invariant, `ServerInv`, is each one's
while that one is at work (`OneAtATime`, `ServerInvariance`). The theorems
`ServerTypeCorrect`, `StartsAreSafe`, `KeysAlwaysFit`, `CallsStayTheCallers` and
`MigrationIsSafe` are the five properties of the run `server`; each component has
theorems of its own specification too. Their assumptions are those of the
components (`ServerAssumption`): values that stand for nothing are no user, run or
file, services are named once, the users to migrate are finitely many. The
arguments:

- `Startup` (`BootInv`). Which process may be where (`BootKinds`); services come up
  in their order, each once, and are closed from the last on (`BootOrder`, by the
  position in the list, for any list); what the checks found stays so, for a
  process keeps the environment it read (`BootChecked`); a marker being written has
  one writer (`MarkerWriter`). `ServesOnlySafely` is not inductive: it says nothing of a
  process that was checked and does not serve yet.
- `UserKeys` (`KeyInv`). A cache has only what its process opened under the KEK it has, for that
  user (`CacheTrue`), so a cached answer is the file's (`LoadDekIs`); where nobody
  moved files, key and record are the user's own and a pair (`OwnPair`); and only a
  registered user has a record, and the key with it (`KeysKept`): a deletion between
  two steps of a registration takes both, so the next key meets no record of the last.
- `ToolCall` (`CallInv`). `Bound` says by the place of a task whose identity and
  service it has; `LoggedSoFar` what its log holds by then: nothing, the record of the
  key that was taken, or how the request ended (`Ended`). Every end of a call is one
  of `FinishLogs` and `RefuseLogs`, from which `LogTells` counts the records. The
  checks that come first are found by `FirstIs`, so that no order of flaws is
  left out.
- `MigrationPlan` (`PlanInv`). Addresses, files and rows come one after the other
  (`InOrder`), so an owner found ambiguous is so for each row read later
  (`ClaimsCounted`, `FilesGo`). A row is in a store or in one quarantine as soon as it
  is read (`RowsGo`), and one that yields has a winner no older (`LatestWins`).
  `EachRowOnce` counts sets of owners; it follows by cardinalities of sets of one or
  none.
- `Migration` (`MoveInv`). While the tool runs the servers do not, and the target of
  its next rename is free of what a user wrote (`TargetsFree`): `OwnDataKept`. A
  part is in no directory twice (`DirsTrue`): `NothingTwice`. The database was
  hashed, copied and compared in that order, by versions that only grow
  (`PlannedFrom`): an activation that saw the planned version saw it unchanged, so
  `CompletesAsPlanned` holds with any number of runs, kills and writers.

Two definitions were rewritten to be reasoned about, with the same meaning: the
moves of an activation are given by position (`Moves`), and the audit properties
use sets of positions of a log. One was sharpened: a request with an unknown tool
and bad arguments gets the first of the two answers.

`Office` and `Files` are built like `Server`: `OfficeInv` and `FilesInv` are the
invariant of the component at work (`OneAtATime`), and the theorems of `OfficeProofs`
and `FilesProofs` are the properties of the runs `office` and `files`, all of them:
`OfficeTypeCorrect`, `ToolsAnswerTruly`, `ListsStayTrue`, `OthersStayKept`,
`LoginsInTurn`, `LoginsHearOwn`, and `OneOwner` besides; `FilesTypeCorrect`,
`FilesStayTrue`, `ConvertersAreHeld`, `ToolsChangeWhatTheyName`. They assume what the
components do (`OfficeAssumption`, `FilesAssumption`): sizes and limits are natural numbers,
what there are lists of is finite, and values that stand for nothing are no
page, item, mail or id. The invariants of `OfficeProofs`:

- `OneNote` (`NoteInv`). What a call knows of its page by the step it is at (`NoteTold`):
  a delete that Graph carried out, or found nothing to do for, has its page among the
  deleted ones already, so its late answer cannot be wrong (`NoteDelete`); a listing
  has seen each living page up to its cursor, and one that is whole all that were there
  from its start to its end (`NoteListing`), so that its pruning spares them.
- `Teams` (`ChatInv`). A message with a file has it, from the call that uploaded it, and
  the members there were who have an e-mail read it (`MessageKept`): the file's name is that
  call's alone. A sync's answer covers, unless there was more, every chat that
  was joined from before it was asked for (`SyncFollowed`).
- `Mailbox` (`MailInv`). Before a batch is posted, `done` and `failed` are apart and are
  the ids of the batches so far (`BatchTold`); that a batch is the next slice of the list,
  and that the slices make up the list, is arithmetic on quotients (`BatchBounds`). A page
  that was fetched from the inbox as the query found it is what the page is by its number
  (`PageTold`). Pages are slices of the order by age: in a finite ordered set each element
  has a rank, the ranks are 1, 2, ..., and listing by rank gives every element once, in
  order (`Ranks`, `RankedSequence`); so the pages put together show the newest mails,
  each once (`PagesShowInbox`), and at most as many as were asked for, also when the inbox
  changed and a mail slid into the next page (`PagesCount`).
- `Calendar` (`AgendaInv`). An event whose bare times a tool gave has the instants these
  are by Korea's clock (`AskedIsKept`). The properties speak of steps and follow from it.
- `OperatorLogin` (`LoginInv`). A call inside its locked section holds the lock of its
  process and e-mail (`HoldsLock`), and each step keeps or returns it. Steps of callbacks
  write no call's e-mail (`CallsNamed`), so an answer is of the account asked for; a
  waiter is written by its own call or by a callback with its state. A process that
  starts its callback server takes it to be running from that very step on, so at most
  one login of a process will stop it (`OwnersAlone`).

Those of `FilesProofs`:

- `MailFiles` (`SaveInv`). A mail on the list of done ones has all of its wanted items
  saved (`SavedOf`, `Placed`); a call that has had no error knows the files of the items it passed
  (`RefsOf`), and every mail it was asked for is done or still before it (`AskedOf`). For
  the quota: the bytes of the files are within it, and what a call counted is no less than
  they are (`Counts`), as long as no two calls counted at once (`crowded`, which `QuotaKept`
  excepts: they may exceed it).
- `Conversions` (`ConvertInv`). The running threads hold slots (`Holds`), of which a domain
  has `MaxWorkers` at most (`SlotsBounded`). A call is under way only in the service that
  is open (`CallsOutside`), and one of an earlier service is over (`EarlierOver`), so a
  closed service gets no new thread, whatever services follow. The directory of a file
  call is kept from its start until its last thread has ended, also when that is after the
  call, and for good when a thread stays in the group that never ran (`DirectoryKept`). The files a call has read add up to what it counted, which is within
  the budget (`BudgetDrawn`). `WorkersBounded` alone is not inductive: a slot could be free
  while its thread runs. These four are theorems of `ConvertSpec` too
  (`ConvertersBounded`, `ClosedQuiet`, `DirectoriesHeld`, `BudgetsKept`).
- `FileRecords` (`RecordInv`). Its properties are inductive with the types: a step writes
  rows of its owner, and a search is answered in the step that reads the rows.
- `OneDrive` (`DriveInv`). The items form a tree: names differ in a folder, and what an
  item lies in is a folder that is there (`Tree`), so a path leads to one item; a copy
  Graph has taken on is of a file into a folder (`Ordered`). A call that was cut off
  waits for the check that will find it so.
- `ToDo` (`TodoInv`). What a call will send is about the list its target named when it was
  looked up: by its id, as the built-in one or by its title then (`NamesItsList`).

Sums and counts over all elements of a set need induction, and the library's theorems
for it take an operator, which the provers cannot be given. The lemma `Numbers` states induction for
a set of numbers and is proved from the well-foundedness of inclusion of finite sets; with
it, sums over finite sets are shown to be what their recursive definition says
(`SumsExist`, `SumsAgree`, `SumGrows`), which quota and budget use, and a union of pages of
bounded size to be bounded.

Definitions of these models were rewritten for the proofs with the same meaning: states of
calls are records of given types, lists are given by rank instead of by sorting, sums by
`SumFunctionOnSet`.

Only model-checked: liveness and ENABLED, which the prover does not have, and
`MCLiveness`'s `PoolHolds` as it stands there, whose two parts are `OpenWhileUsed` and
`AllRemembered` of `ServicePoolProofs`.

## 5. Where the code and its documents differ

Runs that TLC must find violated (`findings` in `PROJECT.json`):

- `admin_cancel`: a cancelled refresh releases the lock while its write is still
  running; under a disconnect the row then changes between reading and erasing,
  which the comment at `registry_admin.py:235` says is impossible.
- `pool_epochs`: a request that read its account before an epoch bump and leases
  after it invalidates the entry of the new epoch.
- `lifecycle_rerun`: two overlapping runs of `delete_user`; the second rewrites
  the tombstone with an older epoch.
- `conversion_inputs`: the temporary directory of a downloaded file is removed
  when its conversion times out, while the converter still reads it
  (`file_manager.py:399`, against the docstring at `:284`).

Findings that TLC shows with a configuration kept here for it, or, where a
property is named with a module, with that property put in the place of the
properties of the module's configuration:

- `MCAdminEnable.cfg` (of `MCGraphConnectionAdmin`): `set_status` decides
  between active and pending_link from a record it read before its update; a
  disconnect in between leaves an active account that is not connected.
- `MCOAuthReplay.cfg` (of `MCOAuthAttempts`): a duplicate callback that read the
  attempt as pending and fails a check ends it as failed while the first
  callback is redeeming it.
- `DeadStaysAway` (`MCAdminCancel.cfg` of `MCGraphConnectionAdmin`): the thread of a
  cancelled refresh writes after a disconnect and a new connection, finds the version it
  expects again, and puts the token of the disconnected link into the connected account
  (`token_store.py:218`, against step 7 at `:14`).
- `LeasedStaysOpen` and `DrainWaitsForLeases` (`MCPoolDrain.cfg` of `MCServicePool`): a
  request that finds its entry just as it expired leases a service that is being closed
  (`service_pool.py:256`, against `:14`), and its lease is not counted by a drain, which
  reports success (`:325`, against `:329`).
- `DrainsAdmitNobody` (`MCPoolDrain.cfg` with `Drainers = {d1, d2}`): the first of two drains
  of a user to end takes the mark away that keeps new leases out (`service_pool.py:366`,
  against `:331`).
- `PrunesGone` (`MCOffice`): a page that another call creates during a listing
  is not in it, and its new row is pruned (`onenote_write.py:276`); and so are the rows of
  living pages that would have followed a chunk without pages, after which the client
  stops though it has a further link (`graph_onenote_client.py:465`).
- `RecordedIsWhole` (`MCFiles`): an attachment without `contentBytes`, a large or a linked
  one, is passed over (`mail_attachment_processor.py:267`) and the mail is on the list of
  done ones all the same, which says that everything was saved (`mail_attachment.py:725`).
- `LeftoversGo` (`MCConversionInputs.cfg` of `MCConversions` with `MaxWorkers = 2` and
  `Items = 2`): a thread is put into its group before it is started, and when the start
  fails nothing takes it out (`file_manager.py:316`), so the clean-up left to the last
  thread never comes (`conversion_workers.py:96`).
- `UsersHaveKeys` (`MCServer`): a deletion between two steps of a second registration takes
  the key of the user that this one inserts (`registry_admin.py:125`).
- `ProcessTells` (`MCOffice`): `batch_and_process` says success whatever ids
  failed (`graph_mail_client.py:706`).
- `ViewsAreWhole` (`MCOffice`): a calendar view shows one page of its range and
  tells of no further one.
- `SpecificTells` (`MCFiles`): an attachment asked for by its id counts as
  downloaded when its upload to OneDrive failed (`mail_attachment.py:858`).
- `FindsById` (`MCFiles`): a list's id is taken for a name unless it is long and
  contains "=" (`graph_todo_query.py:290`).
- `CanReplan` (`MCServer`): an activation that has begun, with an account of its
  mapping deleted since, can be neither finished nor planned anew: each command
  refers to the other (`applier.py:119`, `planner.py:76`).
- `MarkersAreWhole` (`MCServer`): a start may find the deployment marker created
  and not written yet (`security_policy.py:144`). It then ends with an error; if
  the writer died there, so does every later start until the file is removed.

Met while modelling, without a run of their own:

- A bump between saving and confirming a reconnection makes the rollback of
  `_commit_locked` (`token_store.py:263`) erase the new row when the old one is
  already overwritten: the account stays active without a token, which
  `session/README.md:205` and `registry_admin.py:215` exclude.
  `ActiveUsesLiveLink` is therefore checked without administrators.
- An account disabled between the check and the conditional write still gets its
  refreshed token stored; it is not handed out.
- A disconnect without `AZURE_CLIENT_ID` and without a token row takes no lock.
- `complete_auth_flow` does not look at what `save_user` and `save_token` return
  (`auth_service.py:224`): after a failed save the old, expired token is found
  and returned. `remove_user` during a refresh is undone by its UPSERT
  (`spec/spec_멀티유저.md:1163`).
- A flow that found no callback server stops it at its end, while another login
  of the process still waits; `CallbackServer.start` sets `site` before it has
  the port, so after a failure the process takes its server to be running.
- In `_run_converter` the slot is taken before the thread is started, outside of
  the block that returns it: a thread that cannot be started keeps its slot
  (`SlotsReturned` of `Conversions`).
- When the creator of a pool entry is cancelled, those who wait for the entry
  get its `CancelledError` though nobody cancelled them (`service_pool.py:226`).
- The JSON list of done mails of mode 0 (`mail_attachment.py:137`) is read when
  a call begins and written whole: of two calls at once the later one's list
  stays. `RecordedIsSaved` is therefore stated for mode 1. Uploads to OneDrive
  replace a file of the same name, also one of another mail; for them it says
  only that a file is there.
- A copy in OneDrive is answered when it was started (`graph_onedrive_client.py:656`);
  a `create_event` whose answer was lost and that is called again books twice;
  a list of To Do beyond Graph's first answer is not found by its name.
- A key added to `auth.db` before a crash is in no index: it counts against the
  limit until it expires and cannot be revoked by its kid
  (`registry_admin.py:269`). `issue_key` checks the account before it waits for
  the lock, so over a deletion and reinstatement the key belongs to the new life.

## 6. Not modelled, and why

- Tool contracts (`param_spec.py`, `schema_normalize.py`, `validation.py`):
  functions from YAML schemas to defaults and errors, without state.
- The directory handles of `secure_files.py`: they guard against a tree changed
  by something other than these servers, of which the models have none.
- Filter and search expressions, HTML and document formats, path classification
  of `graph_paths.py`: parsing and formatting.
- Reading tools that only pass Graph's answer on (listings of drives, messages
  of a chat, recurrences).
- HTTP pages of the gateway, command lines, redaction of texts, scripts and
  documents. `session_manager.py` has no caller.
- Mode 0 beyond the operator's login, the choice of the default account in
  `ToolCall`, the legacy stores of `MailFiles` and `FileRecords`.

## 7. Left to do

`ToolContracts` as functions over small schemas, against a reference definition; the
exceptions of 2.1, 2.3, 2.10 and 2.15 go when the code no longer needs them.
