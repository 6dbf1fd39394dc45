# A TLA+ development of project-jarvis

This directory models the parts of project-jarvis whose correctness depends on the order in which
things happen: the Tool Fabric with Sentinel's one-shot approval receipts, the chat service with
its per-session locks and its working memory, the two together, the migrations that every start runs
on the database file, and the collectors that look at a desktop while it changes. TLC checks the
models on small instances; TLAPS proves each safety property and each refinement that a passing run
checks for instances of any size. Liveness is checked by TLC alone. Source paths below are relative to `src/jarvis_core/` of the repository.

## 1. The system

Core is one FastAPI process on one asyncio event loop, with one SQLite file.

| Component | State | Operations | Interacts with |
|---|---|---|---|
| Tool Fabric coordinator (`tools/router.py`) | none of its own; locals of `execute` across its awaits | `execute` | registry, Sentinel, both repositories; called by two routes |
| Sentinel (`sentinel/`) | the HMAC key, drawn once per process | policy decision, request binding, receipt record rules | coordinator |
| Approval repository (`persistence/tool_approvals.py`) | table `tool_approvals` | create, get, grant, consume: one transaction each | coordinator, grant endpoint |
| Audit repository (`persistence/tool_audit.py`) | table `tool_execution_audits` | create, update, list | coordinator, audit route |
| Registry and tools (`tools/`) | dictionary of tools, filled at start | resolve, descriptors, run | coordinator |
| Chat service (`intelligence/router.py`) | lock table: session ID to a reference-counted lock | `chat` | conversation repository, coordinator, provider |
| Conversation repository (`persistence/conversations.py`) | tables `conversation_sessions`, `conversation_messages` | session exists, load recent, append turn | chat service |
| Schema and migrations (`persistence/sqlite.py`) | table `schema_migrations` | `initialize_sqlite` | everything persistent, at start |
| Provider registry, Ollama adapter (`intelligence/`) | dictionary of providers | register, generate | chat service |
| Collectors (`context/`) | none; the desktop and the machine | read | tools |
| HTTP routes (`api/`) | none | tools, grant, chat, audit, health | the services above |

### What is hard

* **Interleaving.** Every `await` in `execute` and in `chat` lets other requests run; each repository
  call is a transaction of its own; several Core processes may share the file. A receipt is looked up
  in one transaction and spent in another.
* **Time.** A request reads the clock once and uses the reading in two later transactions; `grant`
  reads it before its transaction begins. The wall clock may be set back.
* **Failure.** Any SQLite operation may fail, after any step; the process may die; a caller may hang
  up, and `CancelledError` passes the `except Exception` clauses of `execute`.
* **Restart.** Receipts survive a restart, the key that bound them does not.
* **Locks that come and go.** Lock entries are deleted while other chats are reserving them, or
  waiting and being cancelled, and the reference is released in a shielded task after the lock itself.
* **Starting together.** `initialize_sqlite` looks whether a migration is recorded outside the
  transaction that applies it, and that transaction is deferred: it takes its locks on the way.
* **A desktop that does not wait.** Window handles and process IDs are read by separate native calls;
  windows close, processes exit, and both numbers are given out again in between.

### What makes each component correct

* Tool Fabric and Sentinel: no write without a receipt that this process issued for this very
  request, granted, in its lifetime; a receipt pays for one execution; no receipt is burnt for
  nothing; refusals have no effect; the audit rows match what was run and what was replied; rows only
  move forward; chat has no approval capability; every request ends.
* Session locks: one chat per session, no leaked or prematurely deleted entry, no lost wake-up,
  first come first served.
* Working memory: sessions are lists of whole turns; failed turns are not remembered; each answer was
  given from the turns right before it; the history window never shows half a turn.
* Chat with tools: a tool runs only for the chat that has its session's lock; an answer that needed a
  tool rests on a completed audit row.
* Migrations: the file holds the schema of some release, whole, whatever crashes and whoever starts
  first; no audit row is lost; nobody waits for ever.
* Collectors: no name without a window; what stays as it is is reported whole; a report that does not
  depend on the enumeration; no process handle left open, by a report or by an error.

`PROJECT.json` lists all components, those left out too, and under `hazards` each place in the code
where this is put at risk, with the properties that watch it.

## 2. The modules

    ApprovalAuthority   what approval receipts promise        Conversation   what working memory promises
          ^ implemented by                                          ^ implemented by
    ToolFabric          coordinator, Sentinel, repositories   ChatService    chat, working memory
                                                                    | EXTENDS
                                                              SessionLocks   the lock table

    ChatWithTools       EXTENDS ChatService, INSTANCE ToolFabric; implements ChatService

    SchemaUpgrade       what a start does to the file         Desktop        windows and processes
          ^ implemented by                                          ^ EXTENDS
    Migrations          initialize_sqlite                     ContextCollectors   the two collectors

Each has its theorems in a module of its own, `P <- M` being a module `P` that EXTENDS `M`:

    ToolFabricProofs <- ToolFabric                SessionLocksProofs <- SessionLocks
    ChatServiceProofs <- ChatService, SessionLocksProofs
    ConversationProofs <- ChatServiceProofs       ChatWithToolsProofs <- ChatWithTools, ChatServiceProofs
    MigrationsProofs <- Migrations                ContextCollectorsProofs <- ContextCollectors

The `MC...` modules add only the values of constants for TLC. A comment that begins with "Slip:"
introduces a variant of the definition below it, with a mistake that code of this kind could have;
nothing uses it, and `PROJECT.json` ("mutants") pairs it with the property that it breaks.

### ToolFabric

One execution of `execute` is an `r \in Request`, which also names the audit row it writes and the
receipt it may create (all three IDs are fresh UUIDs in the code). `pc[r]` is where it is:

| `pc` | Code | Left by |
|---|---|---|
| `idle` | the request has not arrived | `Open`, `OpenFails` |
| `resolve` | started row written | `Resolve` = `NotFound`, `Invalid`, `SentinelFails`, `Allow`, `Deny`, `Ask` |
| `challenge` | ASK, no receipt presented | `Challenge` (approval `create`) |
| `lookup` | ASK, receipt presented | `Lookup` (approval `get`, then the checks) |
| `consume` | receipt looks usable | `Consume` (approval `consume`) |
| `invoke`, `running` | `_execute_tool` | `Invoke`, `Return` |
| `close` | `_complete_audit` | `Close`, `CloseFails` |
| `answer` | row committed, or given up | `Answer` (`execute` returns or raises) |
| `done`, `lost` | replied; cancelled or died with its process | |

A step is the stretch from one point where others may run to the next: from a transaction (or an
await) to the following one. Within a process the event loop gives fewer interleavings; among several
processes on one file the model gives exactly those, since each transaction is `BEGIN IMMEDIATE`.
A local that survives such a point is a variable: `decision`, `at` (the clock reading of
`_resolve_direct_approval`), `verdict` (the result or error being reported).

The grant endpoint is two steps: `AskGrant` reads the clock, `Grant` is the transaction. `Crash(c)`
ends a process with everything it was doing; `Cancel(r)` is the caller hanging up at one of the
awaits (there is none between the commit of the completed row and the reply, but a crash may fall
there: the row is then complete and its caller unanswered); `Tick` moves the clock, backwards as well if `ClockMaySlip`.

Abstractions: a process is identified with the HMAC key it drew, and a digest with the record of what
it covers, so the HMAC is taken to be injective and unguessable. A payload is a model value and
`Canon` gives its canonical JSON, or says that it does not fit the tool's argument model
(`"invalid"`) or cannot be canonicalised (`"nan"`). A tool is its side-effect level and a
nondeterministic outcome. A started execution is one whose coroutine has been entered (`ran`); whether
its effect was complete when it failed is the tool's affair. `OpenFails` and `CloseFails` are the
store's failures at the ends of `execute`; the others are disjuncts of the step they happen in.
A write that fails is taken to have changed nothing, which is what a rolled-back transaction gives.

### SessionLocks

`table`, `references`, `locked` and `waiters` are `_session_locks`, the counts of its entries, and the
state of the `asyncio.Lock` in each; an entry object is named after the chat that created it.
`Enter` is `_reserve_session_lock` and the first part of `lock.acquire()`: the guard is never held
across a suspension, so it is never contended and the two run without a break. `Acquire` is a woken
waiter that runs; `GiveUp` a waiter that is cancelled, before or after it was woken; `Release` the end
of the body; `Drop` the shielded `_release_session_lock`; `Forget` the end of the process.
`asyncio.Lock` is the library's, modelled from how it is used here (first in first out, a release
wakes the first waiter, a cancelled waiter that had been woken wakes the next, and a newcomer does not
overtake a queue).

### ChatService

Extends the locks with what is done under them. `Arrive` (a client without a session ID gets a new
one; a client with one has been told it, remembers it from before, or made it up), `Load`
(`session_exists`, `load_recent_messages`, routing), `UseTool`, `Respond` (the provider's answer and
`append_successful_turn`), `Finish` (reference dropped, caller answered), `Cancel`, `Restart`.
`messages` is the table of messages with its sequence numbers; that the row of a message also names
the chat that wrote it is history for the properties. The provider and the routed tool are
nondeterministic outcomes. The number a message gets, the window (`ORDER BY sequence DESC LIMIT n`),
the dropped leading answer and the constraint `UNIQUE (session_id, sequence)` are computed as in the
code.

`ProviderFails` is every way `OllamaProvider.generate` has to raise, and a blank answer;
`append_successful_turn` is reached only past them.

One process at a time: this is what the repository says of chat (`README.md:159`,
`docs/tasks/WORKING_MEMORY_V0.3.md:290`), whose locks are in memory. The Tool Fabric makes no such
restriction and its model has several processes.

### ChatWithTools

`ChatService` takes the routed tool as a nondeterministic outcome; here it is a request to the
coordinator. The module uses both others as they are: `Fabric == INSTANCE ToolFabric` with the chats
as requests, the variables of `ChatService` beside it. `LoadAndRoute` picks the tool; `RefuseTool` is
the check of the trusted descriptor before the coordinator is called; `OpenTool` and `ServeTool` are
`execute`, step by step; `ToolReturns` is what `_execute_routed_tool` makes of its result, the
context message included, which may raise although the tool succeeded;
`CancelChat` cancels both coroutines at once, where the coordinator awaits something that yields;
`RestartCore` ends the process with the chats and the executions it had. That every behaviour of the composition
is one of `ChatService` (`ImplementsChatService`) means that what the runs of `ChatService` check holds
with the real coordinator in between.

### Migrations

`db` is the committed file: each table or index with the release its shape belongs to and its rows.
A process goes through `phase`:

| `phase` | Code | Left by |
|---|---|---|
| `down` | Core has not been started | `Start` |
| `ensure` | `_ensure_migration_table` | `Ensure` |
| `look` | `SELECT 1 FROM schema_migrations` | `Look` |
| `apply` | `BEGIN` and the statements of the migration, its record the last | `Execute`, one per statement |
| `commit` | `COMMIT` | `Commit` |
| `ready` | Core serves; its first audit row is `Record` | |
| `failed`, `dead` | any exception (`ROLLBACK`, then raised); `Crash` | |

The scripts are the migrations as sequences of statements; `OnlyReads`, `Refused` and `Effect` say what a
statement does to a schema. SQLite's rollback-journal locks are modelled from how the code uses them:
`BEGIN` takes none, the first statement that reads takes SHARED, the first that writes RESERVED, a
commit passes through PENDING and needs all other readers gone. A lock is waited for, up to the busy
timeout (`TimeOut`), but a reader that wants to write while another process does is refused at once,
since waiting would be a deadlock. `draft` is what the one writing transaction has made of the file.

A start is allowed to fail: a process that loses the race for a migration may find its tables there
already (`"refused"`), or the lock taken (`"busy"`, `"timeout"`), and `initialize_sqlite` raises
`RuntimeError`. Nothing retries it; it has to be started again. What holds is that the file is
none the worse, and that only who lost the race is refused.

### ContextCollectors and Desktop

`Desktop` is external: applications under process IDs, windows under handles, and the ways both
change. `ContextCollectors` has one action for each call of the native boundary (the three methods of
`_WindowApi`, `psutil.Process.name`, and user32's and kernel32's functions in `active_window.py`), and `look` holds
the locals of the collector in between. `job` says which collector runs; the two
never share state, so one runs at a time. Labels are abstracted to a letter and whether it is a
capital, which is what `sorted` by `(casefold, spelling)` tells apart; a name with a path separator is
no label. A native call reports its failure by what it returns, and a window whose process
cannot be read (`OSError`, `psutil.Error`) is skipped. Whatever else is raised ends the collection with its error:
`CollectionFails` from any step without an open process handle; while the name is queried through one,
`QueryName` to `unwind`, where `CloseHandle` is the `finally` clause that runs first.
`Report` says what `_collect_application_names` returns by rank: of each casefolded name the first
spelling, and in place k the one with k - 1 before it. Titles are a few texts, a blank one among them
(`"blank"`), which `strip` makes empty. `steady` and `showed` are history for the properties.

## 3. What the runs check

| Run | Instance | Shows |
|---|---|---|
| `fabric_breadth` | 2 requests, both routes, all four kinds of tool, three kinds of payload | types; `EvidenceIsHonest`; `ChatHasNoApprovals` |
| `fabric_receipts` | 3 requests, one write tool | `OneExecutionPerReceipt`; the coordinator implements `ApprovalAuthority` |
| `fabric_failures` | 2 requests, failing store, clock that slips | `ApprovalInv` (inductive invariant), `WritesWereApproved`, `RepliesAreOnRecord`, `SpentReceiptsAreAccountedFor`, `RowsOnlyMoveForward` |
| `fabric_restart` | 2 requests, 2 processes, 2 payloads | `WritesWereApproved`, `AnswersCloseRows`, `DeadKeysSpendNothing` |
| `fabric_progress` | 2 requests, both routes, failing store, fairness | `EveryRequestIsAnswered` |
| `fabric_expiry` | 2 requests | `SpentBeforeExpiry` is violated: see Findings |
| `locks_safety` | 5 chats, 2 sessions | `OneChatPerSession`, `TableIsExact`, `SomeoneMoves`, `NobodyOvertakes` |
| `chat_turns` | 3 chats, one old session and one new, history limit 3 | `SessionsAreWholeTurns`, `AnswersTellTheTruth`, `HistoryIsWholeTurns`; the service implements `Conversation` |
| `chat_progress` | 3 chats in one session, fairness | `EveryChatIsAnswered`, `WaitersAreServed` |
| `chat_with_tools` | 2 chats, 2 process instances, three kinds of tool, failing store, fairness | `ToolsServeTheChatAtHand`, `AnswersRestOnEvidence`, `EveryChatIsAnswered`; the composition implements `ChatService` |
| `migrations` | 2 processes, a file of any release or none, crashes, disk errors, timeouts, fairness | `SchemaIsWhole`, `OnlyLosersAreRefused`, `EveryStartEnds`; `initialize_sqlite` implements `SchemaUpgrade` |
| `collectors` | 2 handles, 2 process IDs, 4 applications, 2 texts | `NamesHadAWindow`, `SteadyWindowsAreListed`, `ReportIsCanonical`, `ForegroundIsReportedWhole`, `ProcessHandlesAreClosed` |

### Bounds, and why they are enough

The theorems of section 4 lift the bounds for safety; what follows matters for liveness, and shows
that the small instances do reach what the theorems speak of.

* **Requests.** A receipt involves the request it was issued to and those that present it. Two
  requests show every use and misuse of one receipt; the race for it needs a third
  (`fabric_receipts`).
* **Time** (`MaxTime`, `Lifetime`). A reading is compared with another reading or with an expiry. With
  `Lifetime = 1` and two ticks a receipt can be used in time, and too late; with a clock that slips,
  `Lifetime = 2` and three ticks allow a grant after the reading that a consume will stamp.
* **Grants in progress** (`MaxGrants = 1`). A second grant of the same receipt follows the first, after
  any number of other steps, with an older or a newer reading. The invariants proved do not depend on
  the bound.
* **Crashes.** Each process dies at most once; a restart is another element of `Core`.
* **Chats.** An entry needs one chat to leave it, one that has reserved it and one that arrives: three;
  two more make queues of three and several generations of entries per session. History limit 3 cuts
  a turn in two as soon as a session has two.
* **Processes that start.** A race needs two. Three were checked once by hand, with the same result; that
  takes five minutes and is not among the runs. `OldRow` is one audit row of an earlier release, which is enough
  for a rebuild that loses or doubles rows.
* **Desktop.** Two windows let one be inspected while the other keeps or loses its place; two of the
  applications have one name in two spellings, a third sorts between the spellings, and one may not
  be read. `MaxReuse = 1`: while a collector looks, each handle and each process ID is given out at most
  once more. This bound is part of what `NamesHadAWindow` says: if a process ID goes away from an
  application and comes back to a window's owner with both looks falling on the right moments (two
  reuses), the second look cannot tell. What a collector does not look at (titles and the foreground
  for one, visibility for the other) stands still while it runs. One native method is one step, although
  `is_application_window` makes several calls.
* **Symmetry.** Requests, processes, chats (and, for the locks alone, sessions) are interchangeable: no
  definition tells one from another. The runs that check liveness use no symmetry.
* Deadlock is not checked: requests are finitely many in an instance and the system comes to rest
  when they have been served. That nothing rests early is what the liveness properties say.

### Fairness

`FairSpec` of `ToolFabric` is weak fairness of each execution's own steps: the event loop runs what is
ready, SQLite calls return or raise (there is a busy timeout), and a tool returns or raises. The last
is an assumption on tools, since `_execute_tool` sets no timeout; the built-in ones only read. For
the locks and the chat it is weak fairness of scheduled tasks, and of the body of the lock: the
provider's HTTP client has a timeout. The timeout is httpx's, per read: a server that
sends a byte now and then is assumed not to do so for ever. `CoreFairSpec` of `ChatWithTools` is the
same for both together. `FairSpec` of `Migrations` is weak fairness of each starting process; no lock
has to time out, so `EveryStartEnds` does not rest on the timeout. Nothing is assumed of the
environment: nobody has to arrive, grant, cancel or crash, and the clock need not move. `collectors` checks safety only.

## 4. What is proved

Seven modules of proofs, checked by TLAPS to the last step, for any number of requests, chats,
processes, tools, windows and so on, any lifetime, history limit and clock.

Assumptions on constants: their types (`ConstantsOK`, `ChatConstantsOK`, `ToolConstantsOK`,
`MigrationConstantsOK`, `DesktopConstantsOK`, `CollectorConstantsOK`; process IDs and window handles are
told apart), and that the value that stands for nothing is not also something (`NoneIsNothing`,
`NoneIsNobody`, `NoneIsNoTool`, `NoneIsNoWindow`, `NothingIsNoDatabase`). TLC evaluates all of them. One
theorem, `NamesAreOfWindows`, has a hypothesis of its own.

### The Tool Fabric (`ToolFabricProofs`)

| Theorem | States |
|---|---|
| `TypeCorrect` | `Spec => []TypeOK` |
| `ApprovalHolds` | `Spec => []ApprovalInv` |
| `EveryWriteWasApproved` | `Spec => []WritesWereApproved` |
| `ReceiptsAreOneShot` | `Spec => []OneExecutionPerReceipt` |
| `EvidenceHolds` | `Spec => []EvidenceIsHonest` |
| `RepliesHold` | `Spec => []RepliesAreOnRecord` |
| `RowsMoveForward` | `Spec => RowsOnlyMoveForward` |
| `RestartVoidsReceipts` | `Spec => DeadKeysSpendNothing` |
| `ChatIsWithoutApprovals` | `Spec => []ChatHasNoApprovals` |
| `NoReceiptIsWasted` | `Spec => []SpentReceiptsAreAccountedFor` |
| `AnswersComplete` | `Spec => []AnswersCloseRows` |
| `FabricImplementsAuthority` | `Spec => ImplementsAuthority` |

**The invariant.** `WritesWereApproved` speaks of requests that have run, and is not inductive: a
request about to run needs the same facts. `IInv` is `TypeOK /\ ApprovalInv`, and `ApprovalInv` has four
parts. `OpenedInv`: what each `pc` implies of the tables, in particular that a request which has yet to
run is not in `ran` and one which has yet to challenge has no receipt. `AskedInv`: only direct
write requests come to Sentinel's receipts. `IssuedInv`: a receipt is bound to the request it was
issued to, and its stamps are in order. `PaidInv`: an execution past the receipt check (about to run,
running, or having run) has a consumed receipt with its own binding, and no other execution has the
same. The crucial step is `Consume`: the transaction looks at the status again, so the receipt was not yet
consumed, so by `PaidInv` no other execution was paid for with it. One lemma per
action shows that it keeps `IInv`.

**Evidence.** `EvidenceInv` adds, to the properties, what a row looks like while its execution is under
way (started until it is completed, then as the reply that is about to be given, unless that is the internal error) and what
the verdict about to be recorded implies. Nothing is said of an execution that is lost but that it
was not replied to: its row may be open or complete.

**The others** rest on `IInv` and `EvidenceInv` with a small invariant each. `RowsMoveForward`: a receipt that
is not consumed has no such stamp (`UnspentInv`), and each step of the receipts is one of three
(`ReceiptSteps`). `RestartVoidsReceipts`: what is under way is under way in a process that is up
(`LiveInv`), and a receipt can only be spent by a request with its own key. `ChatIsWithoutApprovals`:
what an execution for chat is about to reply (`ChatInv`). `NoReceiptIsWasted` is inductive together with
`IInv`: requests do not change once they have arrived, and a request that spent a receipt runs, is about
to, or is lost. `AnswersComplete`: without a clock that slips no row was started in the future, so no
completion is refused, and who is about to reply has completed its row (`ClockInv`).

**Refinement.** The mapping takes the status column to the state of a receipt and, to each receipt, the
write executions that presented it and ran. `Challenge` is `Issue`, `Grant` is `Grant`, `Consume` is
`Spend`, `Invoke` of a write tool is `TakeEffect`; every other step, a crash included, stutters. That `Invoke`
finds `effects[a] = {}` is `PaidInv` again.

### The session locks (`SessionLocksProofs`)

| Theorem | States |
|---|---|
| `LocksTypeCorrect` | `LocksSpec => []LocksTypeOK` |
| `MutualExclusion` | `LocksSpec => []OneChatPerSession` |
| `NoEntryLeaks` | `LocksSpec => []TableIsExact` |
| `NoWakeUpIsLost` | `LocksSpec => []SomeoneMoves` |
| `FirstComeFirstServed` | `LocksSpec => NobodyOvertakes` |

`OneChatPerSession` is about sessions, but a lock excludes only those who use the same entry. `LocksInv`
therefore says that everyone who uses a session's lock uses the entry in the table, whose count is the
number of its users, all of them there for that session (`TableInv`): the count reaches zero, and
the entry is deleted, only when nobody is left who could still lock it. `FreshInv`: an entry not yet created has no
trace. `HeldInv`: a lock is held by the one chat inside with it. `QueueInv`: a queue is the
chats that wait, each once. `WokenInv`: whoever was woken is the head of the queue of a free lock, and
the head of such a queue has been woken; this is the step that a cancelled waiter must not break, and the
reason why `GiveUp` wakes the next.

### The chat service (`ChatServiceProofs`, `ConversationProofs`)

| Theorem | States |
|---|---|
| `ServiceUsesLocks` | `Spec => LocksSpec`: the theorems above hold in the service |
| `ChatTypeCorrect` | `Spec => []ChatTypeOK` |
| `OnlyWholeTurnsArePersisted` | `Spec => []SessionsAreWholeTurns` |
| `FailedTurnsAreForgotten` | `Spec => []AnswersTellTheTruth` |
| `OnlyWholeTurnsAreShown` | `Spec => []HistoryIsWholeTurns` |
| `MemoryIsSerial` | `Spec => ImplementsConversation` |

`ChatInv` adds to `LocksInv` what a chat's stage says of its place with the lock (`StageOK`), that a chat
has messages exactly when it was told so (`OriginOK`), that sequence numbers are not used twice
(`TurnsInv`), and `FreshOK`: what a chat inside has loaded is still what the table holds. That is
where the locks matter. The history is read in one transaction and the turn is written in another, with
the provider in between; it stays fresh because only a chat inside a session writes to it, and
only one is inside. For a chat that creates a session, it is that nobody else knows its ID.

The window loaded is the newest `n` rows without a leading answer. `RecentIsWholeTurns` shows that what is
left is whole turns for every limit, odd ones included.

`MemoryIsSerial` needs the turns of a session as a sequence, in the order of its questions. `Turns` picks
the i-th question by its rank, so that `TurnsAreTheQuestions` can characterise it: whatever numbers the
questions in their order has the turns of the rows. From this follow that the turns of a history are the
last ones of the session (`RecentTurnsAreTheLatest`) and that a recorded turn comes last
(`AppendedTurnComesLast`). `Respond` is then `Exchange` (`AnswerHappens`), and all else stutters.

### Chat with tools (`ChatWithToolsProofs`)

| Theorem | States |
|---|---|
| `ChatIsStillChat` | `CoreSpec => ImplementsChatService` |
| `ToolsGoThroughTheFabric` | `CoreSpec => Fabric!Spec` |
| `ToolsServeChats` | `CoreSpec => []ToolsServeTheChatAtHand` |
| `TurnsRestOnEvidence` | `CoreSpec => []AnswersRestOnEvidence` |

The proof is compositional. The composition implements each of its parts, so the invariants of both
hold of it: those of the chat directly, those of the Tool Fabric by citing their theorems through
`Proved == INSTANCE ToolFabricProofs`. What is left is `RouteInv`, which ties a chat to the execution of
its name: no request before the message is routed, the execution in flight only while its chat is at the
tool, and no provider, hence no turn, unless the reply was success. With `RepliesHold` and `EvidenceHolds` a
success is a completed row of an execution that ran.

### Migrations (`MigrationsProofs`)

| Theorem | States |
|---|---|
| `MigrationsTypeCorrect` | `Spec => []TypeOK` |
| `SchemaStaysWhole` | `Spec => []SchemaIsWhole` |
| `RefusedOnlyToLosers` | `Spec => []OnlyLosersAreRefused` |
| `UpgradesKeepRows` | `Spec => ImplementsUpgrade` |

`IInv` has three parts. `TypesInv` includes that at most one process has a write lock, and it has the
draft. `FileInv`: the file does not exist or is `Whole(db, k)` for some release k, its objects, shapes
and recorded migrations. `StartOK(p)`: the migrations before p's turn are recorded; and what p sees, while it
is in its transaction with a lock, is what the statements before its line make of the file (`Progress`).
The locks carry the proof: a reader keeps any other process from committing, so `Progress` is about the
file as it is and not as it was; and a writer excludes writers. A process whose transaction
has no lock yet has done nothing (`line[p] = 1`).

`StatementAdvances` shows that each statement takes `Progress` one line further unless it is refused, and
that it is refused only if the migration has been recorded in between. `MigrationCompletes`: with all
its statements done the draft is the next release whole, with the same audit rows, through the
rename, copy and drop of the fourth migration. So `Commit` is `Upgrade`, and the first audit row of a
served request is `Store`.

### Collectors (`ContextCollectorsProofs`)

| Theorem | States |
|---|---|
| `CollectorsTypeCorrect` | `Spec => []TypeOK` |
| `HandlesAreClosed` | `Spec => []ProcessHandlesAreClosed` |
| `ForegroundIsWhole` | `Spec => []ForegroundIsReportedWhole` |
| `SteadyAreListed` | `Spec => []SteadyWindowsAreListed` |
| `ReportsAreCanonical` | `Spec => []ReportIsCanonical` |
| `NamesAreOfWindows` | `MaxReuse <= 1` implies `Spec => []NamesHadAWindow` |

All that a proof has to know of the desktop is `Moves`, which every change of it satisfies
(`DesktopMoves`): counts of reuse only grow, what changes hands without its count growing does not
exist, what is steady has not changed. `LookInv` types the locals of a
collector at each of its steps, and says where a process handle is open: while the name is queried and until
`CloseHandle`, on both ways out (`HandlesAreClosed`); `SteadyInv` says that a steady window is yet to be inspected, is being
inspected with the right values in hand, or is listed; `FrontInv` the same of the foreground window's title and
application. `ReuseInv` is the argument for the second look. Between reading the process ID and
confirming it, either the process asked for its name is the one that was there from the start, and was seen to
show a window; or its ID has been given out again, and then it cannot go back; or the window's handle has,
and then the window found is not replaced once more. Without the hypothesis the property is false:
TLC finds the counterexample described under Bounds with `MaxReuse = 2`.

`ReportIsSorted` and `OfEachTheFirst` are about the operator alone: of the spellings of a name there is a
first, those that are kept have distinct keys, and picking them by rank gives a sorted sequence with exactly these.

### Only model-checked

`EveryRequestIsAnswered`, `EveryChatIsAnswered`, `WaitersAreServed` and `EveryStartEnds` are liveness
properties under fairness: the installed provers have no rules for ENABLED. The induction that some
facts about sequences would need is avoided by defining these by rank (`Turns`, `Report`) or index
(`Without`), so none of the safety properties is left out for it. `SpentBeforeExpiry` does not hold.

## 5. Findings

`fabric_expiry`. `docs/tasks/SENTINEL_APPROVAL_V0.10.md:71` says that consume happens "before expiry".
`_resolve_direct_approval` reads the clock once (`tools/router.py:277`), and that reading is what
`consume` compares with `expires_at` inside its transaction, however long that had to wait
for another writer of the file. TLC's trace: a request reads the clock and finds its receipt alive, the clock
reaches the expiry, the receipt is consumed. What does hold, and is proved, is that the reading
stamped as `consumed_at` is before the expiry and not before the grant.

## 6. What is not modelled

* Logging, formatting, configuration, the identity prompt and the unused event record: data without
  order.
* The router of chat text to tools (`intelligence/chat_tools.py`). It is a pure function on normalised
  text that works on substrings, inside words as well; reduced to words it would be another function. Its answer is a
  nondeterministic choice, so the properties hold whatever it routes.
* The system status collector: independent reads of psutil, without state.
* The HTTP exchange with Ollama and what httpx does in it; the provider registry, which is filled
  before the application serves.
* What a collector's worker thread does after its chat was cancelled: `asyncio.to_thread` cannot stop
  it, and it goes on reading until it is through. It changes nothing.
* The statements inside a repository's transaction: each begins with `BEGIN IMMEDIATE`, so nobody sees
  them apart. `Migrations` is where a transaction is not, and is modelled by the statement.
* Registration of tools and the wiring of the application.

## 7. Plan

Done: all modules of section 2, and for each property of a passing run either a theorem (safety,
refinement) or, for liveness, the reason above why there is none.

To come, in the proofs:

1. What the refinements give but no run states: that no step of the chat service removes or changes a
   message, and that no step of a start removes an audit row, as action properties of the
   detailed models.
2. More of the Tool Fabric's theorems for the composition: `RowsMoveForward` and `AnswersComplete` hold
   there too, and can be cited through the instance.
3. The safety half of the liveness properties: that a state in which nothing can step has nobody left
   unanswered. It needs ENABLED, so it would be about the guards by name.
