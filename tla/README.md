# ClawPod in TLA+

ClawPod is a daemon that lets people talk to CLI agents (codex, claude) through
Telegram, Discord, Slack and a browser Office.  This directory holds TLA+
modules of its core, the configurations that check them with TLC, and proofs
for TLAPS.  Paths below are relative to `src/crates/`; `PROJECT.json` maps each
definition to the lines it models.

## 1. The system

| Component | State | Operations | Talks to |
|---|---|---|---|
| Incoming queue (`queue/src/lib.rs`) | JSON files in `queue/incoming`, `processing`, `dead_letter`; agent locks; a semaphore of `max_concurrent_runs` | enqueue, scan, claim by rename, route, lock, run, ack, requeue with backoff, dead-letter, recovery at start | connectors, CLI and server write files; calls runner, store, agent, plugins; writes outgoing files |
| Plugin hooks (`plugins/src/lib.rs`) | a child process per call | start a command, write the payload, read the result | the queue, at four places of a file's processing |
| Managed browsers (`runner/src/browser.rs`) | a lock per CDP port, Chrome processes that outlive the daemon | probe, launch, wait up to 12 s | the runner, before the CLI starts |
| State store (`store/src/lib.rs`) | one JSON file, a snapshot per `StateStore` instance | runs, sessions, affinity, chat-room posts, sender access, heartbeat records; poll by id | everybody; queue and heartbeat share an instance, server, connectors and CLI have their own |
| Run execution (`runner/src/lib.rs`, `run_single_task`, `store/src/run_events.rs`) | CLI child with two pipes, blocking reader, event channel of 256, buffer of events for all runs | start, read, parse, emit, forward, time out, record the end, evict | queue; Office reads the buffer |
| Agent workspace and memory (`agent/src/`) | session directories, `reset.flag`, `memory/daily.md` | prepare a session, reset, consolidate a turn | queue, heartbeat, Office, CLI |
| Sender access (`pairing/`, store, connectors) | a record per sender: status, code, attempts, lockout | register, issue and verify a code, approve, reject | connectors, Office, CLI |
| Ingress (`slack/`, `telegram/`, `discord/`) | Slack: deduper, cursors, socket; Telegram: offset of updates; Discord: gateway session, typing tasks | connect, receive, acknowledge, dedup, gate, download, enqueue, type | platforms, sender access, queue |
| Outgoing delivery (queue, `telegram/`, `discord/`, `slack/`) | files in `queue/outgoing` | list, split, send part by part, remove, drop a permanent failure | queue and connectors write; platforms receive |
| Routing and handoffs (`routing/`, `process_claimed_file`) | affinity of a sender, depth in a message | mention, binding, affinity, handoff, room post, `route_to` | queue, store |
| Configuration (`config/`, server, CLI, `office.html`) | `clawpod.toml`, the server's copy, the start-up copy of every other component | CRUD of agents, teams, bindings; settings page; CLI edits; hot reload of the heartbeat | all |
| Heartbeat (`heartbeat/`, `runtime/src/heartbeat.rs`) | loop with due times, watch channel of settings, last message of the main session | loop, manual run, dedup, delivery | store, runner, outgoing queue, chat room |
| Prompt, session keys, observer, CLI, services | none | text, keys, event log | queue, runner |

What is hard about it, and what has to hold:

* **Queue.**  Files are written in place, claimed by rename, rewritten in
  place, and recovered after a crash; tasks wait for two locks in a row; every
  step can fail.  An accepted message must end answered or in the dead letters,
  runs of an agent must not overlap, and a run must be repeated only when it
  failed or the daemon stopped.
* **Hooks and browsers.**  Both run while a task holds locks, and neither is
  under the run's timeout.  A hang must hold up no more than it has to, and two
  Chromes must not share a profile.
* **Store.**  The mutex is per instance but the file is shared.  On one
  instance updates must be atomic; across instances an update may be lost, and
  only that way.
* **Runs.**  A blocking thread outlives the timeout that gave up on it, and
  events pass a bounded channel into a bounded buffer that other runs share.
* **Memory.**  Consolidations overlap later turns and each other; resets and
  heartbeat runs take no lock.
* **Access.**  Handlers of one sender run beside each other, beside operators,
  and stop anywhere.
* **Ingress.**  Each platform has its own way to deliver an event again or
  not at all, and the connectors record that they took it before they handled
  it.  A message must become one file, unless there is a cause.
* **Delivery.**  A send is not atomic with the removal of its file, and a
  message of several parts is repeated from its first part.  Splitting must
  keep the text.
* **Conversations.**  Affinity is read before the lock and written by others;
  agents cause messages to agents.
* **Configuration.**  Read, edit and write without a lock around them, by
  requests, pages of any age and other processes.
* **Heartbeat.**  A loop, a settings channel and manual runs, with a memory of
  the last message that any run may change.

## 2. Modules

| Module | Models | Instance for TLC | Proofs |
|---|---|---|---|
| `MessageDelivery` | what the queue promises: absent, pending, then answered, dead-lettered or dropped, with bounded attempts | | |
| `QueueProcessor` | the incoming queue | `MCQueueProcessor` | `QueueProcessorProofs` |
| `PluginHooks` | one plugin command | | |
| `BrowserProfile` | the browser of one profile | | |
| `TaskPipeline` | the queue with hooks, browser and CLIs that hang | `MCTaskPipeline` | `QueueProcessorProofs` |
| `StoreOps` | content of the state file and its updates as pure operators | | |
| `AtomicStore` | a store whose updates take one step | | |
| `StateStore` | instances, snapshots, mutexes, failing writes | `MCStateStore` | `StateStoreProofs` |
| `RunExecution` | one run and what it shares with others | `MCRunExecution` | `RunExecutionProofs` |
| `AgentMemory` | an agent's sessions and `daily.md` | `MCAgentMemory` | `SessionProofs` |
| `SenderAccess` | pairing of a sender | `MCSenderAccess` | `SenderProofs` |
| `Ingress` | a connector from the platform to `queue/incoming`, and the typing indicator | `MCIngress` | `IngressProofs` |
| `OutgoingDelivery` | the outgoing queue and loop of a channel | `MCOutgoingDelivery` | `OutgoingDeliveryProofs` |
| `DiscordChunks` | how Discord splits a text and repairs its code fences, as functions | (the same) | (the same) |
| `Conversation` | routing, affinity, handoffs, room posts | `MCConversation` | `SenderProofs` |
| `ConfigAdmin` | configuration file, server copy, pages, commands | `MCConfigAdmin` | `ConfigAdminProofs` |
| `Heartbeat` | heartbeat loop and runs | `MCHeartbeat` | `SessionProofs` |

`TaskPipeline` composes three of them: it extends `QueueProcessor`, instantiates
`PluginHooks` and `BrowserProfile` with the messages as callers, and says which
step of a task a hook precedes and which one the browser guards.
`MCOutgoingDelivery` takes the parts of its messages from `DiscordChunks`.  The
others are joined by what they leave to each other.  `Ingress` ends where
`QueueProcessor` begins, at `EnqueueOpen`.  `Conversation` takes the queue as a
bag: that a message stays there until it is settled is what `QueueProcessor`
shows.  `QueueProcessor` has one step for a run; `RunExecution` says when that
step ends.  In the other direction a handoff is `EnqueueOpen` of a fresh message.
`SenderAccess`, `Conversation` and `Heartbeat` take a store call as one step:
`StateStore` says when that is so.  `OutgoingDelivery` starts at the file that a
run, a handler or a heartbeat writes.

### How the code appears in them

**QueueProcessor.**  A message is its file: `loc` is the directory, `body`
whether the JSON is complete (`fs::write` in place: `EnqueueOpen`,
`EnqueueClose`, `RewriteOpen`, `RewriteClose`), `name` a generation that a
requeue advances, `due` whether the time in the name has passed.  `Scan` spawns
a task per due file below the cap on tasks; two scans may spawn two tasks for
one file, and the rename decides (`Claim`, `ClaimMiss`).  `pc` follows
`handle_file` to `process_claimed_file` and to the settling of a failure.
`Crash` drops tasks, locks and permits and leaves the files; `Restart`,
`Recover`, `StartScanning` are the start-up.  `StatusOf` maps it all to
`MessageDelivery`.

**PluginHooks.**  `Spawn`, `Feed` and `Returns` are `run_command`: the payload
is written whole before anything is read.  `Size` counts it in pipe buffers, and
`Absorbs` says how much a command takes off the daemon: all of it if it reads
first, two buffers if it answers line by line, one if it does not read.

**BrowserProfile.**  `LockPort`, `Ready`, `Launch`, `EnsureFails` are
`ensure_browser_ready`; `port` is what answers at the CDP port, `chromes` the
live processes of the profile.  Locks are keyed by port and ports are distinct
in a valid configuration, so one profile is enough.

**TaskPipeline.**  `RunHook`, `StartRunner`, `EnsureBrowser`, `RunnerReturns`,
`Hooked` and `Plain` are the task's steps with what precedes them; `CliHangs`
makes a run one that no timeout ends; everything else is a step of the queue that
changes nothing of hooks, browser and CLI.

**StateStore.**  `Begin` is `update_state` up to the change of the snapshot (it
locks, reads the file, applies), `Persist` the rename of the temporary file,
`PersistFails` the error path that puts the previous snapshot back.  `Poll` is
the chat-room reader with its cursor.  The operations in `StoreOps` are those
whose interference can be told apart: runs, posts with ids, sessions, senders.

**RunExecution.**  `task`, `child`, `reader`, `chan`, `buffer` are the tokio
task, the process with its pipes, the thread of `spawn_blocking`, the channel
and `RunEventBuffer`.  A line is one of seven kinds; the two readings of the
lines, for events and for the answer, are `CodexShows`, `ClaudeShows` and
`CodexText`, `ClaudeText`.

**AgentMemory.**  `Prepare` … `EndTurn` are a turn; `LoadExisting` …
`WriteDaily` its consolidation; `BeginReset`, `ResetStep` the reset, which
removes sessions one step at a time; `Beat` a heartbeat run in the session.

**SenderAccess.**  A handler is a sequence of store calls, each a step, each
able to fail (`HandlerFails`); operators find, approve and clear in three
calls, or approve and reject in one.

**Ingress.**  One module for four modes, because they share the handler: Slack's
`ReceiveEnvelope` acknowledges before it handles (`LoseAck` when the
acknowledgement does not arrive), or `FirstFetch` and `FetchHistory` poll with a
cursor; Telegram's `GetUpdates` confirms the updates of the call before; Discord
dispatches its events beside each other.  `Dedup`, `Gate`, `Download`, `Enqueue`
are the handler in the order of the code, `HandlerFails` its logged errors.
`StartTyping` and `Reply` are the two ends of the typing task.  `excused` and
`forgotten` collect the causes the properties name.

**OutgoingDelivery.**  `BeginListing`, `EndListing` are a directory listing that
is not atomic with writers; `SendPart`, `SendFails`, `DropRefused`,
`RetryRefused`, `Ack`, `AckFails` are what the loop does with each file.

**DiscordChunks.**  `SplitAtBoundaries`, `FindOpenFence` and `BalanceCodeFences`
are the functions of those names over a text of five kinds of letters: word,
space, newline and the two fence markers; a marker of more than three
characters is several letters.  Each loop is a function from the number of turns or
letters read to its state (`Turns`, `Scan`, `OpenAfter`).

**Conversation.**  `Send`, `Route`, `Start`, `Relay`, `Answer`, `Fail` are the
stretches of `process_claimed_file` between awaits that others can observe.
`ResolveBinding` is `resolve_binding` with its loop (`BestUpTo`) and its weights
(`Score`), and `BestBinding` what the loop amounts to.  A rule may name an agent
that was deleted (server:576-595 leaves the rules alone), which `Configured`
turns into the default one.  `Handoffs` and `RoomPost` are the messages an
answer causes.

**ConfigAdmin.**  `Request`, `Show` and `SaveSettings`, `Command` take a copy and edit it;
`Open`, `Write` are `fs::write`; `HotReload`, `Swap` the updates of the
heartbeat settings and of the copy in memory.  `Stop` and `Start` are the
daemon.

**Heartbeat.**  `Top`, `Wake`, `Cycle`, `Skip`, `CycleEnds` are `run_loop`;
`Begin`, `Decide`, `RunFails`, `Tell`, `Update` a run.  Time is in ticks.

## 3. Runs

All runs pass except the last.  Every property has a mutant, a plausible bug in
a mapped definition that violates it under the same configuration; the mutated
forms stand beside what they change, marked `Mutant`.

| Run | Question | Bounds |
|---|---|---|
| `queue_safety` | Are messages kept, settled with a cause, run a bounded number of times, one run per agent at a time, and does the queue implement `MessageDelivery`? | 2 messages, 2 agents, 1 retry, 1 permit, 2 tasks, 1 crash, every file operation may fail |
| `task_pipeline` | Is every whole file settled, unless a hook, a browser or a CLI that hangs holds it up, and what can such a hang hold up?  Do two Chromes share a profile? | 2 messages, 2 agents, 2 permits, no retry, no dead letters, 1 crash; four kinds of commands, payloads of 1 and 3 pipe buffers; at most 2 Chromes; plugins, a profile or a hanging CLI installed |
| `store` | Are updates atomic, is a loss explained, a failed update invisible, and does the cursor miss nothing? | queue and heartbeat on one instance, the server on another; a run, 2 posts, a sender; failing writes |
| `run_execution` | Are events, counts, answers and the buffer right, and does the run end? | 2 runs of 2 and 1 lines, 1 stderr block, pipe, channel and buffer of 1 |
| `agent_memory` | What do overlapping consolidations, resets, heartbeats and stops do to conversations and memory? | 3 turns, 2 facts, 1 heartbeat run, 1 reset, 1 fault, prompt room for 2 entries |
| `sender_access` | Is guessing bounded, can a pending sender pair, does an approval last? | 4 messages, 1 operator, 3 codes, limit 2 |
| `ingress` | Does a message become one file, and is it missed, doubled or left typing for a cause only? | each of the 4 modes; 3 messages, one not let in, one announced twice, one with an attachment; pages of 2; 2 faults, 1 crash |
| `outgoing_delivery` | Are messages removed for a reason only, repeated for a reason only, kept in order, and eventually delivered?  Does the splitter keep the text and fit the limit? | 4 messages of 1 or 2 parts, 2 refused, 2 faults, 1 crash; all texts of 8 letters, chunks of 7 and 10, reserve of 4 |
| `conversation` | Does the right agent answer, and does every conversation end? | team of 3, 1 sender, 4 bindings, chain of 2, 1 retry, 3 messages, posts or failures |
| `config_admin` | Which edits survive, and do file, memory and loop agree? | 2 agents, 2 requests or pages, 1 command, 3 edits, 1 fault |
| `heartbeat` | Is nobody told twice, does the loop pace itself and beat? | 3 agents, 1 manual run, window of 2 ticks, behaviours of any length |
| `run_timeout` | Does the timeout end a run?  It does not. | 1 run |

**Why the bounds are enough.**  Two of a kind are what it takes for any of them
to interfere, and each bound is chosen so that the limit it stands for is
reached: one permit for two agents, one retry, a channel of one event for two
lines, a prompt with room for two of three entries, an attempt limit of two
below four messages, a page of two below three messages, a payload above and one
below what the pipes hold.  `JoinCap`, `ChanCap`, `MaxEvents`, `MaxCompleted`,
`KnownCap`, `Window`, `PageSize`, `Overhead` scale the constants of the code
down and are named after them; `Max…` constants marked *bound* cap what is
unbounded.  In `task_pipeline` plugins, a profile and a CLI that hangs come in turn, not
together: a task waits for one of them at a time, and the proof about two
browsers covers both at once.  Where a module has proofs the bounds are no
matter.

`QueueProcessor.Dispose` discards a file in `task_pipeline` (dead letters off)
and rewrites it in `queue_safety` (dead letters on).

**`CHECK_DEADLOCK FALSE`** is set where all is done once the messages, turns or
edits that the bound allows have been made.

**Symmetry** is used in safety runs only, over values that no definition
tells apart.

### Fairness

Tokio polls spawned tasks and its `Mutex` and `Semaphore` serve waiters in
order, so each task's next step is weakly fair.  The rest is the environment:

* Producers, senders, operators, resets, failures and crashes are never fair.
* `TaskPipeline`: the clock advances, a supervisor restarts the daemon
  (README.md:298, `Restart=on-failure`), and a CLI that does not
  hang ends; one that hangs is ended by nothing (`run_timeout`).  A command that
  can go on does, an ensure's polls and deadline are timers; a command that hangs,
  a pipe that is full and a Chrome that never comes up owe nothing.
* `RunExecution`: task, reader and forwarder are fair; `WellBehaved` adds that
  the child goes on and ends.  With `FairSpec` alone the child may hang.
* `AgentMemory`: the CLI of a consolidation may hang, its timeout fires.
* `Ingress`: connectors connect, fetch, take and handle; each reconnect is
  tried for ever.  `MaxFaults` and `MaxCrashes` end the failures.
* `OutgoingDelivery`: the loop is fair; platform and disk answer, with an
  error or not.
* `Heartbeat`: loop and runs are weakly fair, time is strongly fair since it
  stands still during the steps that take less than a tick.

## 4. Proofs

Every theorem below holds for all values of the constants under the named
`ASSUME` of its module.

**QueueProcessorProofs.**  `Invariance` proves `IInv`, which is the
conjunction of the type invariant with `LockInv` (a task holds the lock of its
agent from `locked` on, and only then), `TaskInv` (steps fit the place of the
file), `SpawnInv` (spawned tasks know past names only), `FileInv` (where a file
is, and whether it is whole, fits its task and the daemon's phase),
`CountInv` (attempts against retries and crashes), `PermitsAccounted`,
`SettledWithCause` and `AttemptBound`.  None of the properties is inductive
alone: that runs of an agent are serial needs who holds the locks, that
permits add up needs which steps hold one, that attempts are bounded needs how
far the stored retry count lags behind the failures, and that again which tasks
may exist for which name.  From `IInv` follow `TypeCorrect`,
`RunsOfAnAgentAreSerial`, `PermitsNeverLeak`, `NoMessageIsLost`,
`RunsAreBounded`, `BackoffIsHonoured` and the refinement
`QueueDeliversAtLeastOnce`.

The module goes on with `TaskPipeline`, which extends `QueueProcessor`.  Every
step of the pipeline is a step of the queue or leaves it alone
(`PipelineImplementsQueue`), so what is proved of the queue carries over:
`PipelineDeliversAtLeastOnce`, `PipelineRunsAreSerial`.
`TwinsAreExplained` needs who holds the port lock between the probe and the
launch, and that a Chrome is the only one until one is given up (`OneBrowser`).

**StateStoreProofs.**  `IInv`: `MutexInv` (one caller per instance),
`FreshInv` (a refreshed snapshot is the file plus one update unless the caller
is stale), `OrderInv`, `IdInv` (post ids are distinct and below the next),
`ProvenanceInv` (what is visible was completed or is in progress), and
`LossNeedsStaleWriter`.  `OneInstanceIsAtomic` maps `file` to the content of
`AtomicStore`: `Persist` is its update, everything else a stutter;
`FreshUpdatesAreAtomic` says the same of any instances as long as no stale
snapshot is renamed.  `FailedUpdatesAreInvisible` follows from `ProvenanceInv`.
`ReadersMissNothing` has an invariant of its own about a reader's cursor and the
ids below it.

**SenderProofs.**  `SenderAccess`: `IInv` is types, `GuessesBounded`, `DeskInv` (an
operator is between two calls on a sender that is known) and `PairInv` (the
stored code is one that was sent or is about to be), from which
`PendingSendersCanPair` and `ApprovalsAreKept` follow.

`Conversation`: `TheRightAgentRuns` speaks of messages past their routing, so
the invariant has to say where a message that is still queued would go.
`ConversationInv` is types, `RightAgentRuns`, `AddressInv` (internal messages
are addressed, addressed ones name nobody), `WantInv` (a message that somebody
in particular ought to answer is the only one of its sender and would be routed
there now) and `ChosenInv` (unless mentions of a sender raced there is at most
one, and once it was routed the stored affinity is what the sender chose).  The
messages are a bag; each step takes one copy of a message and puts a later form of it
and the messages it caused in its place (`Moved`), and `MovedRight` is what the
invariant needs to know of these, so the bag is looked into once and not in every
action.  `BindingsResolveToTheBest` is about the loop over the rules: for any
list it finds the first rule with the highest score.  That the loop has a value for
each length, and that the value is the first best, are shown by a least
counterexample (`LeastNumber`), the order of the natural numbers being well
founded.

**RunExecutionProofs.**  `IInv` is types, `PipeInv` (before a run starts and
once its forwarder is done nothing is in flight), `EventInv` (events received
and waiting are no more than those sent, and the buffer holds the first of
them), `CompletedInv` (what may be evicted is over), `BufferIsBounded`,
`NoBurstInv` (without overflow every event is in the channel or the buffer) and
`AnswerInv` (a result was taken from all the output).  A step of one run leaves
another alone but for an eviction (`Frame`), so each part is shown run by run.
That an answer is the position of a line with an answer rests on `MaxOfBounded`,
which comes from the order of the natural numbers being well founded.  All five
safety properties of the run follow.

**SessionProofs.**  `AgentMemory`: `IInv` is types, `ConversationInv` (an old conversation
known after a reset waits for the next turn to see the flag), `AppendInv` (the
append in progress starts from all that was written, unless appends overlapped),
`FactInv` (the consolidation in progress knows what is recorded, unless
consolidations overlapped), `LossHasCause` and `DuplicateHasCause`.  The last two
say nothing of an append between its read and its write, which is where the
invariants come in.

`Heartbeat`: `HeartbeatInv` is types, `JobInv` (a run under way has an agent and
tells texts only), `DueInv` (what an agent is due in and how long ago its last
scheduled run was add up to its interval, and who the cycle still has to run is
due), `AloneInv` (an agent without an excuse has one run at most), `KnownInv` (its
main session knows what was heard last, and since when, unless a run is between
telling and recording) and `DecidedInv` (what a run is about to tell was not
heard within the window).  `AlertsAreNotRepeated` alone knows only what was heard,
not what the run that is about to tell has compared it with.  `RunsAreSpaced`
needs `DueInv`.  Both hold for any agents, intervals, texts, manual runs and
window.

**IngressProofs.**  `IInv` is types, `Shape` (what the state of each mode looks
like; what is not posted is nowhere), `Counted` (the copies of a message and
those still to come are no more than one for each time it was forgotten and the
one it is remembered for), `Followed` (what was taken from the platform is in
hand until it is resolved), `Replied` (a reply comes after the message, and early
ones are remembered), `MissedHasCause` and `TypingHasCause`.  `NothingIsMissed`,
`NothingIsDoubled` and `TypingIsExplained` follow, for any number of messages,
mentions and faults and any page size.

**OutgoingDeliveryProofs.**  `IInv` is types, `RoundInv` (when a batch is there
and how far its first message is), `SentInv` (the parts counted as sent have
arrived), `CopiesInv` (a copy not owed to a failure or a crash belongs to the
round under way or to the removal: `CopiesBounded` alone does not know how far
the round is) and `SeenInv` (a listed message is ahead, gone or has failed).
`NothingIsRepeatedWithoutCause`, `NothingIsDroppedUnsent` and `OrderIsKept` follow
for any number of messages, parts, failures and crashes.

`EveryTextSplitsSoundly` is about Discord's splitter: for every text and every
limit above the reserve, the chunks that are cut are the text, those that are
sent fit the limit unless a fence line is longer than the reserve
(`HasLongFence`), and none leaves a fence open unless a marker is `~~~` or longer
than three (`HasOtherMarker`).  Each loop of it is a recursion over a number.  That
such a function exists (`RecursionExists`) and what holds at each number
(`Induct`) come from a least counterexample (`LeastNumber`), both stated for sets
and functions, which the provers can instantiate.  The loops keep `DoneSoFar`
(the chunks so far are the text up to `start`, each a stretch of it that fits) and
`ScanInv` (the line under way is what was read since the last newline, and an open
fence is a line of the text).  A fence that is carried over into the next chunk
stays a line of the text because a line cannot reach across the newline after it
(`ReopenedIs`); its length is then bounded by the reserve, and its marker is a
single one, which the added marker closes (`ClosedIs`).  `ChunksStaySound` applies
it to the texts in the queue.

**ConfigAdminProofs.**  Two layers.  `EditsAreFine` says that each of the
fourteen kinds of edits turns a configuration with a sound team into one.
`IInv` adds where an editor can stand (`StandsInv`), what a copy may hold in the
place of a secret (`NoMaskInv`, `SecretInv`), and, as long as no two edits
overlapped, that there is one copy being written (`TurnsInv`), which of memory,
page and copy the loop follows (`LoopInv`), that a copy once written is the file
until it is the memory (`FileInv`), and that it holds all that was reported
(`SurviveInv`).  `TeamsStaySound`, `SecretsAreKept`, `ServerFollowsFile` and
`ReportedEditsSurvive` follow.  `InstalledAssumption` is that the file the
daemon starts with is valid and holds no mask.

`IInv` of each module was checked with TLC before it was proved.  The cited
properties are also checked by the runs; type correctness, which the theorems
named `TypeCorrect` or `Invariance` contain, is not checked again there.

**With TLC only:** liveness, which is beyond the prover.

## 5. What the models show about the code

**Finding** (`run_timeout`).  docs/configuration.md:125 calls `timeout_sec` the
time limit of one run.  When it fires, `run_single_task` still waits for the
event channel to close, which the blocking reader does once the child has ended.
A child that hangs keeps its run, the lock of its agent and a permit; what that
does to other files is the part of `HeldUpBy` about `hung`.

**Seen while modelling**, each built into the models as the code has it:

* An incoming file can be claimed while it is still being written.  Its JSON
  does not parse, and it stays in `processing` until the next start
  (queue:1227; docs/architecture.md:67-70).  `FilesSettleOrAreHeldUp` is stated
  for whole files, stranded ones excepted until a restart.
* A crash inside a rewrite in place leaves a file that recovery moves back and
  that no task can read.
* A plugin command has no timeout (plugins:171), and its stdin is written before
  its stdout is read (plugins:162): a command that hangs, or one that answers
  line by line to a payload that both pipes cannot hold, keeps its task, the
  agent's lock and a permit until the daemon is restarted.  `HeldUpBy` lists what
  waits for it.
* A Chrome that does not answer in 12 seconds is given up and not killed, so the
  next run may launch a second one on the same profile.  The rest of an answer
  from `/json/version` is awaited without a timeout.
* Ports of browser profiles are checked to be distinct, directories are not; an
  explicit view path can equal the default path of another profile.  Heartbeat
  runs carry no browser metadata.  A later plugin's metadata replaces an
  earlier one's.
* `@default` is no mention: after another agent was named, that agent answers
  it (queue:322 against the comment at 324-327).
* With several `StateStore` instances a completed update can be lost: an
  approval, a post, the end of a run.  `LossNeedsStaleWriter` names the cause.
* `event_count` is too small when more events come than the channel holds,
  since all are sent after the child has ended.
* When `record_run_end` fails the run's events stay in the buffer
  (store/src/run_events.rs:9-10).
* The child's stderr is read after its stdout: a child that fills the stderr
  pipe first never ends.
* Output cut in the middle of a character panics the reader; a finished run
  then counts as failed.  The CLI's exit status is not looked at.  A torn or
  empty item makes the raw output the reply.
* Consolidations overlap each other and later turns, so entries of `daily.md`
  are lost or doubled (comment at queue:130-131).  The prompt keeps the
  oldest entries, so the newest facts can be recorded again.
* A heartbeat run takes no agent lock and can bring a session back that a
  reset has removed.  A turn that looked for the reset flag before it was set
  continues the old conversation.
* A Slack connector uses socket mode or polling, never both: what one misses the
  other does not make up for.  The dedup key is recorded before the message is
  handled (slack:569), so a redelivery of one that failed is dropped.  The
  envelope is acknowledged before it is handled (243), the cursor moves past
  failed messages (405) and starts at the present (380), and a fetch returns ten
  messages (1082).  Telegram's `repl` counts a failed update as handled.
* Discord's typing indicator is started after the file is written; a reply that
  is faster than that leaves it running, as does a message without a reply.
* Attachments of the same name in one message overwrite each other.
* The reserve of 30 characters that `split_message_chunks` keeps for fences does
  not cover a long fence line, and a fence whose marker is `~~~` or longer than
  three is closed with ```` ``` ````, which does not close it.
* Undelivered heartbeats refresh the dedup window, and an agent without a main
  session has no dedup (heartbeat/src/dedup.rs:5-6).
* A settings page or a CLI command starts from an older copy and undoes later
  edits.  An empty file loads as the default configuration.  The queue keeps
  the configuration it started with, whatever the messages of
  runtime/src/main.rs and server/src/lib.rs say about the next run.

## 6. Not modelled

* **One daemon.**  Office-only mode is a second server process on the same
  files; its store is one more instance in `StateStore`, its configuration
  edits are not in `ConfigAdmin`.
* **Clients of `PUT /api/settings`** are Office pages.
* **Ingress** has one chat; the normalisation of messages (mentions, threads,
  subtypes) is text, and what the gate decides is a constant.
* **Hooks:** the JSON a command returns, and the order of several plugins.
* **Browsers:** launch arguments and the viewer proxy of the server.
* **`team` crate:** used by no other crate.
* **Session keys, prompt text, domain types, visibility, indicators, active
  hours:** pure functions or text.  Backoff arithmetic is a boolean `due`.
* **Read-only API, event log, browser proxy, CLI output, service files:** I/O.

## 7. Plan

Done: the queue with its abstract specification and refinement, the queue with
hooks, browsers and CLIs that hang, the store with its own abstraction, runs, memory,
access, ingress, delivery with Discord's splitter, conversations, configuration,
heartbeat; proofs of the safety of each of them.

Next, in this order:

1. Backoff as a function of the retry count, against a reference definition.
2. The heartbeat policy with active hours; session keys of the three platforms
   and the conversations they keep apart.
3. The viewer proxy.
