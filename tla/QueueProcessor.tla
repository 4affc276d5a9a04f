--------------------------- MODULE QueueProcessor ---------------------------
(***************************************************************************)
(* The file-backed incoming queue of ClawPod (crates/queue/src/lib.rs).    *)
(*                                                                         *)
(* Producers (channel connectors, the CLI, the server, the processor's own *)
(* handoffs) create a JSON file in queue/incoming.  The processor scans    *)
(* that directory, spawns one task per due file, and every task claims its *)
(* file by renaming it to queue/processing, routes it, waits for the       *)
(* agent's lock and then for one of the global permits, runs the agent,    *)
(* writes the reply to queue/outgoing and removes the file.  A failure     *)
(* rewrites the file and renames it back to incoming under a new name that *)
(* carries its due time, or moves it to queue/dead_letter.                 *)
(*                                                                         *)
(* A message is identified with its file.  Contents are abstracted to      *)
(* "does the file parse" and the retry count it stores; file names to a    *)
(* generation number (a requeue picks a fresh name) and whether the due    *)
(* time the name carries has passed.  Handoffs and chat-room posts of a    *)
(* run create new files: EnqueueOpen of a fresh message at any time covers *)
(* them.  TaskPipeline adds the plugin hooks, the browser and fairness.    *)
(***************************************************************************)
EXTENDS Integers, FiniteSets

CONSTANTS
  Msgs,               \* the messages that may ever be enqueued
  Agents,             \* the configured agents
  NoMsg,              \* "no message": the value of a free agent lock
  NoAgent,            \* "no agent": the target of a message without a task
  MaxRetries,         \* config.queue.max_retries
  MaxConcurrentRuns,  \* config.daemon.max_concurrent_runs.max(1)
  JoinCap,            \* max(4 * max_concurrent_runs, 8) in the code
  DeadLetterEnabled,  \* config.queue.dead_letter_enabled
  IoFaults,           \* may a read, rewrite, rename or remove of a file fail?
  MaxCrashes          \* bound: how often the daemon may stop

ASSUME QueueAssumption ==
  /\ IsFiniteSet(Msgs)
  /\ NoMsg \notin Msgs
  /\ NoAgent \notin Agents
  /\ MaxRetries \in Nat
  /\ MaxConcurrentRuns \in Nat \ {0}
  /\ JoinCap \in Nat
  /\ DeadLetterEnabled \in BOOLEAN
  /\ IoFaults \in BOOLEAN
  /\ MaxCrashes \in Nat

VARIABLES
  phase,      \* the daemon: "down", "recovering" or "scanning"
  crashes,    \* how often the daemon has stopped
  loc,        \* the directory that holds the file of a message
  body,       \* "partial" while the file's JSON is incomplete
  name,       \* generation of the file's name
  due,        \* has the due time in the file's name passed?
  retry,      \* retry_count stored in the file
  writing,    \* messages whose producer is inside fs::write
  accepted,   \* messages whose enqueue returned
  spawned,    \* <<m, n>>: a handle_file task for the path of m's n-th name
  pc,         \* where the task that claimed m stands
  agentOf,    \* the agent that task was routed to
  agentLock,  \* holder of each agent's lock
  permits,    \* permits left in global_limit
  attempts,   \* history: agent runs started for a message
  replies     \* history: replies written to queue/outgoing

fileVars == <<loc, body, name, due, retry>>
producerVars == <<writing, accepted>>
taskVars == <<pc, agentOf>>
lockVars == <<agentLock, permits>>
historyVars == <<attempts, replies>>
vars == <<phase, crashes, fileVars, producerVars, spawned, taskVars,
          lockVars, historyVars>>

Locations == {"unborn", "incoming", "processing", "done", "discarded",
              "dead_letter"}
Settled == {"done", "discarded", "dead_letter"}

\* Steps of a task that holds the lock of its agent, and those of a task that
\* also holds a global permit: the scope of _agent_guard and _global_guard.
HoldingPermit == {"admitted", "running", "erred", "ran", "replied"}
HoldingLock == HoldingPermit \cup {"locked"}
Steps == HoldingLock \cup {"idle", "claimed", "waiting", "finishing",
                           "failed", "rewriting", "rewritten"}

TypeOK ==
  /\ phase \in {"down", "recovering", "scanning"}
  /\ crashes \in 0 .. MaxCrashes
  /\ loc \in [Msgs -> Locations]
  /\ body \in [Msgs -> {"partial", "complete"}]
  /\ name \in [Msgs -> Nat]
  /\ due \in [Msgs -> BOOLEAN]
  /\ retry \in [Msgs -> Nat]
  /\ writing \in SUBSET Msgs
  /\ accepted \in SUBSET Msgs
  /\ spawned \in SUBSET (Msgs \X Nat)
  /\ pc \in [Msgs -> Steps]
  /\ agentOf \in [Msgs -> Agents \cup {NoAgent}]
  /\ agentLock \in [Agents -> Msgs \cup {NoMsg}]
  /\ permits \in Nat
  /\ attempts \in [Msgs -> Nat]
  /\ replies \in [Msgs -> Nat]

Init ==
  /\ phase = "recovering"
  /\ crashes = 0
  /\ loc = [m \in Msgs |-> "unborn"]
  /\ body = [m \in Msgs |-> "partial"]
  /\ name = [m \in Msgs |-> 0]
  /\ due = [m \in Msgs |-> FALSE]
  /\ retry = [m \in Msgs |-> 0]
  /\ writing = {}
  /\ accepted = {}
  /\ spawned = {}
  /\ pc = [m \in Msgs |-> "idle"]
  /\ agentOf = [m \in Msgs |-> NoAgent]
  /\ agentLock = [a \in Agents |-> NoMsg]
  /\ permits = MaxConcurrentRuns
  /\ attempts = [m \in Msgs |-> 0]
  /\ replies = [m \in Msgs |-> 0]

-----------------------------------------------------------------------------
(* Producers: enqueue_message writes the file in place, under its final    *)
(* name, so the scanner can see it before its content is complete.         *)

\* The due time is the channel's timestamp: usually past, but another clock's.
EnqueueOpen(m) ==
  /\ loc[m] = "unborn"
  /\ loc' = [loc EXCEPT ![m] = "incoming"]
  /\ \E past \in BOOLEAN : due' = [due EXCEPT ![m] = past]
  /\ writing' = writing \cup {m}
  /\ UNCHANGED <<phase, crashes, body, name, retry, accepted, spawned,
                 taskVars, lockVars, historyVars>>

\* The open file follows a rename, so the write may end in queue/processing.
EnqueueClose(m) ==
  /\ m \in writing
  /\ body' = [body EXCEPT ![m] = "complete"]
  /\ writing' = writing \ {m}
  /\ accepted' = accepted \cup {m}
  /\ UNCHANGED <<phase, crashes, loc, name, due, retry, spawned, taskVars,
                 lockVars, historyVars>>

ProducerDies(m) ==
  /\ m \in writing
  /\ writing' = writing \ {m}
  /\ UNCHANGED <<phase, crashes, fileVars, accepted, spawned, taskVars,
                 lockVars, historyVars>>

-----------------------------------------------------------------------------
(* The scan loop of run_forever.                                           *)

Elapse(m) ==
  /\ loc[m] = "incoming"
  /\ ~due[m]
  /\ due' = [due EXCEPT ![m] = TRUE]
  /\ UNCHANGED <<phase, crashes, loc, body, name, retry, producerVars,
                 spawned, taskVars, lockVars, historyVars>>

LiveTasks == Cardinality(spawned) + Cardinality({m \in Msgs : pc[m] # "idle"})

Scannable == {m \in Msgs : loc[m] = "incoming" /\ due[m]}

Scan ==
  /\ phase = "scanning"
  /\ LiveTasks <= JoinCap
  /\ spawned' = spawned \cup {<<m, name[m]>> : m \in Scannable}
  /\ UNCHANGED <<phase, crashes, fileVars, producerVars, taskVars, lockVars,
                 historyVars>>

-----------------------------------------------------------------------------
(* handle_file and process_claimed_file, one task per spawned path.        *)

Goto(m, step) == pc' = [pc EXCEPT ![m] = step]

\* Only one rename of a path succeeds.  A later scan may have spawned another
\* task for the same path, so the path may stay in spawned.
Claim(m, n) ==
  /\ <<m, n>> \in spawned
  /\ loc[m] = "incoming" /\ name[m] = n
  /\ loc' = [loc EXCEPT ![m] = "processing"]
  /\ Goto(m, "claimed")
  /\ spawned' \in {spawned, spawned \ {<<m, n>>}}
  /\ UNCHANGED <<phase, crashes, body, name, due, retry, producerVars,
                 agentOf, lockVars, historyVars>>

ClaimMiss(m, n) ==
  /\ <<m, n>> \in spawned
  /\ ~(loc[m] = "incoming" /\ name[m] = n)
  /\ spawned' = spawned \ {<<m, n>>}
  /\ UNCHANGED <<phase, crashes, fileVars, producerVars, taskVars, lockVars,
                 historyVars>>

\* The task ends with an error and nobody is left to handle its file.
Abandon(m) ==
  /\ Goto(m, "idle")
  /\ agentOf' = [agentOf EXCEPT ![m] = NoAgent]
  /\ UNCHANGED <<phase, crashes, fileVars, producerVars, spawned, lockVars,
                 historyVars>>

\* The early returns of handle_file on an unreadable or incomplete file.
ReadFails(m) ==
  /\ pc[m] = "claimed"
  /\ body[m] = "partial" \/ IoFaults
  /\ Abandon(m)

Route(m, a) ==
  /\ pc[m] = "claimed"
  /\ body[m] = "complete"
  /\ Goto(m, "waiting")
  /\ agentOf' = [agentOf EXCEPT ![m] = a]
  /\ UNCHANGED <<phase, crashes, fileVars, producerVars, spawned, lockVars,
                 historyVars>>

\* Mutant: locks that are not keyed by the agent.
KeyedBySession(m) == \A a \in Agents : agentLock[a] # m

LockFree(m) == agentLock[agentOf[m]] = NoMsg

AcquireAgent(m) ==
  /\ pc[m] = "waiting"
  /\ LockFree(m)
  /\ agentLock' = [agentLock EXCEPT ![agentOf[m]] = m]
  /\ Goto(m, "locked")
  /\ UNCHANGED <<phase, crashes, fileVars, producerVars, spawned, agentOf,
                 permits, historyVars>>

PermitFree == permits > 0

AcquirePermit(m) ==
  /\ pc[m] = "locked"
  /\ PermitFree
  /\ permits' = permits - 1
  /\ Goto(m, "admitted")
  /\ UNCHANGED <<phase, crashes, fileVars, producerVars, spawned, agentOf,
                 agentLock, historyVars>>

\* Session bookkeeping, run_started, record_run_start, and the CLI starts.
StartRun(m) ==
  /\ pc[m] = "admitted"
  /\ Goto(m, "running")
  /\ attempts' = [attempts EXCEPT ![m] = @ + 1]
  /\ UNCHANGED <<phase, crashes, fileVars, producerVars, spawned, agentOf,
                 lockVars, replies>>

RunSucceeds(m) ==
  /\ pc[m] = "running"
  /\ Goto(m, "ran")
  /\ UNCHANGED <<phase, crashes, fileVars, producerVars, spawned, agentOf,
                 lockVars, historyVars>>

\* run_single_task returns an error, of record_run_start before the CLI starts or
\* of the run; the run_failed event follows under the lock and the permit.
RunFails(m) ==
  /\ pc[m] \in {"admitted", "running"}
  /\ Goto(m, "erred")
  /\ UNCHANGED <<phase, crashes, fileVars, producerVars, spawned, agentOf,
                 lockVars, historyVars>>

WriteOutgoing(m) ==
  /\ pc[m] = "ran"
  /\ Goto(m, "replied")
  /\ replies' = [replies EXCEPT ![m] = @ + 1]
  /\ UNCHANGED <<phase, crashes, fileVars, producerVars, spawned, agentOf,
                 lockVars, attempts>>

\* Both guards are dropped when process_claimed_file returns.
ReleaseGuards(m) ==
  /\ agentOf' = [agentOf EXCEPT ![m] = NoAgent]
  /\ agentLock' = [a \in Agents |-> IF agentLock[a] = m THEN NoMsg
                                                        ELSE agentLock[a]]
  /\ permits' = IF pc[m] \in HoldingPermit THEN permits + 1 ELSE permits

ReturnOk(m) ==
  /\ pc[m] = "replied"
  /\ Goto(m, "finishing")
  /\ ReleaseGuards(m)
  /\ UNCHANGED <<phase, crashes, fileVars, producerVars, spawned,
                 historyVars>>

\* Mutant: an error of the hooks or of the run is taken for success.
SwallowError(m) ==
  /\ \/ pc[m] = "claimed" /\ body[m] = "complete"
     \/ pc[m] \in HoldingPermit \ {"running"}
  /\ Goto(m, "finishing")
  /\ ReleaseGuards(m)
  /\ UNCHANGED <<phase, crashes, fileVars, producerVars, spawned,
                 historyVars>>

\* Hooks, routing and workspace setup; session and event records; posts,
\* handoffs and the reply; the run_succeeded record: each may fail.  The error
\* of a run is returned after run_failed.
ReturnErr(m) ==
  /\ \/ pc[m] = "claimed" /\ body[m] = "complete"
     \/ pc[m] \in HoldingPermit \ {"running"}
  /\ Goto(m, "failed")
  /\ ReleaseGuards(m)
  /\ UNCHANGED <<phase, crashes, fileVars, producerVars, spawned,
                 historyVars>>

RemoveFile(m) ==
  /\ pc[m] = "finishing"
  /\ loc' = [loc EXCEPT ![m] = "done"]
  /\ Goto(m, "idle")
  /\ UNCHANGED <<phase, crashes, body, name, due, retry, producerVars,
                 spawned, agentOf, lockVars, historyVars>>

-----------------------------------------------------------------------------
(* requeue_or_dead_letter.                                                 *)

Exhausted(m) == retry[m] + 1 > MaxRetries

Discard(m) ==
  /\ pc[m] = "failed"
  /\ loc' = [loc EXCEPT ![m] = "discarded"]
  /\ retry' = [retry EXCEPT ![m] = @ + 1]
  /\ Goto(m, "idle")
  /\ UNCHANGED <<phase, crashes, body, name, due, producerVars, spawned,
                 agentOf, lockVars, historyVars>>

\* fs::write truncates the processing file before it writes the new content.
RewriteOpen(m) ==
  /\ pc[m] = "failed"
  /\ body' = [body EXCEPT ![m] = "partial"]
  /\ Goto(m, "rewriting")
  /\ UNCHANGED <<phase, crashes, loc, name, due, retry, producerVars,
                 spawned, agentOf, lockVars, historyVars>>

\* A file that may not be tried again is removed or kept as a dead letter.
Dispose(m) ==
  IF Exhausted(m) /\ ~DeadLetterEnabled THEN Discard(m) ELSE RewriteOpen(m)

\* Mutant: the rewritten envelope keeps its old retry_count.
RewriteUncounted(m) ==
  /\ pc[m] = "rewriting"
  /\ body' = [body EXCEPT ![m] = "complete"]
  /\ Goto(m, "rewritten")
  /\ UNCHANGED <<phase, crashes, loc, name, due, retry, producerVars,
                 spawned, agentOf, lockVars, historyVars>>

RewriteClose(m) ==
  /\ pc[m] = "rewriting"
  /\ body' = [body EXCEPT ![m] = "complete"]
  /\ retry' = [retry EXCEPT ![m] = @ + 1]
  /\ Goto(m, "rewritten")
  /\ UNCHANGED <<phase, crashes, loc, name, due, producerVars, spawned,
                 agentOf, lockVars, historyVars>>

\* Mutant: the file goes back under the name it was claimed by.
RequeueSameName(m) ==
  /\ pc[m] = "rewritten"
  /\ retry[m] <= MaxRetries
  /\ loc' = [loc EXCEPT ![m] = "incoming"]
  /\ due' = [due EXCEPT ![m] = FALSE]
  /\ Goto(m, "idle")
  /\ UNCHANGED <<phase, crashes, body, name, retry, producerVars, spawned,
                 agentOf, lockVars, historyVars>>

Requeue(m) ==
  /\ pc[m] = "rewritten"
  /\ retry[m] <= MaxRetries
  /\ loc' = [loc EXCEPT ![m] = "incoming"]
  /\ name' = [name EXCEPT ![m] = @ + 1]
  /\ due' = [due EXCEPT ![m] = FALSE]
  /\ Goto(m, "idle")
  /\ UNCHANGED <<phase, crashes, body, retry, producerVars, spawned, agentOf,
                 lockVars, historyVars>>

DeadLetter(m) ==
  /\ pc[m] = "rewritten"
  /\ retry[m] > MaxRetries
  /\ loc' = [loc EXCEPT ![m] = "dead_letter"]
  /\ name' = [name EXCEPT ![m] = @ + 1]
  /\ Goto(m, "idle")
  /\ UNCHANGED <<phase, crashes, body, due, retry, producerVars, spawned,
                 agentOf, lockVars, historyVars>>

\* remove_file's error is ignored, an error of the rewrite or of the rename is
\* returned: either way the file stays in queue/processing without a task.
SettleFails(m) ==
  /\ IoFaults
  /\ pc[m] \in {"finishing", "failed", "rewriting", "rewritten"}
  /\ Abandon(m)

-----------------------------------------------------------------------------
(* The daemon stops and starts again.                                      *)

Crash ==
  /\ phase # "down"
  /\ crashes < MaxCrashes
  /\ phase' = "down"
  /\ crashes' = crashes + 1
  /\ spawned' = {}
  /\ pc' = [m \in Msgs |-> "idle"]
  /\ agentOf' = [m \in Msgs |-> NoAgent]
  /\ agentLock' = [a \in Agents |-> NoMsg]
  /\ permits' = MaxConcurrentRuns
  /\ UNCHANGED <<fileVars, producerVars, historyVars>>

Restart ==
  /\ phase = "down"
  /\ phase' = "recovering"
  /\ UNCHANGED <<crashes, fileVars, producerVars, spawned, taskVars, lockVars,
                 historyVars>>

\* Mutant: stale processing files are cleaned up instead of recovered.
CleanUp(m) ==
  /\ phase = "recovering"
  /\ loc[m] = "processing"
  /\ loc' = [loc EXCEPT ![m] = "done"]
  /\ UNCHANGED <<phase, crashes, body, name, due, retry, producerVars,
                 spawned, taskVars, lockVars, historyVars>>

\* One rename of recover_processing_files; the file keeps its name.
Recover(m) ==
  /\ phase = "recovering"
  /\ loc[m] = "processing"
  /\ loc' = [loc EXCEPT ![m] = "incoming"]
  /\ UNCHANGED <<phase, crashes, body, name, due, retry, producerVars,
                 spawned, taskVars, lockVars, historyVars>>

\* Mutant: the scan loop starts without the recovery.
SkipRecovery ==
  /\ phase = "recovering"
  /\ phase' = "scanning"
  /\ UNCHANGED <<crashes, fileVars, producerVars, spawned, taskVars, lockVars,
                 historyVars>>

StartScanning ==
  /\ phase = "recovering"
  /\ \A m \in Msgs : loc[m] # "processing"
  /\ phase' = "scanning"
  /\ UNCHANGED <<crashes, fileVars, producerVars, spawned, taskVars, lockVars,
                 historyVars>>

-----------------------------------------------------------------------------

Producer(m) == EnqueueOpen(m) \/ EnqueueClose(m) \/ ProducerDies(m)

ClaimStep(m) == \E n \in 0 .. name[m] : Claim(m, n) \/ ClaimMiss(m, n)

TaskStep(m) ==
  \/ ReadFails(m)
  \/ \E a \in Agents : Route(m, a)
  \/ AcquireAgent(m)
  \/ AcquirePermit(m)
  \/ StartRun(m)
  \/ RunSucceeds(m)
  \/ RunFails(m)
  \/ WriteOutgoing(m)
  \/ ReturnOk(m)
  \/ ReturnErr(m)
  \/ RemoveFile(m)

FailureStep(m) ==
  \/ Dispose(m)
  \/ RewriteClose(m)
  \/ Requeue(m)
  \/ DeadLetter(m)
  \/ SettleFails(m)

Daemon == Scan \/ Crash \/ Restart \/ StartScanning

Next ==
  \/ Daemon
  \/ \E m \in Msgs :
       \/ Producer(m)
       \/ Elapse(m)
       \/ ClaimStep(m)
       \/ TaskStep(m)
       \/ FailureStep(m)
       \/ Recover(m)

Spec == Init /\ [][Next]_vars

-----------------------------------------------------------------------------
(* Properties.                                                             *)

Holding(steps) == {m \in Msgs : pc[m] \in steps}

\* The per-agent lock serializes runs within the same agent: two tasks that
\* are past the lock never work for one agent (QueueProcessor.agent_locks).
AgentExclusive ==
  \A m1, m2 \in Holding(HoldingLock) :
    agentOf[m1] = agentOf[m2] => m1 = m2

\* No path through process_claimed_file leaks or doubles a permit: the
\* permits left and the tasks that hold one add up to max_concurrent_runs.
PermitsAccounted ==
  permits + Cardinality(Holding(HoldingPermit)) = MaxConcurrentRuns

\* An accepted message leaves the queue in one of three ways only: removed
\* after a reply was written, moved readable to dead_letter after more than
\* max_retries recorded failures, or dropped after as many when dead letters
\* are disabled.
SettledWithCause ==
  \A m \in accepted :
    /\ loc[m] # "unborn"
    /\ loc[m] = "done" => replies[m] > 0
    /\ loc[m] = "dead_letter" => /\ retry[m] > MaxRetries
                                 /\ body[m] = "complete"
    /\ loc[m] = "discarded" => retry[m] > MaxRetries /\ ~DeadLetterEnabled

\* How often the agent may be run for one message.  Within one life of the
\* daemon a second run needs a recorded failure, so at-least-once delivery
\* costs at most one extra run per crash, and max_retries bounds the rest.
AttemptBound ==
  \A m \in Msgs :
    /\ replies[m] <= attempts[m]
    /\ attempts[m] <= 1 + retry[m] + crashes
    /\ attempts[m] <= 1 + MaxRetries + crashes

\* The claim that starts a task is of a due file in incoming: a scan entry
\* that went stale while the file was processed and requeued must not
\* shortcut the backoff.
ClaimHonoursBackoff ==
  [][\A m \in Msgs :
       pc[m] = "idle" /\ pc'[m] # "idle" => loc[m] = "incoming" /\ due[m]]_vars

-----------------------------------------------------------------------------
(* The inductive invariant behind the safety properties.                   *)

\* Steps at which the envelope of the task has been parsed and is on disk.
Parsed == HoldingLock \cup {"waiting", "finishing", "failed", "rewritten"}

LockInv ==
  \A m \in Msgs :
    /\ pc[m] \in HoldingLock \cup {"waiting"} => agentOf[m] \in Agents
    /\ \A a \in Agents :
         agentLock[a] = m <=> pc[m] \in HoldingLock /\ agentOf[m] = a

TaskInv ==
  /\ spawned # {} => phase = "scanning"
  /\ \A m \in Msgs :
       pc[m] # "idle" => phase = "scanning" /\ loc[m] = "processing"

\* A path spawned under a file's current name is of a file that was due.
SpawnInv ==
  \A path \in spawned :
    LET m == path[1]
        n == path[2]
    IN  /\ loc[m] # "unborn"
        /\ n <= name[m]
        /\ n = name[m] /\ loc[m] = "incoming" => due[m]

FileInv ==
  \A m \in Msgs :
    /\ m \in writing => m \notin accepted /\ loc[m] # "unborn"
    /\ body[m] = "complete" => m \in accepted
    /\ m \notin accepted => retry[m] = 0 /\ replies[m] = 0
    /\ m \in accepted => loc[m] # "unborn"
    /\ pc[m] \in Parsed => body[m] = "complete"
    /\ pc[m] = "rewriting" \/ loc[m] \in Settled => m \in accepted
    /\ pc[m] \in {"replied", "finishing"} => replies[m] > 0
    /\ pc[m] = "rewriting" => ~Exhausted(m) \/ DeadLetterEnabled
    /\ pc[m] = "rewritten" => retry[m] <= MaxRetries \/ DeadLetterEnabled

\* A run that was started and neither recorded as a failure nor followed by a
\* restart, so that it is the one that 1 + ... allows for in AttemptBound.
Spent(m) ==
  \/ loc[m] \in Settled
  \/ /\ phase = "scanning" /\ loc[m] = "processing"
     /\ pc[m] \notin {"claimed", "waiting", "locked", "admitted"}

CountInv ==
  \A m \in Msgs :
    /\ replies[m] <= attempts[m]
    /\ pc[m] \in {"running", "ran"} => replies[m] < attempts[m]
    /\ ~Spent(m) \/ pc[m] = "rewritten" => attempts[m] <= retry[m] + crashes
    /\ ~Spent(m) => attempts[m] <= MaxRetries + crashes

IInv ==
  /\ TypeOK
  /\ LockInv
  /\ TaskInv
  /\ SpawnInv
  /\ FileInv
  /\ CountInv
  /\ PermitsAccounted
  /\ SettledWithCause
  /\ AttemptBound

-----------------------------------------------------------------------------
(* The promise to a producer, and how the files of the queue realize it.   *)

StatusOf(m) == IF m \notin accepted THEN "absent"
               ELSE IF loc[m] \in Settled THEN loc[m] ELSE "open"

Delivery == INSTANCE MessageDelivery WITH
  status <- [m \in Msgs |-> StatusOf(m)],
  failures <- retry,
  answers <- replies

\* The queue implements at-least-once delivery: no accepted message is lost,
\* settled without cause, or settled twice, whatever crashes and faults occur.
DeliversAtLeastOnce == Delivery!Spec

=============================================================================
