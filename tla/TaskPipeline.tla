---------------------------- MODULE TaskPipeline ----------------------------
(***************************************************************************)
(* The daemon with the three parts that can hold it up for good: plugin    *)
(* commands, the browser of the agent's profile, and the CLI.              *)
(*                                                                         *)
(* crates/queue/src/lib.rs waits for plugin commands at these places:      *)
(*   - run_forever: the event processor_start, before the recovery;        *)
(*   - process_claimed_file: incoming hooks before it routes; and, with    *)
(*     its agent's lock and a permit, the event run_started, those of a    *)
(*     run that ended (heartbeat_run_*, chatroom_message_posted,           *)
(*     chain_handoff, run_succeeded; or run_failed) and outgoing hooks;    *)
(*   - requeue_or_dead_letter: run_requeued and run_dead_letter, when the  *)
(*     file has its new place: the task that moved it lingers in the       *)
(*     JoinSet while another may claim the file.                           *)
(* The runner ensures the browser before it starts the CLI, so neither is  *)
(* under the run's timeout; and that timeout does not end the run of a CLI *)
(* that stays alive (TimeoutEndsRun of RunExecution).                      *)
(***************************************************************************)
EXTENDS QueueProcessor

CONSTANTS
  Processor,   \* run_forever itself, as a caller of plugin commands
  Behaviours,  \* how installed plugin commands behave
  Size,        \* the size of a caller's hook payload, in pipe buffers
  NoCall,      \* the value of a caller without a plugin command
  MaxChromes,  \* bound: Chrome processes alive at once
  Installations  \* what may be installed: sets of "plugins", "profile" and
                 \* "hangingCli"

\* The task that gave a file its n-th new name and now tells the plugins.
Notices == Msgs \X (1 .. MaxRetries + 1)
HookCallers == Msgs \cup Notices \cup {Processor}

ASSUME PipelineAssumption ==
  /\ Processor \notin Msgs \cup Notices
  /\ \A m \in Msgs : m \notin Msgs \X Nat
  /\ Behaviours \subseteq {"filters", "streams", "deaf", "hangs"}
  /\ NoCall \notin [behaviour : Behaviours, stage : {"feeding", "collecting"}]
  /\ Size \in [HookCallers -> Nat]
  /\ Installations \subseteq SUBSET {"plugins", "profile", "hangingCli"}
  /\ MaxChromes \in Nat

VARIABLES
  installed,  \* are there plugins, has the default agent a profile, and may a
              \* CLI hang?
  hung,       \* tasks whose CLI will not end
  call, port, chromes, portLock, ensure, givenUp

Hooks == INSTANCE PluginHooks WITH Callers <- HookCallers
Browser == INSTANCE BrowserProfile WITH Callers <- Msgs, NoCaller <- NoMsg

browserVars == <<port, chromes, portLock, ensure, givenUp>>
otherVars == <<installed, hung, call, browserVars>>
pipelineVars == <<vars, otherVars>>

PipelineTypeOK ==
  /\ TypeOK
  /\ installed \in Installations
  /\ hung \subseteq Msgs
  /\ Hooks!HookTypeOK
  /\ Browser!BrowserTypeOK

-----------------------------------------------------------------------------
(* Events that a caller without a claimed file tells the plugins.          *)

\* A daemon that starts begins with processor_start, if a plugin listens.
OthersInit ==
  /\ installed \in Installations
  /\ hung = {}
  /\ \E first \in {NoCall} \cup (IF "plugins" \in installed
                                THEN {Hooks!Started(b) : b \in Behaviours}
                                ELSE {}) :
       call = [c \in HookCallers |-> IF c = Processor THEN first ELSE NoCall]
  /\ Browser!BrowserInit

PipelineInit == Init /\ OthersInit

\* dispatch_event, if a plugin listens to events.
Announce(c) ==
  /\ UNCHANGED call \/ ("plugins" \in installed /\ Hooks!Spawn(c))
  /\ UNCHANGED <<installed, hung, browserVars>>

\* emit_event waits for the command and ignores what came of it.
EventHook(c) ==
  /\ Hooks!Feed(c) \/ Hooks!Returns(c)
  /\ UNCHANGED <<vars, installed, hung, browserVars>>

RestartDaemon == Restart /\ Announce(Processor)

Announced == call[Processor] = NoCall

RecoverAll ==
  /\ Announced
  /\ StartScanning \/ (\E m \in Msgs : Recover(m))
  /\ UNCHANGED otherVars

Telling == {c \in Notices : call[c] # NoCall}

\* Tasks that still tell the plugins of a requeue count in the JoinSet.
ScanPipeline ==
  /\ Cardinality(Telling) + LiveTasks <= JoinCap
  /\ Scan
  /\ UNCHANGED otherVars

SettleFile(m) ==
  \/ /\ Dispose(m) \/ RewriteClose(m) \/ SettleFails(m)
     /\ UNCHANGED otherVars
  \/ /\ Requeue(m) \/ DeadLetter(m)
     /\ Announce(<<m, name[m] + 1>>)

-----------------------------------------------------------------------------
(* The task of a claimed file.                                             *)

\* Where process_claimed_file may run plugin commands.
AtHook(m) ==
  /\ pc[m] \in {"claimed", "admitted", "erred", "ran", "replied"}
  /\ body[m] = "complete"

RunHook(m) ==
  /\ "plugins" \in installed
  /\ AtHook(m)
  /\ Hooks!Spawn(m) \/ Hooks!Feed(m)
  /\ UNCHANGED <<vars, installed, hung, browserVars>>

\* The runner is entered as the run starts; without a profile there is no CDP
\* port in the run's metadata and nothing to ensure.
StartRunner(m) ==
  /\ Hooks!After(m)
  /\ StartRun(m)
  /\ IF "profile" \in installed THEN Browser!Enter(m) ELSE Browser!Skip(m)
  /\ UNCHANGED <<installed, hung>>

EnsureBrowser(m) ==
  /\ pc[m] = "running"
  /\ Browser!LockPort(m) \/ Browser!Ready(m) \/ Browser!Launch(m)
  /\ UNCHANGED <<vars, installed, hung, call>>

\* The CLI ends no more, so its output does not: run_single_task waits for the
\* reader of it whether the timeout has fired or not.
CliHangs(m) ==
  /\ "hangingCli" \in installed
  /\ pc[m] = "running" /\ ensure[m] = "open"
  /\ hung' = hung \cup {m}
  /\ UNCHANGED <<vars, installed, call, browserVars>>

RunnerReturns(m) ==
  /\ m \notin hung
  /\ \/ RunSucceeds(m) /\ Browser!Leave(m)
     \/ pc[m] = "running" /\ RunFails(m) /\ Browser!Fails(m)
  /\ UNCHANGED <<installed, hung, call>>

\* The steps that a hook precedes, and those that have neither part.
Hooked(m) ==
  /\ Hooks!After(m)
  /\ \/ \E a \in Agents : Route(m, a)
     \/ WriteOutgoing(m)
     \/ ReturnOk(m)
     \/ ReturnErr(m)
     \/ pc[m] = "admitted" /\ RunFails(m)
  /\ UNCHANGED <<installed, hung, browserVars>>

Plain(m) ==
  /\ call[m] = NoCall
  /\ ReadFails(m) \/ AcquireAgent(m) \/ AcquirePermit(m) \/ RemoveFile(m)
  /\ UNCHANGED otherVars

PipelineStep(m) ==
  \/ RunHook(m)
  \/ StartRunner(m)
  \/ EnsureBrowser(m)
  \/ RunnerReturns(m)
  \/ Hooked(m)
  \/ Plain(m)

Outside ==
  /\ "profile" \in installed
  /\ Browser!Outside
  /\ UNCHANGED <<vars, installed, hung, call>>

CrashPipeline ==
  /\ Crash
  /\ Hooks!HooksGone
  /\ Browser!BrowserOutlivesDaemon
  /\ hung' = {}
  /\ UNCHANGED installed

\* The steps of the queue that involve neither hooks nor the browser.
QueueStep ==
  /\ \E m \in Msgs : Producer(m) \/ Elapse(m) \/ ClaimStep(m)
  /\ UNCHANGED otherVars

PipelineNext ==
  \/ QueueStep
  \/ CrashPipeline
  \/ RestartDaemon
  \/ RecoverAll
  \/ ScanPipeline
  \/ Outside
  \/ \E c \in Notices \cup {Processor} : EventHook(c)
  \/ \E m \in Msgs : PipelineStep(m) \/ CliHangs(m) \/ SettleFile(m)

(***************************************************************************)
(* The Tokio runtime polls every spawned task and the scan loop, and its   *)
(* Mutex and Semaphore serve waiters first come first served; weak         *)
(* fairness is enough here because finitely many tasks compete.  The clock *)
(* advances, a CLI that does not hang ends, and a supervisor restarts a    *)
(* daemon that stopped.  A plugin command that neither hangs nor waits for *)
(* a pipe goes on, and so does an ensure: its polls and its deadline are   *)
(* timers.                                                                 *)
(* Producers, crashes and the programs at the port owe nothing: Chrome may *)
(* never come up.                                                          *)
(***************************************************************************)
PipelineFairness ==
  /\ WF_pipelineVars(ScanPipeline)
  /\ WF_pipelineVars(RestartDaemon)
  /\ WF_pipelineVars(RecoverAll)
  /\ \A c \in Notices \cup {Processor} : WF_pipelineVars(EventHook(c))
  /\ \A m \in Msgs :
       /\ WF_pipelineVars(Elapse(m) /\ UNCHANGED otherVars)
       /\ WF_pipelineVars(ClaimStep(m) /\ UNCHANGED otherVars)
       /\ WF_pipelineVars(SettleFile(m))
       /\ WF_pipelineVars(PipelineStep(m))

PipelineSpec == PipelineInit /\ [][PipelineNext]_pipelineVars
FairPipelineSpec == PipelineSpec /\ PipelineFairness

-----------------------------------------------------------------------------
(* Properties.                                                             *)

\* A file that handle_file gave up without requeueing it.
Stranded(m) ==
  phase = "scanning" /\ loc[m] = "processing" /\ pc[m] = "idle"

\* A task that will not move again unless the daemon is restarted.
Stuck(m) ==
  Hooks!Wedged(m) \/ (pc[m] = "running" /\ (Browser!Hanging(m) \/ m \in hung))

\* What a stuck task takes with it: the tasks that wait for its port lock, for
\* a permit when such tasks hold them all, and for the lock of its agent.
Halted(m) ==
  \/ Stuck(m)
  \/ /\ pc[m] = "running" /\ ensure[m] = "locking"
     /\ portLock # NoMsg /\ Stuck(portLock)

WithoutPermit(m) ==
  /\ pc[m] = "locked"
  /\ permits = 0 /\ \A x \in Holding(HoldingPermit) : Halted(x)

WithoutAgent(m) ==
  /\ pc[m] = "waiting"
  /\ ~LockFree(m)
  /\ LET holder == agentLock[agentOf[m]]
     IN  Halted(holder) \/ WithoutPermit(holder)

TaskHeldUp(m) == Halted(m) \/ WithoutPermit(m) \/ WithoutAgent(m)

\* No scan will find the file: the daemon still waits for the plugins of
\* processor_start, or tasks that are held up fill the JoinSet.
ScanHeldUp(m) ==
  /\ loc[m] \in {"incoming", "processing"} /\ pc[m] = "idle"
  /\ \A n \in 0 .. name[m] : <<m, n>> \notin spawned
  /\ \/ phase = "recovering" /\ Hooks!Wedged(Processor)
     \/ Cardinality({c \in Notices : Hooks!Wedged(c)}
                      \cup {x \in Msgs : TaskHeldUp(x)}) > JoinCap

HeldUp(m) == TaskHeldUp(m) \/ ScanHeldUp(m)

\* A whole file in incoming is eventually settled unless a plugin command, a
\* browser or a CLI that hangs holds it up; the damage of such a hang is
\* confined to the files that HeldUp names: those that wait for what the hanging
\* task holds, and all files only if the plugins of processor_start hang or
\* more than four times max_concurrent_runs tasks do.  (The other exception is
\* that of the queue alone: a crash in the middle of the in-place rewrite.)
FilesSettleOrAreHeldUp ==
  \A m \in Msgs :
    loc[m] = "incoming" /\ body[m] = "complete"
      ~> \/ loc[m] \in Settled
         \/ Stranded(m) /\ body[m] = "partial"
         \/ HeldUp(m)

\* No timeout, no other task and no operator command ends a hook command that
\* hangs: until the daemon stops, the task keeps its step and its file, and past
\* the routing the lock of its agent.
HangsOutlastAll ==
  [][\A m \in Msgs :
       Hooks!Wedged(m) /\ phase' # "down" =>
         /\ Hooks!Wedged(m)'
         /\ pc'[m] = pc[m] /\ loc'[m] = loc[m]
         /\ pc[m] # "claimed" => agentLock'[agentOf[m]] = m]_pipelineVars

\* Two browsers never run on one profile directory unless an earlier launch was
\* given up before it answered, by the 12-second deadline or a restart: the
\* lock makes the probe and the launch one step for the port.
TwinsHaveCause == chromes > 1 => givenUp
=============================================================================
