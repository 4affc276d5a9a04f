--------------------------- MODULE MCTaskPipeline ---------------------------
(* An instance of TaskPipeline for TLC: the payload of m2 blocks a command  *)
(* that streams; that of every other caller fits a pipe, where a command    *)
(* that streams does what one that filters does.                            *)
(*                                                                          *)
(* The behaviours start in states that PipelineSpec reaches, late enough to *)
(* be interesting: after a restart, with m2 alone and another crash to come *)
(* or with m1 and m2 before their last attempts and a browser profile; or   *)
(* when a plugin command of m3 hangs, and m1 and m2, before their last      *)
(* attempts, compete for the other permit.  What producers do meanwhile is  *)
(* the subject of the run queue_safety.                                     *)
EXTENDS TaskPipeline

CONSTANTS m1, m2, m3, a1

MCSize == [c \in HookCallers |-> IF c = m2 THEN 3 ELSE 1]

MCInstallations == {{"plugins"}, {"profile"}, {"hangingCli"}}

All(value) == [m \in Msgs |-> value]

\* The files: dead letters of an earlier life, those before their last attempt,
\* and new ones.
Files(settled, tried) ==
  /\ loc = [m \in Msgs |-> IF m \in settled THEN "dead_letter"
                           ELSE IF pc[m] = "idle" THEN "incoming"
                                                  ELSE "processing"]
  /\ retry = [m \in Msgs |-> IF m \in settled THEN MaxRetries + 1
                             ELSE IF m \in tried THEN MaxRetries ELSE 0]
  /\ name = retry /\ attempts = retry /\ replies = All(0)
  /\ body = All("complete") /\ due = [m \in Msgs |-> m # m2]
  /\ writing = {} /\ accepted = Msgs /\ spawned = {}

RestartInit ==
  /\ phase = "recovering"
  /\ pc = All("idle") /\ agentOf = All(NoAgent)
  /\ agentLock = [a \in Agents |-> NoMsg] /\ permits = MaxConcurrentRuns
  /\ OthersInit
  /\ \/ crashes = MaxCrashes - 1 /\ Files({m1, m3}, {})
     \/ /\ crashes = MaxCrashes /\ Files({m3}, {m1, m2})
        /\ "profile" \in installed

HangingInit ==
  /\ phase = "scanning" /\ crashes = MaxCrashes
  /\ pc = [All("idle") EXCEPT ![m3] = "admitted"]
  /\ Files({}, {m1, m2})
  /\ permits = MaxConcurrentRuns - 1
  /\ agentOf = [All(NoAgent) EXCEPT ![m3] = a1]
  /\ agentLock = [a \in Agents |-> IF a = a1 THEN m3 ELSE NoMsg]
  /\ installed = {"plugins"} /\ hung = {}
  /\ call = [c \in HookCallers |-> IF c = m3 THEN Hooks!Started("hangs")
                                             ELSE NoCall]
  /\ Browser!BrowserInit

MCSpec ==
  /\ RestartInit \/ HangingInit
  /\ [][PipelineNext]_pipelineVars /\ PipelineFairness
=============================================================================
