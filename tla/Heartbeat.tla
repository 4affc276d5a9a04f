------------------------------ MODULE Heartbeat ------------------------------
(***************************************************************************)
(* Heartbeats: the loop of the daemon (crates/runtime/src/heartbeat.rs)    *)
(* and HeartbeatService (crates/heartbeat/src/lib.rs).                     *)
(*                                                                         *)
(* The loop sleeps for a shortest interval, then runs the agents that are  *)
(* due one after the other.  POST /api/heartbeat/run starts a run of its   *)
(* own at any time and takes no lock.  What a run says beside HEARTBEAT_OK *)
(* goes to a person or a room, unless the agent's main session shows that  *)
(* its last output was the same, letter by letter, less than Window ago.   *)
(* Time passes in ticks of ten seconds or more, the shortest interval of   *)
(* the loop; the steps after the answer of a run take less than one.       *)
(***************************************************************************)
EXTENDS Integers, FiniteSets, FiniteSetsExt

CONSTANTS
  AllAgents, \* the configured agents
  Explicit,  \* agents with heartbeat settings of their own
  Own,       \* agents whose own settings name an interval
  LoopEvery, \* interval of the loop if no agent names one
  Texts,     \* what an agent may say beside HEARTBEAT_OK
  Acks,      \* ways to put HEARTBEAT_OK at the edges of a text
  Long,      \* texts longer than ack_max_chars
  Ok,        \* AckOnly or OkWithText
  Error,     \* no answer, or a store that cannot be read: the run fails
  None,
  Answers,   \* what each agent may answer
  Every,     \* ticks between the runs of an agent
  Window,    \* ticks of DEDUP_WINDOW_SECS
  Isolated,  \* agents with isolated_session
  Target,    \* of an agent: "none", "last", or "fixed" for a recipient or room
  Loop,      \* the loop's run
  Manual     \* runs requested through the server

\* An output: does HEARTBEAT_OK stand at its edges, and what else is there?
Replies == [ack : Acks \cup {None}, text : Texts \cup {None}]

\* resolve_heartbeat_agents.
Agents == IF Explicit = {} THEN AllAgents ELSE Explicit

ASSUME HeartbeatAssumption ==
  /\ AllAgents # {} /\ None \notin AllAgents
  /\ Own \subseteq Explicit /\ Explicit \subseteq AllAgents
  /\ LoopEvery \in Nat \ {0} /\ Long \subseteq Texts
  /\ Texts \cap {Ok, None} = {} /\ Ok # None /\ {None, Error} \cap Replies = {}
  /\ Answers \in [Agents -> SUBSET (Replies \cup {Error})]
  /\ Every \in [Agents -> Nat \ {0}] /\ Window \in Nat \ {0}
  /\ Isolated \subseteq Agents
  /\ Target \in [Agents -> {"none", "last", "fixed"}]
  /\ Loop \notin Manual

VARIABLES
  enabled,  \* HeartbeatLoopSettings.enabled in the watch channel
  changed,  \* has the receiver a change it has not seen?
  at,       \* where run_loop stands
  sleep,    \* ticks left of its sleep
  dueNow,     \* due agents that the cycle has not run yet
  due,      \* ticks until next_due of an agent
  job,      \* each run: its agent, its step, its output, and whether to tell it
  main,     \* main session of an agent: is there one, does it have a channel,
            \* the output of its last heartbeat, and its age
  heard,    \* history: age of the last alert told within the window, and the
            \* latest output that says the same, if nothing else was said since
  excused,  \* history: may the agent repeat itself?
  since     \* history: ticks since the last scheduled run of an agent

beatVars ==
  <<enabled, changed, at, sleep, dueNow, due, job, main, heard, excused, since>>
loopVars == <<enabled, changed, at, sleep, dueNow>>
mainVars == <<main, heard, excused>>

Runs == {Loop} \cup Manual
Idle == [agent |-> None, step |-> "idle", output |-> None, tell |-> FALSE]
NoSession == [open |-> FALSE, channel |-> FALSE, last |-> None, age |-> 0]
Unheard == [output |-> None, age |-> 0]

\* resolve_tick_interval: agents that take theirs from the defaults do not count.
Interval == IF Own = {} THEN LoopEvery ELSE Min({Every[a] : a \in Own})

HeartbeatTypeOK ==
  /\ enabled \in BOOLEAN /\ changed \in BOOLEAN
  /\ at \in {"top", "off", "sleeping", "cycle"}
  /\ sleep \in 0..Interval /\ dueNow \subseteq Agents
  /\ due \in [Agents -> Nat] /\ since \in [Agents -> Nat]
  /\ \A a \in Agents : due[a] <= Every[a] /\ since[a] <= Every[a]
  /\ job \in [Runs -> [agent : Agents \cup {None},
                       step : {"idle", "running", "decided", "told"},
                       output : Replies \cup {None}, tell : BOOLEAN]]
  /\ main \in [Agents -> [open : BOOLEAN, channel : BOOLEAN,
                          last : Replies \cup {None}, age : 0..Window]]
  /\ heard \in [Agents -> [output : Replies \cup {None}, age : 0..(Window - 1)]]
  /\ excused \in [Agents -> BOOLEAN]

HeartbeatInit ==
  /\ enabled \in BOOLEAN /\ changed = FALSE
  /\ at = "top" /\ sleep = 0 /\ dueNow = {}
  /\ due = [a \in Agents |-> 0]
  /\ job = [p \in Runs |-> Idle]
  /\ main = [a \in Agents |-> NoSession]
  /\ heard = [a \in Agents |-> Unheard]
  /\ excused = [a \in Agents |-> FALSE]
  /\ since = Every

-----------------------------------------------------------------------------
(* The loop.                                                               *)

\* update_settings sends new settings.
Change ==
  /\ enabled' \in BOOLEAN
  /\ changed' = TRUE
  /\ UNCHANGED <<at, sleep, dueNow, due, job, mainVars, since>>

\* borrow_and_update, then wait for a change or for the sleep to end.
Top ==
  /\ at = "top"
  /\ changed' = FALSE
  /\ at' = IF enabled THEN "sleeping" ELSE "off"
  /\ sleep' = IF enabled THEN Interval ELSE 0
  /\ UNCHANGED <<enabled, dueNow, due, job, mainVars, since>>

Wake ==
  /\ at \in {"off", "sleeping"} /\ changed
  /\ at' = "top" /\ sleep' = 0
  /\ UNCHANGED <<enabled, changed, dueNow, due, job, mainVars, since>>

\* run_scheduled_cycle: an agent that gets due during the cycle has to wait.
Cycle ==
  /\ at = "sleeping" /\ sleep = 0
  /\ at' = "cycle"
  /\ dueNow' = {a \in Agents : due[a] = 0}
  /\ UNCHANGED <<enabled, changed, sleep, due, job, mainVars, since>>

\* Mutant: the loop sleeps on with the settings it has, and takes what was
\* saved during the cycle for seen.
SleepOn ==
  /\ at = "cycle" /\ dueNow = {} /\ job[Loop] = Idle
  /\ at' = "sleeping" /\ sleep' = Interval /\ changed' = FALSE
  /\ UNCHANGED <<enabled, dueNow, due, job, mainVars, since>>

CycleEnds ==
  /\ at = "cycle" /\ dueNow = {} /\ job[Loop] = Idle
  /\ at' = "top"
  /\ UNCHANGED <<enabled, changed, sleep, dueNow, due, job, mainVars, since>>

-----------------------------------------------------------------------------
(* A run.                                                                  *)

\* Mutant: a run that failed does not move the schedule.
AdvanceIfRan(p, a, answer) ==
  IF p = Loop /\ answer # Error
  THEN /\ due' = [due EXCEPT ![a] = Every[a]]
       /\ since' = [since EXCEPT ![a] = 0]
       /\ dueNow' = dueNow \ {a}
  ELSE IF p = Loop
  THEN /\ since' = [since EXCEPT ![a] = 0]
       /\ dueNow' = dueNow \ {a}
       /\ UNCHANGED due
  ELSE UNCHANGED <<due, since, dueNow>>

\* Mutant: a run that failed ends the cycle.
StopAtError(p, a, answer) ==
  IF p = Loop
  THEN /\ due' = [due EXCEPT ![a] = Every[a]]
       /\ since' = [since EXCEPT ![a] = 0]
       /\ dueNow' = IF answer = Error THEN {} ELSE dueNow \ {a}
  ELSE UNCHANGED <<due, since, dueNow>>

\* The cycle goes on with the next agent and plans the next run of this one,
\* however it ended.
Advance(p, a, answer) ==
  IF p = Loop
  THEN /\ due' = [due EXCEPT ![a] = Every[a]]
       /\ since' = [since EXCEPT ![a] = 0]
       /\ dueNow' = dueNow \ {a}
  ELSE UNCHANGED <<due, since, dueNow>>

\* run_once up to the runner: a session of its own or the main one is touched.
Begin(p, a) ==
  /\ job[p] = Idle
  /\ p = Loop => at = "cycle" /\ a \in dueNow
  /\ job' = [job EXCEPT ![p] = [Idle EXCEPT !.agent = a, !.step = "running"]]
  /\ main' = IF a \in Isolated THEN main ELSE [main EXCEPT ![a].open = TRUE]
  /\ excused' = [excused EXCEPT ![a] = @ \/ \E q \in Runs : job[q].agent = a]
  /\ UNCHANGED <<loopVars, due, heard, since>>

\* Quiet hours, nothing to do, or an error before the runner is asked.
Skip(a) ==
  /\ job[Loop] = Idle /\ at = "cycle" /\ a \in dueNow
  /\ Advance(Loop, a, Ok)
  /\ UNCHANGED <<enabled, changed, at, sleep, job, mainVars>>

\* resolve_delivery_target.
HasTarget(a) ==
  \/ Target[a] = "fixed"
  \/ Target[a] = "last" /\ main[a].open /\ main[a].channel

\* Mutant: the session of the run is looked at, not the main one.
OwnSession(a, output) ==
  a \notin Isolated /\ main[a].open /\ main[a].last = output /\ main[a].age < Window

\* is_duplicate_heartbeat, with the output as the agent wrote it.
IsDuplicate(a, output) ==
  main[a].open /\ main[a].last = output /\ main[a].age < Window

\* normalize_heartbeat_output: what is said beside HEARTBEAT_OK counts only if it
\* is long; HEARTBEAT_OK in the middle is text like any other.
Normalized(output) ==
  IF output.text = None \/ (output.ack # None /\ output.text \notin Long)
  THEN Ok ELSE output.text

\* The runner answers; the main session is read and decides what is told.
Decide(p) ==
  LET a == job[p].agent IN
  /\ job[p].step = "running"
  /\ \E output \in Answers[a] \ {Error} :
       job' = [job EXCEPT
         ![p].step = "decided", ![p].output = output,
         ![p].tell = /\ Normalized(output) \in Texts
                     /\ ~IsDuplicate(a, output) /\ HasTarget(a)]
  /\ UNCHANGED <<loopVars, due, mainVars, since>>

RunFails(p) ==
  LET a == job[p].agent IN
  /\ job[p].step = "running" /\ Error \in Answers[a]
  /\ job' = [job EXCEPT ![p] = Idle]
  /\ Advance(p, a, Error)
  /\ UNCHANGED <<enabled, changed, at, sleep, mainVars>>

\* The text goes to queue/outgoing or to the room, if it is to be told.
Tell(p) ==
  /\ job[p].step = "decided"
  /\ job' = [job EXCEPT ![p].step = "told"]
  /\ heard' = IF ~job[p].tell THEN heard
              ELSE [heard EXCEPT ![job[p].agent] =
                      [output |-> job[p].output, age |-> 0]]
  /\ UNCHANGED <<loopVars, due, main, excused, since>>

\* It gets nowhere, which is logged: the run goes on as if it had.
DeliveryFails(p) ==
  /\ job[p].step = "decided" /\ job[p].tell
  /\ job' = [job EXCEPT ![p].step = "told"]
  /\ UNCHANGED <<loopVars, due, mainVars, since>>

Alone(p) == \A q \in Runs \ {p} : job[q].agent # job[p].agent

\* Do two outputs say the same text?
Alike(x, y) == None \notin {x, y} /\ Normalized(x) = Normalized(y)

\* The run is over, and recorded; another text ends what was heard last.
Conclude(p) ==
  LET a == job[p].agent
      output == job[p].output
  IN
  /\ job[p].step = "told"
  /\ job' = [job EXCEPT ![p] = Idle]
  /\ heard' = [heard EXCEPT ![a] = IF Alike(@.output, output)
                                   THEN [@ EXCEPT !.output = output] ELSE Unheard]
  /\ Advance(p, a, output)
  /\ UNCHANGED <<enabled, changed, at, sleep>>

\* update_session_heartbeat, which does nothing without a main session.
Update(p) ==
  LET a == job[p].agent IN
  /\ Conclude(p)
  /\ main' = IF main[a].open
             THEN [main EXCEPT ![a].last = job[p].output, ![a].age = 0] ELSE main
  /\ excused' = [excused EXCEPT ![a] = ~(main[a].open /\ Alone(p))]

\* The store fails, which is logged: the session keeps the output it had.
UpdateFails(p) ==
  /\ Conclude(p)
  /\ excused' = [excused EXCEPT ![job[p].agent] = TRUE]
  /\ UNCHANGED main

-----------------------------------------------------------------------------
(* The rest of the system.                                                 *)

\* A person's message opens the main session and leaves its channel there.
Message(a) ==
  /\ main' = [main EXCEPT ![a].open = TRUE, ![a].channel = TRUE]
  /\ UNCHANGED <<loopVars, due, job, heard, excused, since>>

\* clear_agent_sessions.
Reset(a) ==
  /\ main' = [main EXCEPT ![a] = NoSession]
  /\ excused' = [excused EXCEPT ![a] = TRUE]
  /\ UNCHANGED <<loopVars, due, job, heard, since>>

Older(age) == IF age < Window THEN age + 1 ELSE age
Sooner(n) == IF n > 0 THEN n - 1 ELSE 0

\* Nobody asks how old an output is that holds no alert.
Compared(a) == main[a].last # None /\ Normalized(main[a].last) # Ok

Tick ==
  /\ \A p \in Runs : job[p].step \in {"idle", "running"}
  /\ sleep' = Sooner(sleep)
  /\ due' = [a \in Agents |-> Sooner(due[a])]
  /\ since' = [a \in Agents |->
                 IF since[a] < Every[a] THEN since[a] + 1 ELSE since[a]]
  /\ main' = [a \in Agents |->
                IF Compared(a) THEN [main[a] EXCEPT !.age = Older(@)] ELSE main[a]]
  /\ heard' = [a \in Agents |->
                 IF heard[a].output = None \/ heard[a].age + 1 = Window THEN Unheard
                 ELSE [heard[a] EXCEPT !.age = @ + 1]]
  /\ UNCHANGED <<enabled, changed, at, dueNow, job, excused>>

LoopStep == Top \/ Wake \/ Cycle \/ CycleEnds
RunStep(p) ==
  Decide(p) \/ RunFails(p) \/ Tell(p) \/ DeliveryFails(p) \/ Update(p) \/ UpdateFails(p)
CycleStep == \E a \in Agents : Begin(Loop, a) \/ Skip(a)

HeartbeatNext ==
  \/ Change \/ LoopStep \/ CycleStep
  \/ \E p \in Manual, a \in Agents : Begin(p, a)
  \/ \E p \in Runs : RunStep(p)
  \/ \E a \in Agents : Message(a) \/ Reset(a)
  \/ Tick

HeartbeatSpec == HeartbeatInit /\ [][HeartbeatNext]_beatVars

\* Tokio polls the loop and the runs, the runner has a timeout, time passes.
Fairness ==
  /\ WF_beatVars(Top) /\ WF_beatVars(Wake)
  /\ WF_beatVars(Cycle) /\ WF_beatVars(CycleEnds)
  /\ WF_beatVars(CycleStep)
  /\ \A p \in Runs : WF_beatVars(RunStep(p))
  /\ SF_beatVars(Tick)

FairHeartbeatSpec == HeartbeatSpec /\ Fairness

-----------------------------------------------------------------------------
(* Properties.                                                             *)

\* Nobody is told the same alert twice within the window if the agent said
\* nothing else in between, unless its output is written differently, as with
\* HEARTBEAT_OK before the text, runs of the agent overlapped, the first one
\* could not be recorded for lack of a main session or by a failing store, or
\* the sessions of the agent were reset.
RepeatsHaveCause ==
  [][\A p \in Runs :
       job[p].step = "decided" /\ job'[p].step = "told" /\ job[p].tell =>
         LET a == job[p].agent IN
         Alike(heard[a].output, job[p].output) =>
           heard[a].output # job[p].output \/ excused[a]
     ]_beatVars

\* Scheduled runs of an agent are at least its interval apart, whatever fails
\* and however long the other agents take: no tight retry loop.
ScheduledRunsSpaced ==
  [][\A a \in Agents :
       job[Loop].agent # a /\ job'[Loop].agent = a => since[a] = Every[a]
     ]_beatVars

\* Once the settings stay enabled and are not saved any more, the loop gets to
\* every agent again and again, however the runs of the others end.
EveryAgentBeats ==
  <>[](enabled /\ ~changed) => \A a \in Agents : []<>(since[a] = 0)

\* Once the settings stay disabled the loop stops, whatever it was doing when
\* they were saved.
LoopStops == <>[](~enabled) => <>[](at \in {"off", "top"})

-----------------------------------------------------------------------------
(* The inductive invariant.                                                *)

\* A run that is under way has an agent and a step.
JobInv == \A p \in Runs :
  job[p] = Idle \/ (job[p].agent \in Agents /\ job[p].step # "idle")

\* Agents the cycle still has to run stay due, and the schedule knows how long
\* ago their last scheduled run was.
DueInv == \A a \in Agents :
  /\ due[a] + since[a] = Every[a]
  /\ a \in dueNow => due[a] = 0

\* An agent without an excuse has at most one run.
AloneInv == \A a \in Agents, p, q \in Runs :
  ~excused[a] /\ job[p].agent = a /\ job[q].agent = a => p = q

\* A run of the agent has told its output but not recorded it yet.
Telling(a) == \E p \in Runs : job[p].agent = a /\ job[p].step = "told"

\* Otherwise its main session knows what was heard last.
KnownInv == \A a \in Agents :
  ~excused[a] /\ heard[a].output # None /\ ~Telling(a) =>
    main[a].open /\ main[a].last = heard[a].output /\ main[a].age <= heard[a].age

\* What it is about to tell was not heard in these words.
DecidedInv == \A p \in Runs :
  job[p].step = "decided" /\ job[p].tell =>
    excused[job[p].agent] \/ heard[job[p].agent].output # job[p].output

HeartbeatInv ==
  HeartbeatTypeOK /\ JobInv /\ DueInv /\ AloneInv /\ KnownInv /\ DecidedInv
=============================================================================
