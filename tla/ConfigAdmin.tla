----------------------------- MODULE ConfigAdmin -----------------------------
(***************************************************************************)
(* The configuration of a running ClawPod and everybody who edits it:      *)
(* requests to the server (crates/server/src/lib.rs), settings pages of    *)
(* the Office (office.html), and commands of the CLI                       *)
(* (crates/runtime/src/main.rs).                                           *)
(*                                                                         *)
(* The server keeps a copy in an RwLock and never reads the file again; a  *)
(* command loads the file; both write it with fs::write, which truncates   *)
(* it and then writes.  Nothing is locked from reading to writing.  A      *)
(* configuration has one team id; an edit is also recorded by a number, so *)
(* that a copy tells which edits it contains.                              *)
(***************************************************************************)
EXTENDS Integers, SequencesExt

CONSTANTS
  Agents,       \* agent ids
  Default,      \* the agent of RuntimeConfig::default()
  Requests,     \* requests the server may handle at a time
  Commands,     \* commands that may run at a time
  None,
  Installed,    \* the configuration the file starts with
  MaxBindings,  \* bound: binding rules
  MaxEdits,     \* bound: edits
  MaxFaults     \* bound: crashes and failed writes

VARIABLES
  file,    \* the configuration in the file, if it is whole
  state,   \* of the file: "whole", "empty" once truncated, or "mixed" after
           \* two writers wrote one text over the other
  memory,  \* AppState.config
  loop,    \* HeartbeatLoopControl: is the heartbeat loop enabled?
  up,      \* does the daemon run?
  pc,      \* where each request or command stands
  copy,    \* the configuration it has in its hands
  edit,    \* the number of its edit, 0 before
  page,    \* requests that belong to a settings page
  edits,   \* number of edits made
  acked,   \* history: edits that were reported as done
  ahead,   \* has a command written the file since the server last did?
  cause,   \* history: what disturbed the editors
  faults   \* history: crashes and failed writes

vars == <<file, state, memory, loop, up, pc, copy, edit, page, edits, acked, ahead,
          cause, faults>>
editors == <<pc, copy, edit, page>>

Editors == Requests \cup Commands
Team == [members : (SUBSET Agents) \ {{}}, leader : Agents]
Config == [agents   : (SUBSET Agents) \ {{}},
           team     : Team \cup {None},
           autojoin : BOOLEAN,                 \* default_team names the team
           bindings : BoundedSeq(Agents, MaxBindings),
           beats    : BOOLEAN,                 \* heartbeat.enabled
           token    : {"set", "masked", "unset"},   \* a secret
           holds    : SUBSET (1..MaxEdits)]    \* history: edits it contains

ASSUME ConfigAssumption ==
  /\ Default \in Agents /\ None \notin Team
  /\ Requests \cap Commands = {}
  /\ {MaxBindings, MaxEdits, MaxFaults} \subseteq Nat
  /\ Installed \in Config

\* What an empty file means: every field of RuntimeConfig has a default.
Fallback == [agents |-> {Default}, team |-> None, autojoin |-> FALSE,
             bindings |-> <<>>, beats |-> FALSE, token |-> "unset", holds |-> {}]

Writing == {"edited", "opened", "written", "reloaded"}

TypeOK ==
  /\ file \in Config /\ state \in {"whole", "empty", "mixed"}
  /\ memory \in Config /\ copy \in [Editors -> Config]
  /\ loop \in BOOLEAN /\ up \in BOOLEAN /\ ahead \in BOOLEAN
  /\ pc \in [Editors -> Writing \cup {"idle", "shown"}]
  /\ edit \in [Editors -> 0..MaxEdits]
  /\ page \subseteq Requests
  /\ edits \in 0..MaxEdits /\ acked \subseteq 1..edits
  /\ cause \subseteq {"overlap", "behind", "outdated page", "torn"}
  /\ faults \in 0..MaxFaults

Init ==
  /\ file = Installed /\ state = "whole" /\ memory = Installed /\ loop = Installed.beats
  /\ up = TRUE
  /\ pc = [p \in Editors |-> "idle"]
  /\ copy = [p \in Editors |-> Fallback]
  /\ edit = [p \in Editors |-> 0]
  /\ page = {}
  /\ edits = 0 /\ acked = {} /\ ahead = FALSE /\ cause = {} /\ faults = 0

-----------------------------------------------------------------------------
(* What an edit may make of a configuration.                               *)

\* add_agent_to_default_team.
Joined(c, a) ==
  IF c.autojoin THEN [c EXCEPT !.team.members = @ \cup {a}] ELSE c

CreateAgent(c) ==
  {Joined([c EXCEPT !.agents = @ \cup {a}], a) : a \in Agents \ c.agents}

\* Mutant: an agent that is in a team may be removed.
RemoveAnyAgent(c) ==
  {[c EXCEPT !.agents = @ \ {a}] : a \in {b \in c.agents : c.agents # {b}}}

RemoveAgent(c) ==
  LET Free(a) == c.agents # {a} /\ (c.team # None =>
                   a # c.team.leader /\ a \notin c.team.members)
  IN  {[c EXCEPT !.agents = @ \ {a}] : a \in {b \in c.agents : Free(b)}}

\* validate_team_config.
ValidTeams(c) ==
  {t \in Team : t.members \subseteq c.agents /\ t.leader \in t.members}

CreateTeam(c) ==
  IF c.team # None THEN {} ELSE {[c EXCEPT !.team = t] : t \in ValidTeams(c)}

UpdateTeam(c) ==
  IF c.team = None THEN {} ELSE {[c EXCEPT !.team = t] : t \in ValidTeams(c)}

DeleteTeam(c) == IF c.team = None THEN {} ELSE {[c EXCEPT !.team = None]}

AddMember(c) ==
  IF c.team = None THEN {}
  ELSE {[c EXCEPT !.team.members = @ \cup {a}] : a \in c.agents \ c.team.members}

RemoveMember(c) ==
  IF c.team = None THEN {}
  ELSE {[c EXCEPT !.team.members = @ \ {a}] :
          a \in c.team.members \ {c.team.leader}}

SetLeader(c) ==
  IF c.team = None THEN {}
  ELSE {[c EXCEPT !.team.leader = a] : a \in c.team.members}

AddBinding(c) ==
  IF Len(c.bindings) = MaxBindings THEN {}
  ELSE {[c EXCEPT !.bindings = Append(@, a)] : a \in c.agents}

UpdateBinding(c) ==
  {[c EXCEPT !.bindings[i] = a] : i \in DOMAIN c.bindings, a \in c.agents}

RemoveBinding(c) ==
  {[c EXCEPT !.bindings = RemoveAt(@, i)] : i \in DOMAIN c.bindings}

\* What an agent is called and runs, who may write in a channel: nothing the
\* other edits look at.
UpdateAgent(c) == {c}
SetAccess(c) == {c}

SwitchHeartbeat(c) == {[c EXCEPT !.beats = ~@]}

ByRequest(c) ==
  CreateAgent(c) \cup UpdateAgent(c) \cup RemoveAgent(c)
    \cup CreateTeam(c) \cup UpdateTeam(c) \cup DeleteTeam(c)
    \cup AddBinding(c) \cup UpdateBinding(c) \cup RemoveBinding(c)

ByCommand(c) ==
  CreateAgent(c) \cup UpdateAgent(c) \cup RemoveAgent(c)
    \cup AddMember(c) \cup RemoveMember(c) \cup SetLeader(c)
    \cup AddBinding(c) \cup UpdateBinding(c) \cup RemoveBinding(c)
    \cup SetAccess(c) \cup SwitchHeartbeat(c)

ByPage(c) == SetAccess(c) \cup SwitchHeartbeat(c)

\* validate(): default_team names a team that exists.
Valid(c) == c.autojoin => c.team # None

\* The team, if there is one, passes validate_team_config.
Sound(c) ==
  c.team # None => /\ c.team.leader \in c.team.members
                   /\ c.team.members \subseteq c.agents

ASSUME InstalledAssumption ==
  Valid(Installed) /\ Sound(Installed) /\ Installed.token # "masked"

\* masked_for_display.
Masked(c) == IF c.token = "set" THEN [c EXCEPT !.token = "masked"] ELSE c

\* Mutant: what a page shows is what it stores.
RestoreNothing(c, previous) == c

\* restore_masked_secrets.
Restored(c, previous) ==
  IF c.token = "masked" THEN [c EXCEPT !.token = previous.token] ELSE c

-----------------------------------------------------------------------------
(* Actions.                                                                *)

\* load_config: an empty file is the default configuration.
Loaded == IF state = "empty" THEN Fallback ELSE file

Overlap(p) ==
  IF \E q \in Editors \ {p} : pc[q] \in Writing THEN {"overlap"} ELSE {}

\* Editor p makes next out of the copy it has read.
Edit(p, next, why) ==
  /\ Valid(next)
  /\ edits < MaxEdits
  /\ edits' = edits + 1
  /\ copy' = [copy EXCEPT ![p] = [next EXCEPT !.holds = @ \cup {edits'}]]
  /\ edit' = [edit EXCEPT ![p] = edits']
  /\ pc' = [pc EXCEPT ![p] = "edited"]
  /\ cause' = cause \cup why \cup Overlap(p)
  /\ UNCHANGED <<file, state, memory, loop, up, page, acked, ahead, faults>>

\* mutate_config: the clone of the memory is edited and validated.
Request(p) ==
  /\ up /\ p \in Requests /\ pc[p] = "idle"
  /\ \E next \in ByRequest(memory) :
       Edit(p, next, IF ahead THEN {"behind"} ELSE {})

\* The Office shows the settings ...
Show(p) ==
  /\ up /\ p \in Requests /\ pc[p] = "idle"
  /\ copy' = [copy EXCEPT ![p] = Masked(memory)]
  /\ pc' = [pc EXCEPT ![p] = "shown"]
  /\ page' = page \cup {p}
  /\ UNCHANGED <<file, state, memory, loop, up, edit, edits, acked, ahead, cause,
                 faults>>

\* ... and sends all of them back with a change: update_settings.
SaveSettings(p) ==
  /\ up /\ pc[p] = "shown"
  /\ LET sent == Restored(copy[p], memory)
     IN  \E next \in ByPage(sent) :
           Edit(p, next, (IF ahead THEN {"behind"} ELSE {})
                         \cup (IF sent # memory THEN {"outdated page"} ELSE {}))

\* A command loads the file, or fails to parse it.
Command(p) ==
  /\ p \in Commands /\ pc[p] = "idle"
  /\ state # "mixed"
  /\ \E next \in ByCommand(Loaded) :
       Edit(p, next, IF state = "empty" THEN {"torn"} ELSE {})

\* fs::write opens and truncates the file.
Open(p) ==
  /\ pc[p] = "edited"
  /\ state' = "empty"
  /\ pc' = [pc EXCEPT ![p] = "opened"]
  /\ UNCHANGED <<file, memory, loop, up, copy, edit, page, edits, acked, ahead,
                 cause, faults>>

Done(p) ==
  /\ pc' = [pc EXCEPT ![p] = "idle"]
  /\ copy' = [copy EXCEPT ![p] = Fallback]
  /\ edit' = [edit EXCEPT ![p] = 0]
  /\ page' = page \ {p}

\* ... and writes it, perhaps over what somebody wrote since it was opened: the
\* end of a longer text stays.  A command is done then.
Write(p) ==
  /\ pc[p] = "opened"
  /\ file' = copy[p]
  /\ state' \in {"whole"}
       \cup (IF state = "empty" \/ file = copy[p] THEN {} ELSE {"mixed"})
  /\ IF p \in Commands
     THEN /\ Done(p)
          /\ acked' = acked \cup {edit[p]}
          /\ ahead' = up
     ELSE /\ pc' = [pc EXCEPT ![p] = "written"]
          /\ ahead' = FALSE
          /\ UNCHANGED <<copy, edit, page, acked>>
  /\ UNCHANGED <<memory, loop, up, edits, cause, faults>>

\* Mutant: the settings are saved and the loop is not told.
SkipReload(p) ==
  /\ pc[p] = "written" /\ p \in page
  /\ pc' = [pc EXCEPT ![p] = "reloaded"]
  /\ UNCHANGED <<file, state, memory, loop, up, copy, edit, page, edits, acked,
                 ahead, cause, faults>>

\* update_settings tells the heartbeat loop.
HotReload(p) ==
  /\ pc[p] = "written" /\ p \in page
  /\ loop' = copy[p].beats
  /\ pc' = [pc EXCEPT ![p] = "reloaded"]
  /\ UNCHANGED <<file, state, memory, up, copy, edit, page, edits, acked, ahead,
                 cause, faults>>

\* Mutant: the server goes on with the configuration it had.
KeepMemory(p) ==
  /\ pc[p] = IF p \in page THEN "reloaded" ELSE "written"
  /\ p \in Requests
  /\ acked' = acked \cup {edit[p]}
  /\ Done(p)
  /\ UNCHANGED <<file, state, memory, loop, up, edits, ahead, cause, faults>>

\* The copy becomes the server's configuration, and the request is answered.
Swap(p) ==
  /\ pc[p] = IF p \in page THEN "reloaded" ELSE "written"
  /\ p \in Requests
  /\ memory' = copy[p]
  /\ acked' = acked \cup {edit[p]}
  /\ Done(p)
  /\ UNCHANGED <<file, state, loop, up, edits, ahead, cause, faults>>

\* Opening the file or writing it fails: the request or command returns an
\* error, a page is shown no longer.
Fail(p) ==
  /\ pc[p] \in {"edited", "opened"} /\ faults < MaxFaults
  /\ faults' = faults + 1
  /\ cause' = IF pc[p] = "opened" THEN cause \cup {"torn"} ELSE cause
  /\ Done(p)
  /\ UNCHANGED <<file, state, memory, loop, up, edits, acked, ahead>>

\* The daemon stops, by a crash, a signal or POST /api/runtime/restart.
Stop ==
  /\ up /\ faults < MaxFaults
  /\ up' = FALSE /\ faults' = faults + 1
  /\ cause' = IF \E p \in Requests : pc[p] = "opened"
              THEN cause \cup {"torn"} ELSE cause
  /\ LET gone == {p \in Requests : pc[p] # "shown"}
     IN  /\ pc' = [p \in Editors |-> IF p \in gone THEN "idle" ELSE pc[p]]
         /\ copy' = [p \in Editors |-> IF p \in gone THEN Fallback ELSE copy[p]]
         /\ edit' = [p \in Editors |-> IF p \in gone THEN 0 ELSE edit[p]]
         /\ page' = page \ gone
  /\ UNCHANGED <<file, state, memory, loop, edits, acked, ahead>>

Start ==
  /\ ~up /\ state # "mixed"
  /\ up' = TRUE
  /\ memory' = Loaded /\ loop' = Loaded.beats
  /\ ahead' = FALSE
  /\ cause' = IF state = "empty" THEN cause \cup {"torn"} ELSE cause
  /\ UNCHANGED <<file, state, editors, edits, acked, faults>>

Next ==
  \/ \E p \in Editors :
       \/ Request(p) \/ Show(p) \/ SaveSettings(p) \/ Command(p)
       \/ Open(p) \/ Write(p) \/ HotReload(p) \/ Swap(p) \/ Fail(p)
  \/ Stop
  \/ Start

Spec == Init /\ [][Next]_vars

-----------------------------------------------------------------------------
(* Properties.                                                             *)

Quiet == \A p \in Editors : pc[p] \notin Writing

\* However editors race, fail or start from outdated copies, a configuration
\* that somebody can act on has a team of existing agents with its leader among
\* them: every edit keeps that on the copy it was checked on.
TeamsAreSound ==
  /\ Sound(memory)
  /\ \A p \in Editors : Sound(copy[p])
  /\ state = "whole" => Sound(file)

\* An edit that was reported as done is in the file, unless two edits
\* overlapped, the server edited its memory after a command edited the file, a
\* page was saved that was shown before another edit, or a write was cut off.
EditsSurvive ==
  Quiet /\ cause = {} => state = "whole" /\ acked \subseteq file.holds

\* Between edits the server and its heartbeat loop follow the file without a
\* restart, outdated pages and lost edits included, unless edits overlapped, a
\* command wrote the file, or the file is torn; the loop follows the server's
\* memory even then.
ServerIsCurrent ==
  up /\ Quiet /\ "overlap" \notin cause =>
    /\ loop = memory.beats
    /\ ~ahead /\ "torn" \notin cause => state = "whole" /\ memory = file

\* Settings pages show a mask in the place of a secret and send it back, perhaps
\* after other edits or a restart: the mask never takes the secret's place.
SecretsStay ==
  /\ memory.token # "masked" /\ file.token # "masked"
  /\ "torn" \notin cause =>
       memory.token = Installed.token /\ file.token = Installed.token
=============================================================================
