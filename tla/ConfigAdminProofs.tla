-------------------------- MODULE ConfigAdminProofs --------------------------
(***************************************************************************)
(* What the editors of the configuration keep to, for any number of        *)
(* agents, requests, commands, edits and faults: teams stay sound, secrets *)
(* stay, the server follows its file, and edits survive.                   *)
(*                                                                         *)
(* The inductive invariant says what an editor's copy is worth while it is *)
(* being written: as long as no two edits overlap there is one such copy,  *)
(* and it stands between the server's memory and the file.                 *)
(***************************************************************************)
EXTENDS ConfigAdmin, TLAPS

-----------------------------------------------------------------------------
(* The inductive invariant.                                                *)

Busy(p) == pc[p] \in Writing
Stored(p) == p \in Requests /\ pc[p] \in {"written", "reloaded"}

\* A configuration that any edit may start from.
Fine(c) == c \in Config /\ Valid(c) /\ Sound(c)

AllFine == Fine(memory) /\ Fine(file) /\ \A p \in Editors : Fine(copy[p])

\* Who can stand where.
StandsInv ==
  \A p \in Editors :
    /\ p \in Commands => pc[p] \in {"idle", "edited", "opened"}
    /\ pc[p] \in {"shown", "reloaded"} => p \in page
    /\ pc[p] = "idle" => p \notin page
    /\ p \in Requests /\ ~up => ~Busy(p)

\* Nothing that is stored, or may be stored, holds the mask.
NoMaskInv ==
  /\ memory.token # "masked" /\ file.token # "masked"
  /\ \A p \in Editors : Busy(p) => copy[p].token # "masked"

\* Whoever writes has a number.
NumbersInv == \A p \in Editors : Busy(p) => edit[p] \in 1..edits

\* The secret is the installed one, and a page shows that or the mask.
SecretInv ==
  "torn" \notin cause =>
    /\ memory.token = Installed.token /\ file.token = Installed.token
    /\ \A p \in Editors :
         /\ Busy(p) => copy[p].token = Installed.token
         /\ pc[p] = "shown" => copy[p].token \in {"masked", Installed.token}

\* Edits take turns.
TurnsInv ==
  /\ \A p, q \in Editors : Busy(p) /\ Busy(q) => p = q
  /\ \A p \in Editors : pc[p] = "opened" => state = "empty"
  /\ "torn" \notin cause /\ (\A p \in Editors : pc[p] # "opened") => state = "whole"

\* The loop follows the page that was stored last, then the memory.
LoopInv ==
  /\ up => \A p \in Editors : pc[p] = "reloaded" => loop = copy[p].beats
  /\ up /\ (\A p \in Editors : pc[p] # "reloaded") => loop = memory.beats
  /\ \A p \in Requests : Busy(p) /\ p \notin page => copy[p].beats = memory.beats

\* What is stored is in the file, and then in the memory.
FileInv ==
  /\ \A p \in Editors : Stored(p) => file = copy[p] /\ ~ahead
  /\ up /\ ~ahead /\ "torn" \notin cause /\ (\A p \in Editors : ~Stored(p))
       => memory = file

\* Edits that were reported are in the file, and in the copy that replaces it.
SurviveInv ==
  cause = {} =>
    /\ acked \subseteq file.holds
    /\ \A p \in Editors : Busy(p) => acked \cup {edit[p]} \subseteq copy[p].holds

IInv ==
  /\ TypeOK /\ AllFine /\ StandsInv /\ NumbersInv /\ NoMaskInv /\ SecretInv
  /\ "overlap" \notin cause => TurnsInv /\ LoopInv /\ FileInv
  /\ SurviveInv

-----------------------------------------------------------------------------
(* Configurations.                                                         *)

USE DEF Fine

\* Adding, replacing and removing a rule keeps a list of at most MaxBindings.
LEMMA RulesKeepBound ==
  ASSUME NEW s \in BoundedSeq(Agents, MaxBindings), NEW a \in Agents
  PROVE  /\ Len(s) # MaxBindings => Append(s, a) \in BoundedSeq(Agents, MaxBindings)
         /\ \A i \in DOMAIN s :
              /\ [s EXCEPT ![i] = a] \in BoundedSeq(Agents, MaxBindings)
              /\ RemoveAt(s, i) \in BoundedSeq(Agents, MaxBindings)
<1> MaxBindings \in Nat
  BY ConfigAssumption
<1>1. PICK m \in 0..MaxBindings : s \in [1..m -> Agents]
  BY DEF BoundedSeq, SeqOf
<1>2. s \in Seq(Agents) /\ Len(s) = m /\ DOMAIN s = 1..m
  BY <1>1
<1>3. ASSUME NEW t \in Seq(Agents), Len(t) <= MaxBindings
      PROVE  t \in BoundedSeq(Agents, MaxBindings)
  BY <1>3 DEF BoundedSeq, SeqOf
<1>4. Len(s) # MaxBindings => Append(s, a) \in BoundedSeq(Agents, MaxBindings)
  <2>1. Append(s, a) \in Seq(Agents) /\ Len(Append(s, a)) = m + 1
    BY <1>2
  <2>2. m # MaxBindings => m + 1 <= MaxBindings
    OBVIOUS
  <2> QED
    BY <1>2, <1>3, <2>1, <2>2
<1>5. ASSUME NEW i \in DOMAIN s
      PROVE  /\ [s EXCEPT ![i] = a] \in BoundedSeq(Agents, MaxBindings)
             /\ RemoveAt(s, i) \in BoundedSeq(Agents, MaxBindings)
  <2>1. [s EXCEPT ![i] = a] \in [1..m -> Agents]
    BY <1>1
  <2>2. SubSeq(s, 1, i - 1) \in Seq(Agents) /\ Len(SubSeq(s, 1, i - 1)) = i - 1
    BY <1>2, <1>5
  <2>3. SubSeq(s, i + 1, Len(s)) \in Seq(Agents)
          /\ Len(SubSeq(s, i + 1, Len(s))) = m - i
    BY <1>2, <1>5
  <2>4. RemoveAt(s, i) \in Seq(Agents) /\ Len(RemoveAt(s, i)) = m - 1
    BY <1>2, <1>5, <2>2, <2>3, SMTT(30) DEF RemoveAt
  <2> QED
    BY <1>1, <1>2, <1>3, <2>1, <2>4 DEF BoundedSeq, SeqOf
<1> QED
  BY <1>4, <1>5

LEMMA FallbackIsFine ==
  Fine(Fallback) /\ Fallback.token = "unset" /\ Fallback.holds = {}
<1>1. <<>> \in BoundedSeq(Agents, MaxBindings)
  BY ConfigAssumption DEF BoundedSeq, SeqOf
<1> QED
  BY <1>1, ConfigAssumption DEF Fallback, Config, Valid, Sound

LEMMA InstalledIsFine == Fine(Installed)
  BY ConfigAssumption, InstalledAssumption

\* An edit of a fine configuration is fine; the secret and what the copy holds
\* stay, and a request leaves the heartbeat alone.
LEMMA EditsAreFine ==
  ASSUME NEW c, Fine(c),
         NEW d \in ByRequest(c) \cup ByCommand(c) \cup ByPage(c), Valid(d)
  PROVE  /\ Fine(d) /\ d.token = c.token /\ d.holds = c.holds
         /\ d \in ByRequest(c) => d.beats = c.beats
<1> USE ConfigAssumption DEF Valid, Sound
<1>1. /\ c.agents \in (SUBSET Agents) \ {{}} /\ c.team \in Team \cup {None}
      /\ c.bindings \in BoundedSeq(Agents, MaxBindings)
  BY DEF Config
<1>2. CASE d \in CreateAgent(c)
  <2>1. PICK a \in Agents \ c.agents :
          d = Joined([c EXCEPT !.agents = @ \cup {a}], a)
    BY <1>2 DEF CreateAgent
  <2> DEFINE e == [c EXCEPT !.agents = @ \cup {a}]
  <2>2. e \in Config /\ e.team = c.team /\ e.token = c.token /\ e.holds = c.holds
          /\ e.beats = c.beats /\ e.agents = c.agents \cup {a}
          /\ e.autojoin = c.autojoin
    BY <1>1 DEF Config
  <2> HIDE DEF e
  <2>3. CASE e.autojoin
    <3>1. e.team \in Team
      BY <2>2, <2>3, <1>1
    <3>2. d = [e EXCEPT !.team.members = @ \cup {a}]
      BY <2>1, <2>3 DEF e, Joined
    <3>3. d.team.members = e.team.members \cup {a} /\ d.team.leader = e.team.leader
            /\ d.team \in Team
      BY <3>1, <3>2, <2>2 DEF Config, Team
    <3>4. d \in Config /\ d.token = e.token /\ d.holds = e.holds /\ d.beats = e.beats
            /\ d.agents = e.agents
      BY <3>2, <3>3, <2>2 DEF Config
    <3> QED
      BY <3>1, <3>3, <3>4, <2>2
  <2>4. CASE ~e.autojoin
    <3>1. d = e
      BY <2>1, <2>4 DEF e, Joined
    <3> QED
      BY <3>1, <2>2
  <2> QED
    BY <2>3, <2>4
<1>3. CASE d \in UpdateAgent(c) \cup SetAccess(c)
  BY <1>3 DEF UpdateAgent, SetAccess
<1>4. CASE d \in RemoveAgent(c)
  <2>1. PICK a \in c.agents :
          /\ d = [c EXCEPT !.agents = @ \ {a}] /\ c.agents # {a}
          /\ c.team # None => a # c.team.leader /\ a \notin c.team.members
    BY <1>4 DEF RemoveAgent
  <2> QED
    BY <2>1, <1>1 DEF Config
<1>5. CASE d \in CreateTeam(c) \cup UpdateTeam(c)
  <2>1. PICK t \in ValidTeams(c) : d = [c EXCEPT !.team = t]
    BY <1>5 DEF CreateTeam, UpdateTeam
  <2> QED
    BY <2>1, <1>1 DEF Config, ValidTeams
<1>6. CASE d \in DeleteTeam(c)
  <2>1. d = [c EXCEPT !.team = None]
    BY <1>6 DEF DeleteTeam
  <2> QED
    BY <2>1, <1>1 DEF Config
<1>7. ASSUME c.team # None, NEW t \in Team, t.leader \in t.members,
             t.members \subseteq c.agents, d = [c EXCEPT !.team = t]
      PROVE  Fine(d) /\ d.token = c.token /\ d.holds = c.holds /\ d.beats = c.beats
  BY <1>7, <1>1 DEF Config
<1>8. CASE d \in AddMember(c) \cup RemoveMember(c) \cup SetLeader(c)
  <2>1. c.team \in Team /\ c.team # None
    BY <1>1, <1>8 DEF AddMember, RemoveMember, SetLeader
  <2>2. CASE d \in AddMember(c)
    <3>1. PICK a \in c.agents : d = [c EXCEPT !.team.members = @ \cup {a}]
      BY <2>1, <2>2 DEF AddMember
    <3>2. d = [c EXCEPT !.team = [c.team EXCEPT !.members = @ \cup {a}]]
      BY <3>1, <2>1 DEF Config
    <3> QED
      BY <3>2, <2>1, <1>1, <1>7 DEF Team
  <2>3. CASE d \in RemoveMember(c)
    <3>1. PICK a \in c.team.members \ {c.team.leader} :
            d = [c EXCEPT !.team.members = @ \ {a}]
      BY <2>1, <2>3 DEF RemoveMember
    <3>2. d = [c EXCEPT !.team = [c.team EXCEPT !.members = @ \ {a}]]
      BY <3>1, <2>1 DEF Config
    <3> QED
      BY <3>2, <2>1, <1>1, <1>7 DEF Team
  <2>4. CASE d \in SetLeader(c)
    <3>1. PICK a \in c.team.members : d = [c EXCEPT !.team.leader = a]
      BY <2>1, <2>4 DEF SetLeader
    <3>2. d = [c EXCEPT !.team = [c.team EXCEPT !.leader = a]]
      BY <3>1, <2>1 DEF Config
    <3> QED
      BY <3>2, <2>1, <1>1, <1>7 DEF Team
  <2> QED
    BY <1>8, <2>2, <2>3, <2>4
<1>9. CASE d \in AddBinding(c) \cup UpdateBinding(c) \cup RemoveBinding(c)
  <2>1. \E b \in BoundedSeq(Agents, MaxBindings) : d = [c EXCEPT !.bindings = b]
    <3>1. CASE d \in AddBinding(c)
      BY <3>1, <1>1, RulesKeepBound DEF AddBinding, Config
    <3>2. CASE d \in UpdateBinding(c)
      BY <3>2, <1>1, RulesKeepBound DEF UpdateBinding, Config
    <3>3. CASE d \in RemoveBinding(c)
      <4>1. PICK i \in DOMAIN c.bindings : d = [c EXCEPT !.bindings = RemoveAt(@, i)]
        BY <3>3 DEF RemoveBinding
      <4>2. RemoveAt(c.bindings, i) \in BoundedSeq(Agents, MaxBindings)
        BY <1>1, RulesKeepBound
      <4> QED
        BY <4>1, <4>2 DEF Config
    <3> QED
      BY <1>9, <3>1, <3>2, <3>3
  <2> QED
    BY <2>1, <1>1 DEF Config
<1>10. ASSUME d \in SwitchHeartbeat(c), d \notin ByRequest(c)
       PROVE  Fine(d) /\ d.token = c.token /\ d.holds = c.holds
  <2> DEFINE b == ~c.beats
  <2>1. b \in BOOLEAN
    OBVIOUS
  <2>2. d = [c EXCEPT !.beats = b]
    BY <1>10, Zenon DEF SwitchHeartbeat
  <2> HIDE DEF b
  <2> QED
    BY <2>1, <2>2, <1>1 DEF Config
<1> QED
  BY <1>2, <1>3, <1>4, <1>5, <1>6, <1>8, <1>9, <1>10
  DEF ByRequest, ByCommand, ByPage

\* Recording an edit changes nothing else.
LEMMA RecordingIsFine ==
  ASSUME NEW c, Fine(c)
  PROVE  \A n \in 1..MaxEdits :
           LET d == [c EXCEPT !.holds = @ \cup {n}]
           IN  /\ Fine(d) /\ d.token = c.token /\ d.beats = c.beats
               /\ d.holds = c.holds \cup {n}
  BY DEF Config, Valid, Sound

\* A mask hides a secret, and what comes back holds the secret again.
LEMMA MasksAreFine ==
  ASSUME NEW c, Fine(c), NEW m, Fine(m), m.token # "masked"
  PROVE  /\ Fine(Masked(c)) /\ Masked(c).token \in {"masked", c.token}
         /\ Fine(Restored(c, m)) /\ Restored(c, m).token # "masked"
         /\ c.token \in {"masked", m.token} => Restored(c, m).token = m.token
  BY DEF Config, Valid, Sound, Masked, Restored
-----------------------------------------------------------------------------
(* The invariant is inductive: one lemma per action.                       *)

\* What the other lemmas need of TypeOK.
LEMMA Sorts ==
  ASSUME TypeOK
  PROVE  /\ Editors = Requests \cup Commands /\ Requests \cap Commands = {}
         /\ DOMAIN copy = Editors /\ DOMAIN pc = Editors /\ DOMAIN edit = Editors
         /\ MaxEdits \in Nat /\ MaxFaults \in Nat
  BY ConfigAssumption DEF TypeOK, Editors

LEMMA StartsRight == Init => IInv
<1> SUFFICES ASSUME Init PROVE IInv
  OBVIOUS
<1>1. Fine(Installed) /\ Installed.token # "masked"
  BY InstalledIsFine, InstalledAssumption
<1>2. Fine(Fallback) /\ Fallback.token # "masked"
  BY FallbackIsFine
<1>3. Installed \in Config /\ Fallback \in Config /\ Installed.beats \in BOOLEAN
  BY <1>1, <1>2 DEF Fine, Config
<1>4. TypeOK
  <2>1. 0 \in 0..MaxEdits /\ 0 \in 0..MaxFaults
    BY ConfigAssumption
  <2>2. /\ file \in Config /\ memory \in Config /\ copy \in [Editors -> Config]
        /\ loop \in BOOLEAN /\ pc \in [Editors -> Writing \cup {"idle", "shown"}]
    BY <1>3 DEF Init
  <2> QED
    BY <2>1, <2>2 DEF Init, TypeOK
<1>5. AllFine /\ StandsInv /\ NumbersInv /\ NoMaskInv /\ SecretInv
  BY <1>1, <1>2 DEF Init, AllFine, StandsInv, NumbersInv,
      NoMaskInv, SecretInv, Busy, Writing,
                    Editors
<1>6. TurnsInv /\ LoopInv /\ FileInv /\ SurviveInv
  BY DEF Init, TurnsInv, LoopInv, FileInv, SurviveInv, Busy, Stored, Writing, Editors
<1> QED
  BY <1>4, <1>5, <1>6 DEF IInv

\* An edit has a number of its own.
LEMMA EditNumber ==
  ASSUME TypeOK, NEW p, NEW next, NEW why, Edit(p, next, why)
  PROVE  /\ edits' \in 1..MaxEdits /\ edits' \in 0..MaxEdits /\ edits' \in 1..edits'
         /\ 1..edits \subseteq 1..edits' /\ acked \subseteq 1..edits'
<1>1. edits \in 0..MaxEdits /\ MaxEdits \in Nat /\ acked \subseteq 1..edits
  BY Sorts DEF TypeOK
<1>2. edits < MaxEdits /\ edits' = edits + 1
  BY DEF Edit
<1> QED
  BY <1>1, <1>2

\* Editor p makes d out of c, which it took from the memory, the page or the
\* file.
LEMMA EditStep ==
  ASSUME IInv, NEW p \in Editors, ~Busy(p),
         NEW c, Fine(c), c.token # "masked",
         NEW d \in ByRequest(c) \cup ByCommand(c) \cup ByPage(c),
         NEW why \in SUBSET {"overlap", "behind", "outdated page", "torn"},
         Edit(p, d, why),
         p \in Requests => up,
         p \in Requests /\ p \notin page => d \in ByRequest(c) /\ c = memory,
         "torn" \notin cause \cup why => c.token = Installed.token,
         cause' = {} => acked \subseteq c.holds
  PROVE  IInv'
<1> DEFINE e == [d EXCEPT !.holds = @ \cup {edits'}]
<1> USE DEF Busy, Stored, Writing
<1>1. /\ edits' \in 1..MaxEdits /\ edits' \in 0..MaxEdits /\ edits' \in 1..edits'
      /\ 1..edits \subseteq 1..edits' /\ acked \subseteq 1..edits'
  BY EditNumber DEF IInv
<1>2. /\ Fine(d) /\ d.token = c.token /\ d.holds = c.holds
      /\ d \in ByRequest(c) => d.beats = c.beats
  BY EditsAreFine DEF Edit
<1>3. Fine(e) /\ e.token = c.token /\ e.beats = d.beats
        /\ e.holds = c.holds \cup {edits'}
  BY <1>1, <1>2, RecordingIsFine, ZenonT(60)
<1>4. /\ copy' = [copy EXCEPT ![p] = e] /\ edit' = [edit EXCEPT ![p] = edits']
      /\ pc' = [pc EXCEPT ![p] = "edited"] /\ cause' = cause \cup why \cup Overlap(p)
      /\ UNCHANGED <<file, state, memory, loop, up, page, acked, ahead, faults>>
  BY DEF Edit
<1> HIDE DEF e
<1> e \in Config
  BY <1>3 DEF Fine
<1>5. Overlap(p) = {} => \A q \in Editors : q # p => ~Busy(q)
  BY DEF Overlap
<1>6. TypeOK'
  <2>1. Overlap(p) \subseteq {"overlap"}
    BY DEF Overlap
  <2>2. cause' \subseteq {"overlap", "behind", "outdated page", "torn"}
    BY <1>4, <2>1 DEF IInv, TypeOK
  <2> QED
    BY <1>1, <1>4, <2>2 DEF IInv, TypeOK
<1>7. AllFine'
  BY <1>3, <1>4 DEF IInv, TypeOK, AllFine
<1>8. StandsInv' /\ NumbersInv'
  BY <1>1, <1>4, Sorts DEF IInv, TypeOK, StandsInv, NumbersInv
<1>9. NoMaskInv' /\ SecretInv'
  BY <1>3, <1>4 DEF IInv, TypeOK, NoMaskInv, SecretInv
<1>10. ASSUME "overlap" \notin cause'
       PROVE  TurnsInv' /\ LoopInv' /\ FileInv'
  <2>1. "overlap" \notin cause /\ \A q \in Editors : q # p => ~Busy(q)
    BY <1>4, <1>5, <1>10 DEF Overlap
  <2>2. TurnsInv'
    BY <1>4, <2>1 DEF IInv, TypeOK, TurnsInv
  <2>3. LoopInv'
    BY <1>2, <1>3, <1>4, <2>1, Sorts DEF IInv, TypeOK, LoopInv
  <2>4. FileInv'
    BY <1>4, <2>1, Sorts DEF IInv, TypeOK, FileInv
  <2> QED
    BY <2>2, <2>3, <2>4
<1>11. SurviveInv'
  <2> SUFFICES ASSUME cause' = {}
               PROVE  /\ acked' \subseteq file'.holds
                      /\ \A q \in Editors : Busy(q)' =>
                            acked' \cup {edit'[q]} \subseteq copy'[q].holds
    BY DEF SurviveInv
  <2>1. cause = {} /\ \A q \in Editors : q # p => ~Busy(q)
    BY <1>4, <1>5
  <2>2. acked \subseteq file.holds
    BY <2>1 DEF IInv, SurviveInv
  <2> QED
    BY <1>3, <1>4, <2>1, <2>2 DEF IInv, TypeOK
<1> QED
  BY <1>6, <1>7, <1>8, <1>9, <1>10, <1>11 DEF IInv

\* Whoever edits the memory alone, with the file not ahead, edits what the file
\* holds.
LEMMA MemoryIsFile ==
  ASSUME IInv, up, ~ahead, cause = {}, \A q \in Editors : ~Busy(q)
  PROVE  memory = file /\ acked \subseteq memory.holds
  BY DEF IInv, FileInv, SurviveInv, Stored, Busy, Writing

LEMMA RequestStep ==
  ASSUME IInv, NEW p \in Editors, Request(p)
  PROVE  IInv'
<1>1. PICK d \in ByRequest(memory) :
        Edit(p, d, IF ahead THEN {"behind"} ELSE {})
  BY DEF Request
<1> DEFINE why == IF ahead THEN {"behind"} ELSE {}
<1>2. ~Busy(p) /\ up /\ p \notin page
  BY DEF Request, Busy, Writing, IInv, StandsInv
<1>3. Fine(memory) /\ memory.token # "masked"
        /\ ("torn" \notin cause => memory.token = Installed.token)
  BY DEF IInv, AllFine, NoMaskInv, SecretInv
<1>4. cause' = {} => acked \subseteq memory.holds
  <2> SUFFICES ASSUME cause' = {} PROVE acked \subseteq memory.holds
    OBVIOUS
  <2>1. cause = {} /\ why = {} /\ Overlap(p) = {}
    BY <1>1 DEF Edit
  <2>2. ~ahead /\ \A q \in Editors : ~Busy(q)
    BY <1>2, <2>1 DEF Overlap, Busy
  <2> QED
    BY <1>2, <2>1, <2>2, MemoryIsFile
<1>5. why \in SUBSET {"overlap", "behind", "outdated page", "torn"}
  OBVIOUS
<1> HIDE DEF why
<1>6. Edit(p, d, why)
  BY <1>1 DEF why
<1> QED
  BY <1>2, <1>3, <1>4, <1>5, <1>6, EditStep

LEMMA SaveSettingsStep ==
  ASSUME IInv, NEW p \in Editors, SaveSettings(p)
  PROVE  IInv'
<1> DEFINE sent == Restored(copy[p], memory)
           why == (IF ahead THEN {"behind"} ELSE {})
                    \cup (IF sent # memory THEN {"outdated page"} ELSE {})
<1>1. PICK d \in ByPage(sent) : Edit(p, d, why)
  BY DEF SaveSettings
<1>2. ~Busy(p) /\ up /\ p \in page
  BY DEF SaveSettings, Busy, Writing, IInv, StandsInv
<1>3. Fine(sent) /\ sent.token # "masked"
        /\ ("torn" \notin cause => sent.token = Installed.token)
  <2>1. Fine(copy[p]) /\ Fine(memory) /\ memory.token # "masked"
    BY DEF IInv, AllFine, NoMaskInv
  <2>2. "torn" \notin cause => copy[p].token \in {"masked", memory.token}
                                 /\ memory.token = Installed.token
    BY DEF IInv, SecretInv, SaveSettings
  <2> QED
    BY <2>1, <2>2, MasksAreFine
<1>4. cause' = {} => acked \subseteq sent.holds
  <2> SUFFICES ASSUME cause' = {} PROVE acked \subseteq sent.holds
    OBVIOUS
  <2>1. cause = {} /\ why = {} /\ Overlap(p) = {}
    BY <1>1 DEF Edit
  <2>2. ~ahead /\ sent = memory
    BY <2>1
  <2>3. \A q \in Editors : ~Busy(q)
    BY <1>2, <2>1 DEF Overlap, Busy
  <2> QED
    BY <1>2, <2>1, <2>2, <2>3, MemoryIsFile
<1>5. why \in SUBSET {"overlap", "behind", "outdated page", "torn"}
  OBVIOUS
<1> HIDE DEF why, sent
<1> QED
  BY <1>1, <1>2, <1>3, <1>4, <1>5, EditStep

LEMMA CommandStep ==
  ASSUME IInv, NEW p \in Editors, Command(p)
  PROVE  IInv'
<1> DEFINE why == IF state = "empty" THEN {"torn"} ELSE {}
<1>1. PICK d \in ByCommand(Loaded) : Edit(p, d, why)
  BY DEF Command
<1>2. ~Busy(p) /\ p \notin Requests
  BY Sorts DEF Command, Busy, Writing, IInv
<1>3. Fine(Loaded) /\ Loaded.token # "masked"
        /\ ("torn" \notin cause \cup why => Loaded.token = Installed.token)
  BY FallbackIsFine DEF IInv, AllFine, NoMaskInv, SecretInv, Loaded
<1>4. cause' = {} => acked \subseteq Loaded.holds
  <2> SUFFICES ASSUME cause' = {} PROVE acked \subseteq Loaded.holds
    OBVIOUS
  <2>1. cause = {} /\ why = {}
    BY <1>1 DEF Edit
  <2> QED
    BY <2>1 DEF Loaded, IInv, SurviveInv
<1>5. why \in SUBSET {"overlap", "behind", "outdated page", "torn"}
  OBVIOUS
<1> HIDE DEF why
<1> QED
  BY <1>1, <1>2, <1>3, <1>4, <1>5, EditStep

LEMMA ShowStep ==
  ASSUME IInv, NEW p \in Editors, Show(p)
  PROVE  IInv'
<1> USE DEF Busy, Stored, Writing
<1>1. Fine(Masked(memory)) /\ Masked(memory).token \in {"masked", memory.token}
  BY MasksAreFine DEF IInv, AllFine, NoMaskInv
<1> Masked(memory) \in Config
  BY <1>1 DEF Fine
<1>2. /\ copy' = [copy EXCEPT ![p] = Masked(memory)]
      /\ pc' = [pc EXCEPT ![p] = "shown"] /\ page' = page \cup {p}
      /\ UNCHANGED <<file, state, memory, loop, up, edit, edits, acked, ahead,
                     cause, faults>>
      /\ up /\ p \in Requests /\ pc[p] = "idle"
  BY DEF Show
<1>3. TypeOK'
  BY <1>2 DEF IInv, TypeOK
<1>4. AllFine' /\ StandsInv' /\ NumbersInv' /\ NoMaskInv' /\ SecretInv'
  BY <1>1, <1>2, Sorts, ZenonT(60) DEF IInv, TypeOK, AllFine, StandsInv, NumbersInv,
      NoMaskInv, SecretInv
<1>5. "overlap" \notin cause' => TurnsInv' /\ LoopInv' /\ FileInv'
  BY <1>2, Sorts, ZenonT(60)
  DEF IInv, TypeOK, TurnsInv, LoopInv, FileInv
<1>6. SurviveInv'
  BY <1>2 DEF IInv, TypeOK, SurviveInv
<1> QED
  BY <1>3, <1>4, <1>5, <1>6 DEF IInv

LEMMA OpenStep ==
  ASSUME IInv, NEW p \in Editors, Open(p)
  PROVE  IInv'
<1> USE DEF Busy, Stored, Writing
<1>1. /\ pc[p] = "edited" /\ state' = "empty" /\ pc' = [pc EXCEPT ![p] = "opened"]
      /\ UNCHANGED <<file, memory, loop, up, copy, edit, page, edits, acked, ahead,
                     cause, faults>>
  BY DEF Open
<1>2. TypeOK'
  BY <1>1 DEF IInv, TypeOK
<1>3. AllFine' /\ StandsInv' /\ NumbersInv' /\ NoMaskInv' /\ SecretInv'
  BY <1>1, Sorts, ZenonT(60) DEF IInv, TypeOK, AllFine, StandsInv, NumbersInv,
      NoMaskInv, SecretInv
<1>4. "overlap" \notin cause' => TurnsInv' /\ LoopInv' /\ FileInv'
  BY <1>1, Sorts, ZenonT(60)
  DEF IInv, TypeOK, TurnsInv, LoopInv, FileInv
<1>5. SurviveInv'
  BY <1>1 DEF IInv, TypeOK, SurviveInv
<1> QED
  BY <1>2, <1>3, <1>4, <1>5 DEF IInv

LEMMA WriteStep ==
  ASSUME IInv, NEW p \in Editors, Write(p)
  PROVE  IInv'
<1> USE DEF Busy, Stored, Writing
<1>1. /\ pc[p] = "opened" /\ file' = copy[p]
      /\ state' \in {"whole", "mixed"} /\ (state = "empty" => state' = "whole")
      /\ UNCHANGED <<memory, loop, up, edits, cause, faults>>
  BY DEF Write
<1>2. CASE p \in Commands
  <2>1. /\ pc' = [pc EXCEPT ![p] = "idle"] /\ copy' = [copy EXCEPT ![p] = Fallback]
        /\ edit' = [edit EXCEPT ![p] = 0] /\ page' = page \ {p}
        /\ acked' = acked \cup {edit[p]} /\ ahead' = up
    BY <1>2 DEF Write, Done
  <2>2. Fine(Fallback) /\ Fallback \in Config
    BY FallbackIsFine
  <2>3. p \notin Requests /\ 0 \in 0..MaxEdits
    BY <1>2, Sorts DEF IInv
  <2>4. edit[p] \in 1..edits
    BY <1>1 DEF IInv, NumbersInv
  <2>5. TypeOK'
    <3>1. acked' \subseteq 1..edits'
      BY <1>1, <2>1, <2>4 DEF IInv, TypeOK
    <3> QED
      BY <1>1, <2>1, <2>2, <2>3, <3>1 DEF IInv, TypeOK
  <2>6. AllFine' /\ StandsInv' /\ NumbersInv' /\ NoMaskInv' /\ SecretInv'
    BY <1>1, <2>1, <2>2, <2>3, Sorts, ZenonT(60)
    DEF IInv, TypeOK, AllFine, StandsInv, NumbersInv,
      NoMaskInv, SecretInv
  <2>7. "overlap" \notin cause' => TurnsInv' /\ LoopInv' /\ FileInv'
    BY <1>1, <2>1, <2>3, Sorts, ZenonT(60)
  DEF IInv, TypeOK, TurnsInv, LoopInv, FileInv, StandsInv
  <2>8. SurviveInv'
    BY <1>1, <2>1 DEF IInv, TypeOK, SurviveInv, TurnsInv
  <2> QED
    BY <2>5, <2>6, <2>7, <2>8 DEF IInv
<1>3. CASE p \in Requests
  <2>1. /\ pc' = [pc EXCEPT ![p] = "written"] /\ ahead' = FALSE
        /\ UNCHANGED <<copy, edit, page, acked>>
    BY <1>3, Sorts DEF Write, IInv
  <2>2. TypeOK'
    BY <1>1, <2>1 DEF IInv, TypeOK
  <2>3. AllFine' /\ StandsInv' /\ NumbersInv' /\ NoMaskInv' /\ SecretInv'
    BY <1>1, <1>3, <2>1, Sorts, ZenonT(60)
    DEF IInv, TypeOK, AllFine, StandsInv, NumbersInv,
      NoMaskInv, SecretInv
  <2>4. "overlap" \notin cause' => TurnsInv' /\ LoopInv' /\ FileInv'
    BY <1>1, <1>3, <2>1, Sorts, ZenonT(60)
  DEF IInv, TypeOK, TurnsInv, LoopInv, FileInv
  <2>5. SurviveInv'
    BY <1>1, <2>1 DEF IInv, TypeOK, SurviveInv, TurnsInv
  <2> QED
    BY <2>2, <2>3, <2>4, <2>5 DEF IInv
<1> QED
  BY <1>2, <1>3, Sorts DEF IInv

LEMMA HotReloadStep ==
  ASSUME IInv, NEW p \in Editors, HotReload(p)
  PROVE  IInv'
<1> USE DEF Busy, Stored, Writing
<1>1. /\ pc[p] = "written" /\ p \in page /\ loop' = copy[p].beats
      /\ pc' = [pc EXCEPT ![p] = "reloaded"]
      /\ UNCHANGED <<file, state, memory, up, copy, edit, page, edits, acked, ahead,
                     cause, faults>>
  BY DEF HotReload
<1>2. TypeOK'
  <2>1. copy[p].beats \in BOOLEAN
    BY DEF IInv, TypeOK, Config
  <2> QED
    BY <1>1, <2>1 DEF IInv, TypeOK
<1>3. AllFine' /\ StandsInv' /\ NumbersInv' /\ NoMaskInv' /\ SecretInv'
  BY <1>1, Sorts, ZenonT(60)
  DEF IInv, TypeOK, AllFine, StandsInv, NumbersInv,
      NoMaskInv, SecretInv
<1>4. "overlap" \notin cause' => TurnsInv' /\ LoopInv' /\ FileInv'
  BY <1>1, Sorts, ZenonT(60)
  DEF IInv, TypeOK, TurnsInv, LoopInv, FileInv
<1>5. SurviveInv'
  BY <1>1 DEF IInv, TypeOK, SurviveInv
<1> QED
  BY <1>2, <1>3, <1>4, <1>5 DEF IInv

LEMMA SwapStep ==
  ASSUME IInv, NEW p \in Editors, Swap(p)
  PROVE  IInv'
<1> USE DEF Busy, Stored, Writing
<1>1. /\ p \in Requests /\ Stored(p) /\ (p \in page => pc[p] = "reloaded")
      /\ memory' = copy[p] /\ acked' = acked \cup {edit[p]}
      /\ pc' = [pc EXCEPT ![p] = "idle"] /\ copy' = [copy EXCEPT ![p] = Fallback]
      /\ edit' = [edit EXCEPT ![p] = 0] /\ page' = page \ {p}
      /\ UNCHANGED <<file, state, loop, up, edits, ahead, cause, faults>>
  BY DEF Swap, Done
<1>2. Fine(Fallback) /\ Fallback \in Config
  BY FallbackIsFine
<1>3. edit[p] \in 1..edits /\ 0 \in 0..MaxEdits
  BY <1>1, Sorts DEF IInv, NumbersInv
<1>4. TypeOK'
  <2>1. acked' \subseteq 1..edits'
    BY <1>1, <1>3 DEF IInv, TypeOK
  <2> QED
    BY <1>1, <1>2, <1>3, <2>1 DEF IInv, TypeOK
<1>5. AllFine' /\ StandsInv' /\ NumbersInv' /\ NoMaskInv' /\ SecretInv'
  BY <1>1, <1>2, Sorts, ZenonT(60)
  DEF IInv, TypeOK, AllFine, StandsInv, NumbersInv, NoMaskInv, SecretInv
<1>6. ASSUME "overlap" \notin cause'
      PROVE  TurnsInv' /\ LoopInv' /\ FileInv'
  <2>1. TurnsInv /\ LoopInv /\ FileInv /\ \A q \in Editors : q # p => ~Busy(q)
    BY <1>1, <1>6 DEF IInv, TurnsInv
  <2>2. file = copy[p] /\ up
    BY <1>1, <2>1 DEF IInv, FileInv, StandsInv
  <2>3. TurnsInv'
    BY <1>1, <2>1 DEF IInv, TypeOK, TurnsInv
  <2>4. LoopInv'
    BY <1>1, <2>1, <2>2, Sorts DEF IInv, TypeOK, LoopInv, StandsInv
  <2>5. FileInv'
    BY <1>1, <2>1, <2>2, Sorts DEF IInv, TypeOK, FileInv
  <2> QED
    BY <2>3, <2>4, <2>5
<1>7. SurviveInv'
  <2> SUFFICES ASSUME cause' = {} PROVE SurviveInv'
    BY DEF SurviveInv
  <2>1. /\ TurnsInv /\ FileInv /\ acked \subseteq file.holds
        /\ edit[p] \in copy[p].holds
    BY <1>1 DEF IInv, SurviveInv
  <2>2. file = copy[p] /\ \A q \in Editors : q # p => ~Busy(q)
    BY <1>1, <2>1 DEF TurnsInv, FileInv
  <2> QED
    BY <1>1, <2>1, <2>2 DEF IInv, TypeOK, SurviveInv
<1> QED
  BY <1>4, <1>5, <1>6, <1>7 DEF IInv

LEMMA FailStep ==
  ASSUME IInv, NEW p \in Editors, Fail(p)
  PROVE  IInv'
<1> USE DEF Busy, Stored, Writing
<1>1. /\ pc[p] \in {"edited", "opened"}
      /\ cause' = cause \cup (IF pc[p] = "opened" THEN {"torn"} ELSE {})
      /\ pc' = [pc EXCEPT ![p] = "idle"] /\ copy' = [copy EXCEPT ![p] = Fallback]
      /\ edit' = [edit EXCEPT ![p] = 0] /\ page' = page \ {p}
      /\ UNCHANGED <<file, state, memory, loop, up, edits, acked, ahead>>
  BY DEF Fail, Done
<1>2. Fine(Fallback) /\ Fallback \in Config /\ 0 \in 0..MaxEdits
  BY FallbackIsFine, Sorts DEF IInv
<1>3. faults' \in 0..MaxFaults
  <2>1. faults \in 0..MaxFaults /\ MaxFaults \in Nat
    BY Sorts DEF IInv, TypeOK
  <2>2. faults < MaxFaults /\ faults' = faults + 1
    BY DEF Fail
  <2> QED
    BY <2>1, <2>2
<1>4. TypeOK'
  BY <1>1, <1>2, <1>3 DEF IInv, TypeOK
<1>5. AllFine' /\ StandsInv' /\ NumbersInv' /\ NoMaskInv' /\ SecretInv'
  BY <1>1, <1>2, Sorts, ZenonT(60)
  DEF IInv, TypeOK, AllFine, StandsInv, NumbersInv, NoMaskInv, SecretInv
<1>6. "overlap" \notin cause' => TurnsInv' /\ LoopInv' /\ FileInv'
  BY <1>1, Sorts, ZenonT(60)
  DEF IInv, TypeOK, TurnsInv, LoopInv, FileInv
<1>7. SurviveInv'
  BY <1>1 DEF IInv, TypeOK, SurviveInv
<1> QED
  BY <1>4, <1>5, <1>6, <1>7 DEF IInv

LEMMA StopStep ==
  ASSUME IInv, Stop
  PROVE  IInv'
<1> USE DEF Busy, Stored, Writing
<1> DEFINE gone == {p \in Requests : pc[p] # "shown"}
<1>1. /\ up' = FALSE
      /\ cause' = cause \cup (IF \E p \in Requests : pc[p] = "opened"
                              THEN {"torn"} ELSE {})
      /\ pc' = [p \in Editors |-> IF p \in gone THEN "idle" ELSE pc[p]]
      /\ copy' = [p \in Editors |-> IF p \in gone THEN Fallback ELSE copy[p]]
      /\ edit' = [p \in Editors |-> IF p \in gone THEN 0 ELSE edit[p]]
      /\ page' = page \ gone
      /\ UNCHANGED <<file, state, memory, loop, edits, acked, ahead>>
  BY DEF Stop
<1>2. Fine(Fallback) /\ Fallback \in Config /\ 0 \in 0..MaxEdits
  BY FallbackIsFine, Sorts DEF IInv
<1>3. faults' \in 0..MaxFaults
  <2>1. faults \in 0..MaxFaults /\ MaxFaults \in Nat
    BY Sorts DEF IInv, TypeOK
  <2>2. faults < MaxFaults /\ faults' = faults + 1
    BY DEF Stop
  <2> QED
    BY <2>1, <2>2
<1>4. TypeOK'
  BY <1>1, <1>2, <1>3 DEF IInv, TypeOK
<1>5. AllFine' /\ StandsInv' /\ NumbersInv' /\ NoMaskInv' /\ SecretInv'
  BY <1>1, <1>2, Sorts, ZenonT(60)
  DEF IInv, TypeOK, AllFine, StandsInv, NumbersInv, NoMaskInv, SecretInv
<1>6. "overlap" \notin cause' => TurnsInv' /\ LoopInv' /\ FileInv'
  BY <1>1, Sorts, ZenonT(60)
  DEF IInv, TypeOK, TurnsInv, LoopInv, FileInv, StandsInv
<1>7. SurviveInv'
  BY <1>1 DEF IInv, TypeOK, SurviveInv
<1> QED
  BY <1>4, <1>5, <1>6, <1>7 DEF IInv

LEMMA StartStep ==
  ASSUME IInv, Start
  PROVE  IInv'
<1> USE DEF Busy, Stored, Writing
<1>1. /\ ~up /\ up' = TRUE /\ state \in {"whole", "empty"}
      /\ memory' = Loaded /\ loop' = Loaded.beats /\ ahead' = FALSE
      /\ cause' = cause \cup (IF state = "empty" THEN {"torn"} ELSE {})
      /\ UNCHANGED <<file, state, pc, copy, edit, page, edits, acked, faults>>
  BY DEF Start, editors, IInv, TypeOK
<1>2. Fine(Loaded) /\ Loaded.token # "masked"
  BY FallbackIsFine DEF IInv, AllFine, NoMaskInv, Loaded
<1>3. Loaded \in Config /\ Loaded.beats \in BOOLEAN
  BY <1>2 DEF Fine, Config
<1>4. state # "empty" => Loaded = file
  BY DEF Loaded
<1> HIDE DEF Loaded
<1>5. TypeOK'
  BY <1>1, <1>3 DEF IInv, TypeOK
<1>6. AllFine' /\ StandsInv' /\ NumbersInv' /\ NoMaskInv' /\ SecretInv'
  BY <1>1, <1>2, <1>4, Sorts, ZenonT(60)
  DEF IInv, TypeOK, AllFine, StandsInv, NumbersInv, NoMaskInv, SecretInv
<1>7. "overlap" \notin cause' => TurnsInv' /\ LoopInv' /\ FileInv'
  BY <1>1, <1>4, Sorts, ZenonT(60)
  DEF IInv, TypeOK, TurnsInv, LoopInv, FileInv, StandsInv
<1>8. SurviveInv'
  BY <1>1 DEF IInv, TypeOK, SurviveInv
<1> QED
  BY <1>5, <1>6, <1>7, <1>8 DEF IInv

LEMMA NextStep == IInv /\ [Next]_vars => IInv'
<1> SUFFICES ASSUME IInv, [Next]_vars PROVE IInv'
  OBVIOUS
<1>1. ASSUME NEW p \in Editors,
             \/ Request(p) \/ Show(p) \/ SaveSettings(p) \/ Command(p)
             \/ Open(p) \/ Write(p) \/ HotReload(p) \/ Swap(p) \/ Fail(p)
      PROVE  IInv'
  BY <1>1, RequestStep, ShowStep, SaveSettingsStep, CommandStep, OpenStep, WriteStep,
     HotReloadStep, SwapStep, FailStep
<1>2. CASE UNCHANGED vars
  BY <1>2 DEF vars, IInv, TypeOK, AllFine, StandsInv, NumbersInv, NoMaskInv, SecretInv,
              TurnsInv, LoopInv, FileInv, SurviveInv, Busy, Stored
<1> QED
  BY <1>1, <1>2, StopStep, StartStep DEF Next

-----------------------------------------------------------------------------
(* What follows.                                                           *)

LEMMA InvariantHolds == Spec => []IInv
  BY StartsRight, NextStep, PTL DEF Spec

\* Every variable keeps its type: whatever editors race, each copy is a whole
\* configuration.
THEOREM TypeCorrect == Spec => []TypeOK
<1>1. IInv => TypeOK
  BY DEF IInv
<1> QED
  BY <1>1, InvariantHolds, PTL

\* Whatever races, fails or starts from an outdated copy, the memory, the file
\* and every copy have a team of existing agents with its leader among them.
THEOREM TeamsStaySound == Spec => []TeamsAreSound
<1>1. IInv => TeamsAreSound
  BY DEF IInv, AllFine, TeamsAreSound, Fine
<1> QED
  BY <1>1, InvariantHolds, PTL

\* A mask never takes the place of a secret.
THEOREM SecretsAreKept == Spec => []SecretsStay
<1>1. IInv => SecretsStay
  BY DEF IInv, NoMaskInv, SecretInv, SecretsStay
<1> QED
  BY <1>1, InvariantHolds, PTL

\* Unless edits overlap, the heartbeat loop follows the server's memory, and the
\* memory follows the file as long as no command is ahead and nothing is torn.
THEOREM ServerFollowsFile == Spec => []ServerIsCurrent
<1>1. IInv => ServerIsCurrent
  BY Sorts DEF IInv, TurnsInv, LoopInv, FileInv, ServerIsCurrent, Quiet, Busy, Stored,
               Writing
<1> QED
  BY <1>1, InvariantHolds, PTL

\* An edit that was reported is in the file, unless one of the four named causes
\* took it away.
THEOREM ReportedEditsSurvive == Spec => []EditsSurvive
<1>1. IInv => EditsSurvive
  BY DEF IInv, TurnsInv, SurviveInv, EditsSurvive, Quiet, Busy, Writing
<1> QED
  BY <1>1, InvariantHolds, PTL
=============================================================================
