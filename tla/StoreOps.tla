------------------------------ MODULE StoreOps ------------------------------
(***************************************************************************)
(* The content of ClawPod's state file and what the update operations of   *)
(* StateStore (crates/store/src/lib.rs) do to it.  Record contents are     *)
(* abstracted to the part later operations decide on: the status of a run, *)
(* the id of a numbered record, the presence of a session, the approval of *)
(* a sender.                                                               *)
(***************************************************************************)
EXTENDS Integers

CONSTANTS
  Runs,      \* run ids
  Posts,     \* chat-room posts; events and heartbeat runs are numbered alike
  Sessions,  \* the session keys of one agent
  Senders    \* senders that ask for access

Snapshot == [runs     : [Runs -> {"absent", "pending", "ended"}],
             posts    : SUBSET [post : Posts, id : Nat],
             sessions : SUBSET Sessions,
             access   : [Senders -> {"unknown", "pending", "approved"}]]

EmptySnapshot == [runs     |-> [r \in Runs |-> "absent"],
                  posts    |-> {},
                  sessions |-> {},
                  access   |-> [s \in Senders |-> "unknown"]]

\* StateStore::new rewrites the file too: the operation [kind |-> "open"].
Open == [kind |-> "open"]

ClearSessions == [kind |-> "clear_sessions"]

Op == [kind : {"run_start", "run_end"}, run : Runs]
      \cup [kind : {"post"}, post : Posts]
      \cup [kind : {"touch_session"}, session : Sessions]
      \cup [kind : {"register", "approve"}, sender : Senders]
      \cup {Open, ClearSessions}

\* normalize_ids on every refresh, then += 1: one more than the largest id.
NextId(posts) ==
  IF posts = {} THEN 1
  ELSE 1 + (CHOOSE p \in posts : \A q \in posts : q.id <= p.id).id

RecordRunStart(s, r) == [s EXCEPT !.runs[r] = "pending"]

\* Only a run that is in the file can end.
RecordRunEnd(s, r) == [s EXCEPT !.runs[r] = IF @ = "absent" THEN @ ELSE "ended"]

\* Mutant: the counter is not normalized from the records that were read.
RestartCounter(s, p) == [s EXCEPT !.posts = @ \cup {[post |-> p, id |-> 1]}]

RecordPost(s, p) ==
  [s EXCEPT !.posts = @ \cup {[post |-> p, id |-> NextId(@)]}]

TouchSession(s, k) == [s EXCEPT !.sessions = @ \cup {k}]

ClearAgentSessions(s) == [s EXCEPT !.sessions = {}]

\* A known sender keeps an approval; any other status becomes pending.
RegisterSender(s, u) ==
  [s EXCEPT !.access[u] = IF @ = "approved" THEN @ ELSE "pending"]

ApproveSender(s, u) == [s EXCEPT !.access[u] = "approved"]

Effect(o, s) ==
  CASE o.kind = "run_start" -> RecordRunStart(s, o.run)
    [] o.kind = "run_end" -> RecordRunEnd(s, o.run)
    [] o.kind = "post" -> RecordPost(s, o.post)
    [] o.kind = "touch_session" -> TouchSession(s, o.session)
    [] o.kind = "clear_sessions" -> ClearAgentSessions(s)
    [] o.kind = "register" -> RegisterSender(s, o.sender)
    [] o.kind = "approve" -> ApproveSender(s, o.sender)
    [] o.kind = "open" -> s

\* Early returns that persist nothing: an unknown sender cannot be approved.
Applies(o, s) == o.kind = "approve" => s.access[o.sender] # "unknown"

\* A call that its caller makes only after another one returned.
Ready(o, completed) ==
  /\ o.kind = "run_end" => [kind |-> "run_start", run |-> o.run] \in completed
  /\ o.kind = "approve" =>
       [kind |-> "register", sender |-> o.sender] \in completed

\* Can the effect of o be read off s?  Sessions are cleared on purpose.
Visible(o, s) ==
  CASE o.kind = "run_start" -> s.runs[o.run] # "absent"
    [] o.kind = "run_end" -> s.runs[o.run] = "ended"
    [] o.kind = "post" -> \E p \in s.posts : p.post = o.post
    [] o.kind = "register" -> s.access[o.sender] # "unknown"
    [] o.kind = "approve" -> s.access[o.sender] = "approved"
    [] OTHER -> TRUE
=============================================================================
