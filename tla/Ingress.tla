------------------------------ MODULE Ingress ------------------------------
(***************************************************************************)
(* How a message of a chat platform becomes a file in queue/incoming: the  *)
(* ingress half of the connectors (slack, telegram and discord crates).    *)
(*                                                                         *)
(* A connector works in one mode.  Slack uses socket mode if it has an app *)
(* token: every event comes in an envelope that is acknowledged before it  *)
(* is handled, and a mention of the bot comes as two events with one ts.   *)
(* Without the token it polls the history of its channels, with a cursor   *)
(* in memory.  Telegram is polled for updates, and fetching the next ones  *)
(* confirms the last ones.  Discord pushes events to a gateway session,    *)
(* and their handlers run beside each other.                               *)
(*                                                                         *)
(* Messages are of one chat, numbered in the order in which they are       *)
(* posted, which is the order of their ts.  What the access gate decides   *)
(* about a sender is a constant (SenderAccess has the pairing).  Time      *)
(* passes when WindowPasses forgets a key.                                 *)
(***************************************************************************)
EXTENDS Integers, FiniteSets

CONSTANTS
  N,           \* bound: messages that are posted
  Modes,       \* modes the connector may be started in
  Allowed,     \* messages evaluate_ingress_policy allows; others are dropped,
               \* or start a pairing
  Mentions,    \* messages Slack announces twice: message and app_mention
  Attached,    \* messages with attachments
  PageSize,    \* messages in one answer of conversations.history
  MaxFaults,   \* bound: calls and connections that fail
  MaxCrashes   \* bound: how often the daemon may stop

Msgs == 1 .. N

ASSUME IngressAssumption ==
  /\ N \in Nat
  /\ Modes \subseteq {"socket", "poll", "telegram", "discord"}
  /\ Allowed \subseteq Msgs /\ Mentions \subseteq Msgs
  /\ Attached \subseteq Msgs
  /\ PageSize \in Nat \ {0}
  /\ MaxFaults \in Nat /\ MaxCrashes \in Nat

Unset == -1
Idle == "idle"

VARIABLES
  mode,       \* the connector's mode
  posted,     \* messages 1 .. posted exist
  pending,    \* <<m, kind>>: events the platform has not seen taken
  link,       \* "up": websocket or session open, channels or profile read;
              \* "resuming": discord, the session can still be resumed
  cursor,     \* poll: last_ts_by_channel of the channel
  unconfirmed,\* telegram: updates fetched by the last call
  inbox,      \* messages of a page or of updates that wait for the handler
  step,       \* where the handler of a message stands
  recent,     \* keys in SlackIngressDeduper.seen
  copies,     \* files written to queue/incoming
  typing,     \* discord: does the typing task of the channel run?
  answered,   \* discord: messages whose processing is over
  faults,     \* calls and connections that failed
  crashes,    \* how often the daemon has stopped
  excused,    \* history: messages the outside made unreachable, see below
  forgotten,  \* history: how often the key of a message was forgotten
  mute        \* history: discord: messages whose reply cannot end the typing

platformVars == <<mode, posted, pending>>
linkVars == <<link, cursor, unconfirmed, inbox>>
replyVars == <<typing, answered, mute>>
boundVars == <<faults, crashes>>
vars == <<platformVars, linkVars, step, recent, copies, replyVars, boundVars,
          excused, forgotten>>

Kinds == {"message", "app_mention"}
Steps == {Idle, "received", "new", "admitted", "ready", "enqueued"}

TypeOK ==
  /\ mode \in Modes
  /\ posted \in 0 .. N
  /\ pending \in SUBSET (Msgs \X Kinds)
  /\ link \in {"down", "up", "resuming"}
  /\ cursor \in Msgs \cup {Unset, 0}
  /\ unconfirmed \in SUBSET Msgs
  /\ inbox \in SUBSET Msgs
  /\ step \in [Msgs -> Steps]
  /\ recent \in SUBSET Msgs
  /\ copies \in [Msgs -> Nat]
  /\ typing \in BOOLEAN
  /\ answered \in SUBSET Msgs
  /\ faults \in 0 .. MaxFaults
  /\ crashes \in 0 .. MaxCrashes
  /\ excused \in SUBSET Msgs
  /\ forgotten \in [Msgs -> Nat]
  /\ mute \in SUBSET Msgs

\* run: the mode is decided once, by the tokens in the configuration.
Init ==
  /\ mode \in Modes
  /\ posted = 0
  /\ pending = {}
  /\ link = "down" /\ cursor = Unset /\ unconfirmed = {} /\ inbox = {}
  /\ step = [m \in Msgs |-> Idle]
  /\ recent = {}
  /\ copies = [m \in Msgs |-> 0]
  /\ typing = FALSE /\ answered = {} /\ mute = {}
  /\ faults = 0 /\ crashes = 0
  /\ excused = {}
  /\ forgotten = [m \in Msgs |-> 0]

Goto(m, next) == step' = [step EXCEPT ![m] = next]

Fault ==
  /\ faults < MaxFaults
  /\ faults' = faults + 1
  /\ UNCHANGED crashes

\* The loop of the connector awaits the handler before it goes on.
HandlerFree == \A m \in Msgs : step[m] = Idle

Slack == mode \in {"socket", "poll"}

-----------------------------------------------------------------------------
(* The platform.                                                           *)

\* A Discord event is for the sessions that exist.
Unheard == mode = "discord" /\ link = "down"

Events(m) ==
  IF mode = "poll" \/ Unheard THEN {}
  ELSE IF mode = "socket" /\ m \in Mentions THEN {m} \X Kinds
  ELSE {<<m, "message">>}

Post ==
  LET m == posted + 1
  IN  /\ posted < N
      /\ posted' = m
      /\ pending' = pending \cup Events(m)
      /\ excused' = IF Unheard THEN excused \cup {m} ELSE excused
      /\ UNCHANGED <<mode, linkVars, step, recent, copies, replyVars, boundVars,
                     forgotten>>

\* Slack gives up redelivering, a Discord session cannot be resumed.
PlatformGivesUp(e) ==
  /\ e \in pending /\ link # "up" /\ mode \in {"socket", "discord"}
  /\ Fault
  /\ pending' = pending \ {e}
  /\ excused' = excused \cup {e[1]}
  /\ UNCHANGED <<mode, posted, linkVars, step, recent, copies, replyVars,
                 forgotten>>

-----------------------------------------------------------------------------
(* Connections.  A connect that fails is tried again, for ever.            *)

Connected ==
  /\ link' = "up"
  /\ UNCHANGED <<platformVars, cursor, unconfirmed, inbox, step, recent, copies,
                 replyVars, boundVars, excused, forgotten>>

\* listen_socket_mode: apps.connections.open, then connect_async.
OpenSocket == mode = "socket" /\ link = "down" /\ Connected

\* polling_loop: list_accessible_channels.
DiscoverChannels == mode = "poll" /\ link = "down" /\ Connected

StartRepl == mode = "telegram" /\ link = "down" /\ Connected

\* Mutant: a session that broke is not resumed.
OpenOneSession == mode = "discord" /\ link = "down" /\ Connected

\* client.start: a session that broke is resumed.
OpenSession == mode = "discord" /\ link # "up" /\ Connected

\* A disconnect event, a close, a failed read, pong or acknowledgement: the
\* envelope that was being acknowledged is not handled.
SocketCloses ==
  /\ mode = "socket" /\ link = "up" /\ HandlerFree
  /\ Fault
  /\ link' = "down"
  /\ UNCHANGED <<platformVars, cursor, unconfirmed, inbox, step, recent, copies,
                 replyVars, excused, forgotten>>

SessionBreaks ==
  /\ mode = "discord" /\ link = "up"
  /\ Fault
  /\ link' = "resuming"
  /\ UNCHANGED <<platformVars, cursor, unconfirmed, inbox, step, recent, copies,
                 replyVars, excused, forgotten>>

-----------------------------------------------------------------------------
(* Taking a message from the platform.                                     *)

\* listen_socket_mode: the envelope is acknowledged, then handled.
ReceiveEnvelope(e) ==
  /\ mode = "socket" /\ link = "up" /\ HandlerFree
  /\ e \in pending
  /\ pending' = pending \ {e}
  /\ Goto(e[1], "received")
  /\ UNCHANGED <<mode, posted, linkVars, recent, copies, replyVars, boundVars,
                 excused, forgotten>>

\* The acknowledgement was sent but does not arrive: the event is handled, and
\* Slack will deliver it again.
LoseAck(e) ==
  /\ mode = "socket" /\ link = "up" /\ HandlerFree
  /\ e \in pending
  /\ Fault
  /\ Goto(e[1], "received")
  /\ UNCHANGED <<platformVars, linkVars, recent, copies, replyVars, excused,
                 forgotten>>

\* EventHandler::message: the client runs one handler per event.
Dispatch(e) ==
  /\ mode = "discord" /\ link = "up"
  /\ e \in pending
  /\ pending' = pending \ {e}
  /\ Goto(e[1], "new")
  /\ UNCHANGED <<mode, posted, linkVars, recent, copies, replyVars, boundVars,
                 excused, forgotten>>

\* teloxide::repl fetches updates while the handler works on earlier ones; the
\* offset of the call confirms the updates of the one before.
GetUpdates ==
  LET kept == {e \in pending : e[1] \notin unconfirmed}
      new == {e[1] : e \in kept}
  IN  /\ mode = "telegram" /\ link = "up"
      /\ pending' = kept
      /\ unconfirmed' = new
      /\ inbox' = inbox \cup new
      /\ UNCHANGED <<mode, posted, link, cursor, step, recent, copies,
                     replyVars, boundVars, excused, forgotten>>

\* latest_seen.
LatestSeen(page) ==
  IF page = {} THEN cursor ELSE CHOOSE m \in page : \A n \in page : n <= m

\* A page holds the newest messages after the cursor.
Page(new) == {m \in new : Cardinality({n \in new : n > m}) < PageSize}

\* fetch_history without a cursor asks for what is newer than now.
FirstFetch ==
  /\ mode = "poll" /\ link = "up" /\ cursor = Unset
  /\ cursor' = posted
  /\ excused' = excused \cup 1 .. posted
  /\ UNCHANGED <<platformVars, link, unconfirmed, inbox, step, recent, copies,
                 replyVars, boundVars, forgotten>>

\* The loop over the page ends before the cursor is stored and used again, so
\* it may as well be stored here.  A failed fetch changes nothing.
FetchHistory ==
  LET new == {m \in Msgs : cursor < m /\ m <= posted}
  IN  /\ mode = "poll" /\ link = "up" /\ cursor # Unset
      /\ inbox = {} /\ HandlerFree
      /\ new # {}
      /\ inbox' = Page(new)
      /\ cursor' = LatestSeen(Page(new))
      /\ excused' = excused \cup (new \ Page(new))
      /\ UNCHANGED <<platformVars, link, unconfirmed, step, recent, copies,
                     replyVars, boundVars, forgotten>>

\* Oldest first: messages.iter().rev(), and the updates of one chat.
TakeNext(m) ==
  /\ HandlerFree
  /\ m \in inbox /\ \A n \in inbox : m <= n
  /\ inbox' = inbox \ {m}
  /\ Goto(m, "received")
  /\ UNCHANGED <<platformVars, link, cursor, unconfirmed, recent, copies,
                 replyVars, boundVars, excused, forgotten>>

-----------------------------------------------------------------------------
(* Handling a message.                                                     *)

\* Mutant: the key of an event is not compared.
DedupNothing(m) ==
  /\ Slack /\ step[m] = "received"
  /\ recent' = recent \cup {m}
  /\ Goto(m, "new")
  /\ UNCHANGED <<platformVars, linkVars, copies, replyVars, boundVars, excused,
                 forgotten>>

\* Mutant: the key of an event is its channel.
DedupByChannel(m) ==
  /\ Slack /\ step[m] = "received"
  /\ recent' = recent \cup {m}
  /\ Goto(m, IF recent # {} THEN Idle ELSE "new")
  /\ UNCHANGED <<platformVars, linkVars, copies, replyVars, boundVars, excused,
                 forgotten>>

\* SlackIngressDeduper::should_drop, with the key channel:ts.
Dedup(m) ==
  /\ Slack /\ step[m] = "received"
  /\ recent' = recent \cup {m}
  /\ Goto(m, IF m \in recent THEN Idle ELSE "new")
  /\ UNCHANGED <<platformVars, linkVars, copies, replyVars, boundVars, excused,
                 forgotten>>

\* telegram downloads the attachments before it asks the gate.
DownloadFirst(m) ==
  /\ mode = "telegram" /\ step[m] = "received"
  /\ Goto(m, "new")
  /\ UNCHANGED <<platformVars, linkVars, recent, copies, replyVars, boundVars,
                 excused, forgotten>>

Gate(m) ==
  /\ step[m] = "new"
  /\ Goto(m, IF m \notin Allowed THEN Idle
             ELSE IF mode = "telegram" THEN "ready" ELSE "admitted")
  /\ UNCHANGED <<platformVars, linkVars, recent, copies, replyVars, boundVars,
                 excused, forgotten>>

Download(m) ==
  /\ step[m] = "admitted"
  /\ Goto(m, "ready")
  /\ UNCHANGED <<platformVars, linkVars, recent, copies, replyVars, boundVars,
                 excused, forgotten>>

\* enqueue_message writes a file with a name of its own, whatever is there.
Enqueue(m) ==
  /\ step[m] = "ready"
  /\ copies' = [copies EXCEPT ![m] = @ + 1]
  /\ Goto(m, IF mode = "discord" THEN "enqueued" ELSE Idle)
  /\ UNCHANGED <<platformVars, linkVars, recent, replyVars, boundVars, excused,
                 forgotten>>

\* The state file cannot be read, a download or the enqueue fails: the error is
\* logged, and the message counts as handled.
HandlerFails(m) ==
  /\ \/ step[m] \in {"new", "ready"}
     \/ m \in Attached /\ step[m] = "admitted"
     \/ mode = "telegram" /\ step[m] = "received"
  /\ Fault
  /\ Goto(m, Idle)
  /\ excused' = excused \cup {m}
  /\ UNCHANGED <<platformVars, linkVars, recent, copies, replyVars, forgotten>>

\* 300 s after a key was recorded: seen.retain.
WindowPasses(m) ==
  /\ Slack /\ m \in recent
  /\ recent' = recent \ {m}
  /\ forgotten' = [forgotten EXCEPT ![m] = @ + 1]
  /\ UNCHANGED <<platformVars, linkVars, step, copies, replyVars, boundVars,
                 excused>>

-----------------------------------------------------------------------------
(* Discord's typing indicator.  The rest of the daemon answers a message   *)
(* when it finds its file, whether the handler is done or not.             *)

\* DiscordLiveState::start_typing replaces the task of the channel.
StartTyping(m) ==
  /\ step[m] = "enqueued"
  /\ Goto(m, Idle)
  /\ typing' = TRUE
  /\ UNCHANGED <<platformVars, linkVars, recent, copies, answered, mute,
                 boundVars, excused, forgotten>>

Answerable(m) == mode = "discord" /\ copies[m] > 0 /\ m \notin answered

\* Mutant: stop_typing is not called.
ReplyInSilence(m) ==
  /\ Answerable(m)
  /\ answered' = answered \cup {m}
  /\ mute' = {n \in mute \cup {m} : step[n] = "enqueued"}
  /\ UNCHANGED <<platformVars, linkVars, step, recent, copies, typing,
                 boundVars, excused, forgotten>>

\* outgoing_loop: a reply that was sent stops the task of its channel.  A reply
\* that is faster than its own start_typing does not stop what that starts.
Reply(m) ==
  /\ Answerable(m)
  /\ answered' = answered \cup {m}
  /\ typing' = FALSE
  /\ mute' = {n \in mute \cup {m} : step[n] = "enqueued"}
  /\ UNCHANGED <<platformVars, linkVars, step, recent, copies, boundVars,
                 excused, forgotten>>

\* The message is dead-lettered, its reply is refused for ever or left out.
NoReply(m) ==
  /\ Answerable(m)
  /\ Fault
  /\ answered' = answered \cup {m}
  /\ mute' = mute \cup {m}
  /\ UNCHANGED <<platformVars, linkVars, step, recent, copies, typing, excused,
                 forgotten>>

-----------------------------------------------------------------------------
\* run_daemon ends: everything in memory goes, and Discord's session with it.
\* Telegram offers again what was not confirmed.
Crash ==
  LET held == {m \in Msgs : m \in inbox \/ step[m] \notin {Idle, "enqueued"}}
      offered == {e[1] : e \in pending}
  IN  /\ crashes < MaxCrashes
      /\ crashes' = crashes + 1
      /\ link' = "down" /\ cursor' = Unset /\ unconfirmed' = {} /\ inbox' = {}
      /\ step' = [m \in Msgs |-> Idle]
      /\ recent' = {}
      /\ typing' = FALSE /\ mute' = {}
      /\ forgotten' = [m \in Msgs |-> forgotten[m] + 1]
      /\ IF mode = "discord"
         THEN /\ pending' = {}
              /\ excused' = excused \cup held \cup offered
         ELSE /\ excused' = excused \cup (held \ offered)
              /\ UNCHANGED pending
      /\ UNCHANGED <<mode, posted, copies, answered, faults>>

Connect == OpenSocket \/ DiscoverChannels \/ StartRepl \/ OpenSession

Handle(m) ==
  \/ Dedup(m) \/ DownloadFirst(m) \/ Gate(m) \/ Download(m)
  \/ Enqueue(m) \/ StartTyping(m)

Next ==
  \/ Post
  \/ \E e \in pending : \/ PlatformGivesUp(e)
                       \/ ReceiveEnvelope(e) \/ LoseAck(e)
                       \/ Dispatch(e)
  \/ Connect \/ SocketCloses \/ SessionBreaks
  \/ GetUpdates \/ FirstFetch \/ FetchHistory
  \/ \E m \in Msgs : \/ TakeNext(m) \/ Handle(m) \/ HandlerFails(m)
                    \/ WindowPasses(m)
                    \/ Reply(m) \/ NoReply(m)
  \/ Crash

Spec == Init /\ [][Next]_vars

\* The loops of the connectors go on, a platform that is asked again answers
\* in the end (each reconnect is tried for ever), and a handler ends.
Fairness ==
  /\ WF_vars(Connect)
  /\ WF_vars(GetUpdates) /\ WF_vars(FirstFetch) /\ WF_vars(FetchHistory)
  /\ \A m \in Msgs :
       /\ WF_vars(\E k \in Kinds : ReceiveEnvelope(<<m, k>>) \/ Dispatch(<<m, k>>))
       /\ WF_vars(TakeNext(m)) /\ WF_vars(Handle(m))

FairSpec == Spec /\ Fairness

-----------------------------------------------------------------------------
\* A message of an allowed sender is missed only for a reason: the handler
\* failed on it, the daemon stopped with it in hand or was down, Slack or the
\* gateway gave up, it was posted before the first cursor, or a page was too
\* small for the burst it was posted in.  Until then it is on its way.
OnItsWay(m) ==
  \/ \E k \in Kinds : <<m, k>> \in pending
  \/ m \in inbox \/ step[m] # Idle
  \/ mode = "poll" /\ cursor < m

MissedHasCause ==
  \A m \in Allowed : m <= posted /\ copies[m] = 0 /\ ~OnItsWay(m)
                       => m \in excused

\* A message becomes two files in queue/incoming only if the process forgot it
\* in between: the window of the deduper passed, or the daemon stopped.  Two
\* events of one mention, or a redelivered envelope, do not.
CopiesHaveCause == \A m \in Msgs : copies[m] <= 1 + forgotten[m]

\* The typing indicator of a channel runs only while a message of it is being
\* worked on, unless a message got no reply or one that came too early.
TypingHasCause ==
  typing => mute # {} \/ \E m \in Msgs : copies[m] > 0 /\ m \notin answered

\* Every message of an allowed sender becomes a file, or is excused.
EveryMessageArrives ==
  \A m \in Allowed : m <= posted ~> copies[m] > 0 \/ m \in excused

=============================================================================
