---------------------------- MODULE Conversation ----------------------------
(***************************************************************************)
(* Which agent answers a message, and the messages its answer causes:      *)
(* process_claimed_file (crates/queue/src/lib.rs) with the routing crate.  *)
(*                                                                         *)
(* An action is the part of process_claimed_file between two of its awaits *)
(* that other tasks can observe.  Files, claims, permits and backoff are   *)
(* in QueueProcessor: here a message is in `open` from its enqueue until   *)
(* it is acknowledged or dead-lettered.  There is one team.  A crash       *)
(* repeats an attempt, as Fail does.  Calls of the store may fail; what an *)
(* instance of it can take back from another one is in StateStore.         *)
(***************************************************************************)
EXTENDS Integers, Bags, SequencesExt

CONSTANTS
  Agents,         \* ids in config.agents
  Default,        \* "default", which need not be the id of an agent
  Fallback,       \* default_agent_id: that agent, or else the first of a HashMap
  Members,        \* team.agents of the team
  Leader,         \* team.leader_agent
  Team,           \* a mention of the team
  Senders,        \* peers on external channels
  None,
  Bindings,       \* config.bindings, in order
  MaxChainSteps,  \* chain.max_chain_steps
  MaxRetries,     \* queue.max_retries
  MaxEvents,      \* bound: messages of senders and posts
  MaxFailures,    \* bound: failures, of attempts and of calls of the store
  MaxOpen         \* bound: open messages up to which agents name teammates

\* A rule of config.bindings.
Rule == [fields : SUBSET {"channel", "account_id", "peer_id",
                           "group_id", "thread_id"},
         peers : SUBSET Senders,   \* senders that match each of the fields
         agent : Agents \cup {None}]   \* None: a deleted one, whose rules stay

ASSUME ConversationAssumption ==
  /\ Senders \cap Agents = {}   \* they are on different channels
  /\ Fallback \in Agents /\ (Default \in Agents => Fallback = Default)
  /\ Leader \in Members /\ Members \subseteq Agents
  /\ Team \notin Agents \cup {Default} /\ None \notin Agents \cup {Default, Team}
  /\ Bindings \in Seq(Rule)
  /\ {MaxChainSteps, MaxRetries, MaxEvents, MaxFailures, MaxOpen} \subseteq Nat

VARIABLES
  open,      \* bag of the messages in the queue
  affinity,  \* routing affinity of a sender in the state store
  chosen,    \* history: the agent a sender last chose, or was sent on to, in
             \* a message that was routed while the store could note it; Team
             \* once mentions of the sender raced with each other
  sent,      \* history: messages the senders sent
  posts,     \* history: chat-room posts
  failures   \* history: failed attempts, and failed calls of the store

talkVars == <<open, affinity, chosen, sent, posts, failures>>
counters == <<sent, posts, failures>>

Message ==
  [sender  : Senders \cup Agents,              \* a room post's is its author
   room    : BOOLEAN,                          \* channel "chatroom"
   mention : Agents \cup {Team, None},         \* @id at the start of the text
   forced  : Agents \cup {None},               \* pre_routed_agent
   from    : Agents \cup {None},               \* from_agent
   depth   : 0..MaxChainSteps,                 \* chain_depth
   tries   : 0..MaxRetries,                    \* retry_count
   step    : {"queued", "routed", "running", "relayed"},
   agent   : Agents \cup {None},               \* agent_id, once routed
   want    : Agents \cup {None},               \* history: see Send
   unread  : BOOLEAN]                          \* history: see RouteUnread

\* The state is well formed: chain_depth never exceeds max_chain_steps.
ConversationTypeOK ==
  /\ IsABag(open) /\ BagToSet(open) \subseteq Message
  /\ affinity \in [Senders -> Agents \cup {None}]
  /\ chosen \in [Senders -> Agents \cup {Team, None}]
  /\ {sent, posts} \subseteq 0..MaxEvents /\ failures \in 0..MaxFailures

ConversationInit ==
  /\ open = EmptyBag
  /\ affinity = [s \in Senders |-> None]
  /\ chosen = [s \in Senders |-> None]
  /\ sent = 0 /\ posts = 0 /\ failures = 0

Replaced(m, n) == (open (-) SetToBag({m})) (+) SetToBag({n})
Without(m) == open (-) SetToBag({m})

-----------------------------------------------------------------------------
(* Routing.                                                                *)

Worth(rule, field, points) == IF field \in rule.fields THEN points ELSE 0

\* binding_match_score: the sum over the fields a rule names.
Score(rule) ==
  Worth(rule, "channel", 1) + Worth(rule, "account_id", 1)
  + Worth(rule, "peer_id", 3) + Worth(rule, "group_id", 2)
  + Worth(rule, "thread_id", 2)

\* Is rule i better than the best one up to here, if there is one?
Better(s, i, best) ==
  /\ s \in Bindings[i].peers
  /\ best = 0 \/ Score(Bindings[i]) > Score(Bindings[best])

\* The loop over the rules: the best one of the first i, or 0.
BestUpTo(s) ==
  LET best[i \in 0..Len(Bindings)] ==
        IF i = 0 THEN 0
        ELSE IF Better(s, i, best[i - 1]) THEN i ELSE best[i - 1]
  IN  best

\* resolve_binding.
ResolveBinding(s) ==
  LET best == BestUpTo(s)[Len(Bindings)]
  IN  IF best = 0 THEN Fallback ELSE Bindings[best].agent

\* What it amounts to: the first of the rules with the highest score.
BestBinding(s) ==
  LET matching == {i \in DOMAIN Bindings : s \in Bindings[i].peers}
      top == {i \in matching : \A j \in matching :
                Score(Bindings[j]) <= Score(Bindings[i])}
  IN  IF top = {} THEN Fallback ELSE Bindings[Min(top)].agent

\* parse_agent_routing: what the text names; "default" when it names nobody.
Named(m) == IF m.mention = Team THEN Leader
            ELSE IF m.mention = None THEN Default ELSE m.mention

\* was_explicit_mention: a mention of the default agent does not count.
Explicit(m) == Named(m) # Default

\* A route to an agent that is not configured falls back to the default one.
Configured(a) == IF a \in Agents THEN a ELSE Fallback

\* Is the sender's affinity read, or written?
Asks(m) == ~m.room /\ ~Explicit(m)
Chooses(m) == ~m.room /\ Explicit(m)

\* Bindings, then the address of an internal message.
RouteFrom(m, first) ==
  IF m.forced # None THEN m.forced
  ELSE IF first = Default THEN Configured(ResolveBinding(m.sender))
  ELSE first

\* Affinity comes before both.
RouteOf(m) ==
  RouteFrom(m, IF Asks(m) /\ affinity[m.sender] # None
               THEN affinity[m.sender] ELSE Named(m))

\* is_valid_teammate.
Teammates(m) == Members \ {m.agent, m.from}

\* team_id: of the room, of the mentioned team, of the agent.
HasTeam(m) == m.room \/ (m.mention = Team /\ m.forced = None)
              \/ m.agent \in Members

-----------------------------------------------------------------------------
(* Actions.                                                                *)

Events == sent + posts

Quiet(s) == \A m \in BagToSet(open) : m.sender # s

\* Messages of s that are not routed yet when s sends another one.
Overtaken(s) ==
  {m \in BagToSet(open) : m.sender = s /\ m.step = "queued" /\ m.want # None}

\* A connector enqueues a message.  If nothing of the sender is open, `want`
\* records who ought to answer it, until the sender sends another message.
Send(s, mention) ==
  LET m == [sender |-> s, room |-> FALSE, mention |-> mention, forced |-> None,
            from |-> None, depth |-> 0, tries |-> 0, step |-> "queued",
            agent |-> None, want |-> None, unread |-> FALSE]
      now == IF ~Explicit(m) THEN chosen[s]
             ELSE IF Quiet(s) THEN Named(m) ELSE Team
      want == IF ~Quiet(s) \/ now = Team THEN None
              ELSE IF now \in {None, Default} THEN Configured(BestBinding(s))
              ELSE now
  IN  /\ Events < MaxEvents
      /\ open' = (open (-) SetToBag(Overtaken(s)))
                  (+) SetToBag({[n EXCEPT !.want = None] : n \in Overtaken(s)})
                  (+) SetToBag({[m EXCEPT !.want = want]})
      /\ chosen' = [chosen EXCEPT ![s] = now]
      /\ sent' = sent + 1
      /\ UNCHANGED <<affinity, posts, failures>>

\* Mutant: whoever a message is routed to becomes the sender's agent.
RememberAlways(m, agent) ==
  affinity' = IF m.room THEN affinity
              ELSE [affinity EXCEPT ![m.sender] = agent]

\* set_routing_affinity after an explicit mention on an external channel.
Remember(m, agent) ==
  affinity' = IF Chooses(m) THEN [affinity EXCEPT ![m.sender] = agent]
              ELSE affinity

Routed(m, agent) == [m EXCEPT !.step = "routed", !.agent = agent]

\* The choice of a mention that is retried counts again.
Route(m) ==
  /\ m.step = "queued"
  /\ open' = Replaced(m, Routed(m, RouteOf(m)))
  /\ Remember(m, RouteOf(m))
  /\ chosen' = IF m.tries > 0 /\ Chooses(m) /\ chosen[m.sender] # Team
               THEN [chosen EXCEPT ![m.sender] = Named(m)] ELSE chosen
  /\ UNCHANGED counters

\* get_routing_affinity fails, and nobody is told.
RouteUnread(m) ==
  /\ m.step = "queued" /\ Asks(m) /\ failures < MaxFailures
  /\ open' = Replaced(m, [Routed(m, RouteFrom(m, Named(m))) EXCEPT !.unread = TRUE])
  /\ failures' = failures + 1
  /\ UNCHANGED <<affinity, chosen, sent, posts>>

\* The choice of m does not take: the sender's agent stays who it was.
Undone(m) ==
  IF Chooses(m) /\ chosen[m.sender] # Team
  THEN [chosen EXCEPT ![m.sender] = affinity[m.sender]] ELSE chosen

\* set_routing_affinity fails with a warning.
RouteUnnoted(m) ==
  /\ m.step = "queued" /\ Chooses(m) /\ failures < MaxFailures
  /\ open' = Replaced(m, Routed(m, RouteOf(m)))
  /\ chosen' = Undone(m)
  /\ failures' = failures + 1
  /\ UNCHANGED <<affinity, sent, posts>>

\* agent_lock: one run per agent at a time.
Start(m) ==
  /\ m.step = "routed"
  /\ \A n \in BagToSet(open) :
       n.step \in {"running", "relayed"} => n.agent # m.agent
  /\ open' = Replaced(m, [m EXCEPT !.step = "running"])
  /\ UNCHANGED <<affinity, chosen, counters>>

\* Mutant: a handoff keeps the depth of the message it answers.
SameDepth(m) == m.depth

NextDepth(m) == m.depth + 1

MayHandOff(m) == HasTeam(m) /\ NextDepth(m) <= MaxChainSteps

Internal(m, to) ==
  [m EXCEPT !.mention = None, !.forced = to, !.from = m.agent, !.tries = 0,
            !.step = "queued", !.agent = None, !.want = None, !.unread = FALSE]

\* extract_teammate_mentions: one message per teammate the answer names.
Handoffs(m, names) ==
  {[Internal(m, to) EXCEPT !.depth = NextDepth(m)] : to \in names}

\* enqueue_chatroom_message: the author is the sender, at depth 0.
Posted(m, to) ==
  [Internal(m, to) EXCEPT !.sender = m.agent, !.room = TRUE, !.depth = 0]

\* post_chatroom_messages: every other member gets the post.
RoomPost(m) == {Posted(m, to) : to \in Members \ {m.agent}}

\* extract_chatroom_posts: a member may post, or not.
Posts(m) == IF m.agent \in Members THEN BOOLEAN ELSE {FALSE}

\* extract_route_to, which counts only on external channels.
SentOnTo(m) == IF m.room THEN {None} ELSE Agents \cup {None}

\* The run returned a text: its posts and its handoffs are enqueued.
Relay(m) ==
  /\ m.step = "running"
  /\ \E names \in SUBSET Teammates(m), post \in Posts(m) :
       /\ names # {} => MayHandOff(m)
       /\ post => Events < MaxEvents
       /\ names # {} \/ post => BagCardinality(open) < MaxOpen
       /\ open' = Replaced(m, [m EXCEPT !.step = "relayed"])
                  (+) SetToBag(Handoffs(m, names))
                  (+) SetToBag(IF post THEN RoomPost(m) ELSE {})
       /\ posts' = IF post THEN posts + 1 ELSE posts
  /\ UNCHANGED <<affinity, chosen, sent, failures>>

\* A mention of the sender is not routed yet.
Pending(s) == \E m \in BagToSet(open) :
  m.sender = s /\ ~m.room /\ m.step = "queued" /\ Explicit(m)

\* [route_to: ...], the reply to the sender, and the acknowledgement.  If the
\* store fails to note the agent, which is logged, it is as if none were named.
Answer(m) ==
  /\ m.step = "relayed"
  /\ open' = Without(m)
  /\ \E to \in SentOnTo(m) :
       IF to = None THEN UNCHANGED <<affinity, chosen>>
       ELSE /\ affinity' = [affinity EXCEPT ![m.sender] = to]
            /\ chosen' = [chosen EXCEPT ![m.sender] =
                           IF @ = Team \/ Pending(m.sender) THEN Team ELSE to]
  /\ UNCHANGED counters

\* A step of the handler fails: before the route is known (the envelope, a hook),
\* before the run (workspace, sessions), in it or after it.  What was enqueued
\* stays enqueued, and a mention that was not routed is not remembered.
Fail(m) ==
  /\ failures < MaxFailures
  /\ open' = IF m.tries >= MaxRetries THEN Without(m)
             ELSE Replaced(m, [m EXCEPT !.tries = @ + 1, !.step = "queued",
                                      !.agent = None, !.unread = FALSE])
  /\ chosen' = IF m.step = "queued" THEN Undone(m) ELSE chosen
  /\ failures' = failures + 1
  /\ UNCHANGED <<affinity, sent, posts>>

Process(m) ==
  \/ Route(m) \/ RouteUnread(m) \/ RouteUnnoted(m)
  \/ Start(m) \/ Relay(m) \/ Answer(m)

ConversationNext ==
  \/ \E s \in Senders, mention \in Agents \cup {Team, None} : Send(s, mention)
  \/ \E m \in BagToSet(open) : Process(m) \/ Fail(m)

ConversationSpec == ConversationInit /\ [][ConversationNext]_talkVars

\* Tokio keeps polling the tasks and runs return; nobody has to write or fail.
FairConversationSpec ==
  ConversationSpec /\ WF_talkVars(\E m \in BagToSet(open) : Process(m))

-----------------------------------------------------------------------------
(* Properties.                                                             *)

\* The right agent answers.  A handoff or a post is run by the agent it is
\* addressed to and a mention other than of the default agent by the agent it
\* names, whatever affinity the sender has meanwhile.  A message sent and routed
\* while nothing else of the sender is open is run, at its first attempt and
\* unless the store failed to tell the sender's agent, by the agent the sender
\* chose last or was sent on to, else by the best binding: the handoffs and posts
\* of earlier conversations never move the sender.  A choice counts from the
\* routing of its message on, if the store notes it; that of a mention that is
\* retried counts again (queue/src/lib.rs:322-372).
RightAgentRuns ==
  \A m \in BagToSet(open) : m.step # "queued" =>
    /\ m.forced # None => m.agent = m.forced
    /\ m.forced = None /\ Explicit(m) => m.agent = Named(m)
    /\ m.want # None /\ m.tries = 0 => m.agent = m.want \/ m.unread

\* Every conversation ends once the senders and the room are silent.
ConversationsEnd == <>[](open = EmptyBag)

-----------------------------------------------------------------------------
(* The inductive invariant.                                                *)

\* Posts have agents as senders, and an address.  What has one names nobody.
\* What is routed has an agent.
AddressInv == \A m \in BagToSet(open) :
  /\ m.room <=> m.sender \in Agents
  /\ m.room => m.forced # None
  /\ m.forced # None => m.mention = None
  /\ m.step # "queued" => m.agent \in Agents

\* A message that somebody in particular ought to answer is the only one of its
\* sender until it is routed, and would be routed there.
Single(m) ==
  open[m] = 1 /\ \A n \in BagToSet(open) : n.sender = m.sender => n = m

WantInv == \A m \in BagToSet(open) :
  m.step = "queued" /\ m.want # None /\ m.tries = 0 =>
    m.forced = None /\ Single(m) /\ RouteOf(m) = m.want

\* Mentions that s wrote, and those of them that were never routed.
Mentions(s) ==
  {m \in BagToSet(open) : m.sender = s /\ ~m.room /\ Explicit(m)}
Fresh(s) == {m \in Mentions(s) : m.step = "queued" /\ m.tries = 0}

\* While the mentions of a sender did not race, there is one at most: it names
\* the agent the sender chose, who is the sender's agent once it was routed.
ChosenInv == \A s \in Senders : chosen[s] # Team =>
  /\ \A m, n \in Mentions(s) : m = n /\ open[m] = 1
  /\ \A m \in Fresh(s) : chosen[s] = Named(m)
  /\ Fresh(s) = {} => chosen[s] = affinity[s]

ConversationInv ==
  /\ ConversationTypeOK /\ AddressInv /\ WantInv /\ ChosenInv
  /\ RightAgentRuns
=============================================================================
