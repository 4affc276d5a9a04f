---------------------------- MODULE AgentMemory ----------------------------
(***************************************************************************)
(* The workspace of one agent: its sessions, which a reset removes, and    *)
(* memory/daily.md, which consolidations extend                            *)
(* (crates/agent/src/lib.rs, crates/agent/src/consolidation.rs).           *)
(*                                                                         *)
(* A queue turn (crates/queue/src/lib.rs) looks for a reset and links the  *)
(* session's directory, then waits for the agent's lock, runs the CLI in   *)
(* the directory, and releases the lock after it has spawned the           *)
(* consolidation of its answer: consolidations run beside later turns and  *)
(* beside each other.  Heartbeat runs (crates/heartbeat/src/lib.rs) and    *)
(* resets (crates/server/src/lib.rs, crates/runtime/src/main.rs) take no   *)
(* lock.                                                                   *)
(*                                                                         *)
(* All turns belong to one session.  An entry of daily.md is identified    *)
(* with the turn it came from; FactOf is what the turn had to say.  The    *)
(* agent CLI continues the conversation it had in a directory if it is     *)
(* asked to, and extracts facts it is not told are known.                  *)
(***************************************************************************)
EXTENDS Integers, Sequences, FiniteSets

CONSTANTS
  Turns,       \* queue turns of the session
  Facts,       \* what can be remembered
  FactOf,      \* the fact a turn contains
  Nobody,      \* the holder of a free lock
  Headed,      \* turns whose entry is all headings or frontmatter to the prompt
  KnownCap,    \* entries that fit MAX_EXISTING_MEMORY_CHARS
  MaxTroubles  \* bound: heartbeat runs, resets, stops of the daemon, failures

ASSUME MemoryAssumption ==
  /\ FactOf \in [Turns -> Facts]
  /\ Nobody \notin Turns
  /\ Headed \subseteq Turns
  /\ {KnownCap, MaxTroubles} \subseteq Nat

VARIABLES
  lock,         \* the turn that holds the agent's lock
  turn,         \* where a turn, then its consolidation, stands
  session,      \* does the state store know the session?
  dir,          \* does the session's directory exist, memory linked into it?
  flag,         \* does .clawpod/reset.flag exist?
  todo,         \* steps that the reset in progress has still to take
  fresh,        \* does the run in progress start a conversation?
  daily,        \* entries of daily.md
  known,        \* entries that a consolidation has put into its prompt
  base,         \* entries that a consolidation has read before its write
  troubles,     \* heartbeat runs, resets, stops and failures so far
  stale,        \* history: is the CLI's conversation older than the last reset?
  early,        \* history: turns that looked for a reset before the last ended
  doubt,        \* history: why the store knows the session since
  written,      \* history: turns whose append returned
  overlapped,   \* history: did two appends overlap?
  raced,        \* history: did a consolidation start beside a pending one?
  uninformed,   \* history: did a prompt go without the memory there is?
  unlinked,     \* history: did an append miss the directory?
  interrupted   \* history: did a stop, or an error, cut a write short?

sessionVars == <<session, dir, flag, todo, fresh, stale, early, doubt>>
contentVars == <<daily, known, base>>
historyVars == <<written, overlapped, raced, uninformed, unlinked, interrupted>>
vars == <<lock, turn, sessionVars, contentVars, troubles, historyVars>>

Steps == {"idle", "clearing", "cleared", "prepared", "running", "spawned",
          "asking", "read", "truncated", "ended"}
Waiting == {"cleared", "prepared"}
Appending == {"read", "truncated"}
Pending == {"asking", "read", "truncated"}

\* What a reset has still to do: the server clears the store first, a command
\* last.
Todos == {<<"clear", "remove", "flag">>, <<"remove", "flag">>, <<"flag">>,
          <<"remove", "flag", "clear">>, <<"flag", "clear">>, <<"clear">>, <<>>}

\* Types, and that the lock belongs to the turn that runs.
TypeOK ==
  /\ lock \in Turns \cup {Nobody}
  /\ turn \in [Turns -> Steps]
  /\ \A t \in Turns : turn[t] = "running" <=> lock = t
  /\ {session, dir, flag, fresh, stale} \subseteq BOOLEAN
  /\ todo \in Todos
  /\ early \subseteq Turns /\ doubt \subseteq {"failed", "beat", "kept"}
  /\ daily \in Seq(Turns)
  /\ known \in [Turns -> SUBSET Turns]
  /\ base \in [Turns -> Seq(Turns)]
  /\ troubles \in 0 .. MaxTroubles
  /\ written \subseteq Turns
  /\ {overlapped, raced, uninformed, unlinked, interrupted} \subseteq BOOLEAN

Init ==
  /\ lock = Nobody
  /\ turn = [t \in Turns |-> "idle"]
  /\ session = FALSE /\ dir = FALSE /\ flag = FALSE /\ todo = <<>> /\ fresh = FALSE
  /\ daily = <<>>
  /\ known = [t \in Turns |-> {}]
  /\ base = [t \in Turns |-> <<>>]
  /\ troubles = 0
  /\ stale = FALSE /\ early = {} /\ doubt = {}
  /\ written = {}
  /\ overlapped = FALSE /\ raced = FALSE /\ uninformed = FALSE
  /\ unlinked = FALSE /\ interrupted = FALSE

Entries(file) == {file[i] : i \in DOMAIN file}

At(steps) == {t \in Turns : turn[t] \in steps}

\* Something happens that is not for ever.
Trouble == troubles < MaxTroubles /\ troubles' = troubles + 1

-----------------------------------------------------------------------------
(* Runs.                                                                   *)

\* clear_reset_flag: the turn that removes the flag clears the sessions next.
LookForReset(t) ==
  /\ turn[t] = "idle"
  /\ turn' = [turn EXCEPT ![t] = IF flag THEN "clearing" ELSE "cleared"]
  /\ flag' = FALSE
  /\ UNCHANGED <<lock, session, dir, todo, fresh, stale, early, doubt, contentVars,
                 troubles, historyVars>>

\* Mutant: the flag is removed and the sessions are kept.
ClearNoSession(t) ==
  /\ turn[t] = "clearing"
  /\ turn' = [turn EXCEPT ![t] = "cleared"]
  /\ UNCHANGED <<lock, sessionVars, contentVars, troubles, historyVars>>

\* clear_agent_sessions.
ClearSessions(t) ==
  /\ turn[t] = "clearing"
  /\ turn' = [turn EXCEPT ![t] = "cleared"]
  /\ session' = FALSE
  /\ doubt' = {}
  /\ UNCHANGED <<lock, dir, flag, todo, fresh, stale, early, contentVars, troubles,
                 historyVars>>

\* It fails: the flag is gone, and the sessions are there, unless only the write
\* of what the store has in memory failed.
ClearSessionsFails(t) ==
  /\ turn[t] = "clearing"
  /\ Trouble
  /\ \E next \in {"idle", "ended"} : turn' = [turn EXCEPT ![t] = next]
  /\ session' \in {session, FALSE}
  /\ doubt' = IF session' THEN doubt \cup {"kept"} ELSE {}
  /\ UNCHANGED <<lock, dir, flag, todo, fresh, stale, early, contentVars, historyVars>>

\* ensure_session_workspace, before the lock is taken.
Link(t) ==
  /\ turn[t] = "cleared"
  /\ turn' = [turn EXCEPT ![t] = "prepared"]
  /\ dir' = TRUE
  /\ UNCHANGED <<lock, session, flag, todo, fresh, stale, early, doubt, contentVars,
                 troubles, historyVars>>

\* A link fails, or the store does when the session is looked up or recorded; a
\* failed write may leave it in memory.
PrepareFails(t) ==
  /\ turn[t] = "cleared" \/ (turn[t] = "prepared" /\ lock = Nobody)
  /\ Trouble
  /\ \E next \in {"idle", "ended"} : turn' = [turn EXCEPT ![t] = next]
  /\ session' \in {session, session \/ turn[t] = "prepared"}
  /\ doubt' = IF session' = session THEN doubt ELSE doubt \cup {"failed"}
  /\ early' = early \ {t}
  /\ UNCHANGED <<lock, dir, flag, todo, fresh, stale, contentVars,
                 historyVars>>

\* session_exists decides whether the conversation is continued; then the
\* session is recorded and the CLI is spawned in the directory.
StartTurn(t) ==
  /\ turn[t] = "prepared" /\ lock = Nobody
  /\ dir
  /\ lock' = t
  /\ turn' = [turn EXCEPT ![t] = "running"]
  /\ fresh' = ~session
  /\ session' = TRUE
  /\ early' = early \ {t}
  /\ UNCHANGED <<dir, flag, todo, stale, doubt, contentVars, troubles, historyVars>>

\* A reset has removed the directory meanwhile: the spawn fails, after the
\* session was recorded.  The message is tried again, or buried.
SpawnFails(t) ==
  /\ turn[t] = "prepared" /\ lock = Nobody
  /\ ~dir
  /\ \E next \in {"idle", "ended"} : turn' = [turn EXCEPT ![t] = next]
  /\ session' = TRUE
  /\ doubt' = IF session THEN doubt ELSE doubt \cup {"failed"}
  /\ early' = early \ {t}
  /\ UNCHANGED <<lock, dir, flag, todo, fresh, stale, contentVars, troubles,
                 historyVars>>

\* process_claimed_file spawns the consolidation and returns, which drops the
\* lock.  A short message has no consolidation.
EndTurn(t) ==
  /\ turn[t] = "running"
  /\ lock' = Nobody
  /\ \E next \in {"spawned", "ended"} : turn' = [turn EXCEPT ![t] = next]
  /\ stale' = (stale /\ ~fresh) /\ fresh' = FALSE
  /\ UNCHANGED <<session, dir, flag, todo, early, doubt, contentVars, troubles,
                 historyVars>>

\* The run fails, before or after the CLI has made its conversation.
FailTurn(t) ==
  /\ turn[t] = "running"
  /\ Trouble
  /\ lock' = Nobody
  /\ \E next \in {"idle", "ended"} : turn' = [turn EXCEPT ![t] = next]
  /\ stale' \in {stale, stale /\ ~fresh}
  /\ doubt' = IF fresh /\ stale' THEN doubt \cup {"failed"} ELSE doubt
  /\ fresh' = FALSE
  /\ UNCHANGED <<session, dir, flag, todo, early, contentVars,
                 historyVars>>

\* A heartbeat run in the main session links its directory, records it and
\* always continues its conversation.
Beat ==
  /\ Trouble
  /\ dir' = TRUE
  /\ session' = TRUE
  /\ doubt' = IF session THEN doubt ELSE doubt \cup {"beat"}
  /\ UNCHANGED <<lock, turn, flag, todo, fresh, stale, early, contentVars, historyVars>>

-----------------------------------------------------------------------------
(* Resets.                                                                 *)

BeginReset ==
  /\ todo = <<>>
  /\ Trouble
  /\ todo' \in {<<"clear", "remove", "flag">>, <<"remove", "flag", "clear">>}
  /\ UNCHANGED <<lock, turn, session, dir, flag, fresh, stale, early, doubt,
                 contentVars, historyVars>>

\* After its last step every conversation there is dates from before.
ResetStep ==
  LET step == Head(todo)
  IN  /\ todo # <<>>
      /\ todo' = Tail(todo)
      /\ session' = (session /\ step # "clear")
      /\ dir' = (dir /\ step # "remove")
      /\ flag' = (flag \/ step = "flag")
      /\ doubt' = IF step = "clear" \/ todo' = <<>> THEN {} ELSE doubt
      /\ IF todo' = <<>>
           THEN /\ stale' = TRUE /\ fresh' = FALSE
                /\ early' = At(Waiting)
           ELSE UNCHANGED <<stale, fresh, early>>
      /\ UNCHANGED <<lock, turn, contentVars, troubles, historyVars>>

-----------------------------------------------------------------------------
(* consolidate_turn.                                                       *)

\* Mutant: the prompt does not list the existing memories.
NothingKnown == {}

\* load_existing_memory keeps the beginning of the file, the oldest entries.
ExistingMemory ==
  LET Listed == {i \in DOMAIN daily : daily[i] \notin Headed}
  IN  {daily[i] : i \in {j \in Listed : Cardinality(Listed \cap 1 .. j) <= KnownCap}}

\* A file that is not there, or cannot be read, is an empty memory.
LoadExisting(t) ==
  /\ turn[t] = "spawned"
  /\ turn' = [turn EXCEPT ![t] = "asking"]
  /\ raced' = (raced \/ At(Pending) # {})
  /\ \/ /\ dir
        /\ known' = [known EXCEPT ![t] = ExistingMemory]
        /\ UNCHANGED <<troubles, uninformed>>
     \/ /\ IF dir THEN Trouble ELSE UNCHANGED troubles
        /\ known' = [known EXCEPT ![t] = {}]
        /\ uninformed' = TRUE
  /\ UNCHANGED <<lock, sessionVars, daily, base, written, overlapped,
                 unlinked, interrupted>>

\* null, an unparsable answer, a failed CLI, a file that append_daily_memory cannot
\* read: nothing to append.
NothingNew(t) ==
  /\ turn[t] = "asking"
  /\ turn' = [turn EXCEPT ![t] = "ended"]
  /\ known' = [known EXCEPT ![t] = {}]
  /\ UNCHANGED <<lock, sessionVars, daily, base, troubles, historyVars>>

\* Mutant: the time limit covers only the start of the CLI.
TimeOutAtSpawn(t) ==
  /\ turn[t] = "spawned"
  /\ turn' = [turn EXCEPT ![t] = "ended"]
  /\ UNCHANGED <<lock, sessionVars, contentVars, troubles, historyVars>>

\* CONSOLIDATION_TIMEOUT; kill_on_drop ends the CLI.
TimeOut(t) ==
  /\ turn[t] = "asking"
  /\ turn' = [turn EXCEPT ![t] = "ended"]
  /\ known' = [known EXCEPT ![t] = {}]
  /\ UNCHANGED <<lock, sessionVars, daily, base, troubles, historyVars>>

\* The CLI returns an update only if the fact is not among the known ones.
\* append_daily_memory then reads the file, if it is there, and writes it again
\* with one more entry.
ReadDaily(t) ==
  /\ turn[t] = "asking"
  /\ \A e \in known[t] : FactOf[e] # FactOf[t]
  /\ turn' = [turn EXCEPT ![t] = "read"]
  /\ known' = [known EXCEPT ![t] = {}]
  /\ base' = [base EXCEPT ![t] = IF dir THEN daily ELSE <<>>]
  /\ overlapped' = (overlapped \/ At(Appending) # {})
  /\ unlinked' = (unlinked \/ ~dir)
  /\ UNCHANGED <<lock, sessionVars, daily, troubles, written, raced, uninformed,
                 interrupted>>

\* fs::write opens the file through the session's directory, or fails to.
Truncate(t) ==
  /\ turn[t] = "read"
  /\ IF dir THEN /\ turn' = [turn EXCEPT ![t] = "truncated"]
                 /\ daily' = <<>>
            ELSE /\ turn' = [turn EXCEPT ![t] = "ended"]
                 /\ UNCHANGED daily
  /\ base' = IF dir THEN base ELSE [base EXCEPT ![t] = <<>>]
  /\ UNCHANGED <<lock, sessionVars, known, troubles, historyVars>>

\* Mutant: the file is written with the new entry only.
OnlyTheEntry(t) == <<t>>

NewContent(t) == Append(base[t], t)

WriteDaily(t) ==
  /\ turn[t] = "truncated"
  /\ turn' = [turn EXCEPT ![t] = "ended"]
  /\ daily' = NewContent(t)
  /\ base' = [base EXCEPT ![t] = <<>>]
  /\ written' = written \cup {t}
  /\ UNCHANGED <<lock, sessionVars, known, troubles, overlapped, raced, uninformed,
                 unlinked, interrupted>>

\* The disk is full: some of the old entries are written again, or none.
WriteFails(t) ==
  /\ turn[t] = "truncated"
  /\ Trouble
  /\ turn' = [turn EXCEPT ![t] = "ended"]
  /\ \E n \in 0 .. Len(base[t]) : daily' = SubSeq(base[t], 1, n)
  /\ base' = [base EXCEPT ![t] = <<>>]
  /\ interrupted' = TRUE
  /\ UNCHANGED <<lock, sessionVars, known, written, overlapped, raced,
                 uninformed, unlinked>>

-----------------------------------------------------------------------------

\* The daemon stops, and with it consolidations and a reset by the server; the
\* messages of the turns before their end are claimed again.
Crash ==
  /\ Trouble
  /\ lock' = Nobody
  /\ turn' = [t \in Turns |-> 
                IF turn[t] \in {"idle", "clearing", "running"} \cup Waiting
                  THEN "idle" ELSE "ended"]
  /\ todo' \in {todo, <<>>}
  /\ stale' \in {stale, stale /\ ~fresh}
  /\ doubt' = doubt \cup (IF fresh /\ stale' THEN {"failed"} ELSE {})
                    \cup (IF At({"clearing"}) # {} THEN {"kept"} ELSE {})
  /\ fresh' = FALSE /\ early' = {}
  /\ interrupted' = (interrupted \/ At({"truncated"}) # {})
  /\ known' = [t \in Turns |-> {}] /\ base' = [t \in Turns |-> <<>>]
  /\ UNCHANGED <<session, dir, flag, daily,
                 written, overlapped, raced, uninformed, unlinked>>

Prepare(t) == LookForReset(t) \/ ClearSessions(t) \/ Link(t)

AppendStep(t) == ReadDaily(t) \/ Truncate(t) \/ WriteDaily(t) \/ WriteFails(t)

Start(t) == StartTurn(t) \/ SpawnFails(t)

Next ==
  \/ \E t \in Turns :
       \/ Prepare(t)
       \/ ClearSessionsFails(t)
       \/ PrepareFails(t)
       \/ Start(t)
       \/ EndTurn(t)
       \/ FailTurn(t)
       \/ LoadExisting(t)
       \/ NothingNew(t)
       \/ TimeOut(t)
       \/ AppendStep(t)
  \/ Beat
  \/ BeginReset
  \/ ResetStep
  \/ Crash

Spec == Init /\ [][Next]_vars

(* Tokio polls the tasks and the timer fires; the consolidation CLI may    *)
(* hang, and a run ends because its CLI does.  A reset begins, and runs fail, *)
(* when they like.                                                         *)
FairSpec ==
  /\ Spec
  /\ \A t \in Turns :
       /\ WF_vars(Prepare(t))
       /\ WF_vars(Start(t))
       /\ WF_vars(EndTurn(t))
       /\ WF_vars(LoadExisting(t))
       /\ WF_vars(TimeOut(t))
       /\ WF_vars(AppendStep(t))

-----------------------------------------------------------------------------
(* Properties.                                                             *)

\* A turn that looked for a reset after the last one ended does not continue a
\* conversation from before it, in whatever order reset, waiting turns and runs
\* take their steps, unless another turn has removed the flag and not yet cleared
\* the store, or the store knows the session since: from a heartbeat run, from a
\* run that failed before it had a conversation, or because a stop or an error
\* came between the removal of the flag and the clearing.
FreshAfterReset ==
  [][\A t \in Turns :
       turn[t] = "prepared" /\ turn'[t] = "running" /\ ~fresh' /\ stale =>
         t \in early \/ doubt # {} \/ At({"clearing"}) # {}]_vars

\* An entry that was appended disappears only because two appends overlapped,
\* because a stop of the daemon or a full disk cut a write short, or because a
\* reset removed the directory under an append and a turn linked it again.
LossHasCause ==
  At({"truncated"}) = {} /\ ~overlapped /\ ~interrupted /\ ~unlinked
    => written = Entries(daily)

\* No fact is in a file twice, unless the prompt leaves out the first entry that
\* has it, taking its lines for headings.
DistinctFacts(file) ==
  \A i, j \in DOMAIN file :
    i < j /\ FactOf[file[i]] = FactOf[file[j]] => file[i] \in Headed

\* A fact is recorded twice only because a consolidation did not wait for a
\* pending one, because the memory outgrew the prompt, was not linked or not
\* read, or has the fact in lines the prompt leaves out, or because a write was
\* cut short.
DuplicateHasCause ==
  ~raced /\ ~interrupted /\ ~uninformed /\ ~unlinked /\ Len(daily) <= KnownCap
    => DistinctFacts(daily)

\* Every turn runs and its consolidation ends, although the consolidation's CLI
\* hangs, a reset removes the directory under a waiting turn, runs fail and the
\* daemon stops.
EveryTurnEnds == <>(At({"ended"}) = Turns)

-----------------------------------------------------------------------------
(* The inductive invariant.                                                *)

Continued == stale /\ session /\ doubt = {}

\* A session that is known for no other cause while the conversation is older
\* than the reset is one that waits for the next turn to see the flag, or one
\* that a new conversation is being made for, or one that a turn is about to
\* clear; only turns that looked too early can still continue the old one.
ConversationInv ==
  /\ fresh => lock # Nobody
  /\ Continued /\ ~fresh /\ At({"clearing"}) = {} =>
       flag /\ At(Waiting) \subseteq early

\* The one append in progress starts from all that was written.
AppendInv ==
  /\ ~overlapped => \A t, u \in At(Appending) : t = u
  /\ ~overlapped /\ ~interrupted /\ ~unlinked =>
       \A t \in At(Appending) :
         /\ written = Entries(base[t])
         /\ turn[t] = "read" => base[t] = daily

\* The one consolidation in progress knows what it must not repeat.
FactInv ==
  /\ ~raced => \A t, u \in At(Pending) : t = u
  /\ ~raced /\ ~interrupted /\ ~uninformed /\ ~unlinked =>
       /\ \A t \in At({"asking"}) : known[t] = ExistingMemory
       /\ \A t \in At(Appending) :
            /\ Len(base[t]) <= KnownCap =>
                 /\ DistinctFacts(base[t])
                 /\ \A e \in Entries(base[t]) \ Headed : FactOf[e] # FactOf[t]

IInv ==
  /\ TypeOK
  /\ ConversationInv
  /\ AppendInv
  /\ LossHasCause
  /\ FactInv
  /\ DuplicateHasCause
=============================================================================
