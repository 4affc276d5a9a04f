---------------------------- MODULE RunExecution ----------------------------
(***************************************************************************)
(* One agent run from record_run_start to its return: the task in          *)
(* run_single_task (crates/queue/src/lib.rs), the blocking reader and the  *)
(* timeout in CliRunner::run_streamed (crates/runner/src/lib.rs), the      *)
(* forwarder between them, and RunEventBuffer                              *)
(* (crates/store/src/run_events.rs), which all runs share.                 *)
(*                                                                         *)
(* The CLI child writes lines to stdout and blocks to stderr; a pipe holds *)
(* PipeCap of them.  The reader drains stdout to its end, then stderr,     *)
(* then waits for the child and only then sends one event per parsed line  *)
(* into a channel of ChanCap events, dropping what does not fit.  The      *)
(* reader is a blocking thread: a timeout gives up waiting for it but does *)
(* not end it, and the channel stays open until it is done.  At last the   *)
(* same lines are searched for the answer, which goes to the user; if none *)
(* is found all of stdout does.                                            *)
(*                                                                         *)
(* What a line says is settled when the reader looks at it:                *)
(*   message   a complete message of the agent                            *)
(*   result    claude's last line, with the answer                         *)
(*   blank     codex: an empty message; claude: a result with an empty one *)
(*   step      any other event: a tool call, its output, a thought, usage  *)
(*   torn      codex: a completed item without the item; claude: a result  *)
(*             without an answer                                           *)
(*   overlong  a tool's output, or claude's thought, that is cut because   *)
(*             it is too long, and a character lies across the cut         *)
(*   noise     not JSON                                                    *)
(***************************************************************************)
EXTENDS Integers, Sequences, FiniteSets, FiniteSetsExt

CONSTANTS
  Runs,          \* run ids
  Providers,     \* CLIs that an agent may be run with: "codex", "claude"
  MaxLines,      \* bound: lines the child of a run writes to stdout
  MaxBlocks,     \* bound: blocks the child of a run writes to stderr
  PipeCap,       \* what a pipe holds before its writer blocks
  ChanCap,       \* capacity of the event channel, 256 in the code
  MaxEvents,     \* max_events_per_run, 500 in the code
  MaxCompleted,  \* max_completed_runs, 50 in the code
  StoreFaults    \* may record_run_end fail?

ASSUME RunAssumption ==
  /\ Providers \in [Runs -> SUBSET {"codex", "claude"}]
  /\ MaxLines \in [Runs -> Nat] /\ MaxBlocks \in [Runs -> Nat]
  /\ PipeCap \in Nat \ {0} /\ ChanCap \in Nat \ {0}
  /\ MaxEvents \in Nat /\ MaxCompleted \in Nat
  /\ StoreFaults \in BOOLEAN

VARIABLES
  task,       \* where run_single_task stands
  provider,   \* the CLI of a run
  outcome,    \* what run_streamed returned
  child,      \* lines and blocks a child has still to write; is it alive?
  stdout,     \* lines in the child's stdout pipe
  stderr,     \* blocks in its stderr pipe
  reader,     \* where the blocking thread stands
  lines,      \* lines the reader has collected
  said,       \* what the lines say that it has turned into events
  chan,       \* events in the channel, by their sequence number
  count,      \* events the forwarder has pushed
  recorded,   \* status of the run in the state store
  buffer,     \* RunEventBuffer.runs
  completed,  \* RunEventBuffer.completed
  answer      \* the line whose text is returned, or Raw: all of stdout

taskVars == <<task, provider, outcome, recorded, answer>>
childVars == <<child, stdout, stderr>>
readerVars == <<reader, lines, said>>
bufferVars == <<buffer, completed>>
vars == <<taskVars, childVars, readerVars, chan, count, bufferVars>>

Raw == 0

\* What a CLI prints.
CodexLines == {"message", "blank", "step", "torn", "overlong", "noise"}
ClaudeLines == CodexLines \cup {"result"}
LinesOf(r) == IF provider[r] = "codex" THEN CodexLines ELSE ClaudeLines

Child == [lines : Nat, blocks : Nat, alive : BOOLEAN]

Shaped ==
  /\ task \in [Runs -> {"idle", "running", "draining", "marking", "over"}]
  /\ provider \in [Runs -> {"none", "codex", "claude"}]
  /\ outcome \in [Runs -> {"none", "ok", "error"}]
  /\ recorded \in [Runs -> {"none", "pending", "ended"}]
  /\ child \in [Runs -> Child]
  /\ stdout \in [Runs -> 0 .. PipeCap] /\ stderr \in [Runs -> 0 .. PipeCap]
  /\ reader \in [Runs -> {"none", "stdout", "stderr", "wait", "emit", "done",
                        "panicked"}]
  /\ lines \in [Runs -> Nat] /\ count \in [Runs -> Nat]
  /\ said \in [Runs -> Seq(ClaudeLines)]
  /\ chan \in [Runs -> Seq(Nat)] /\ buffer \in [Runs -> Seq(Nat)]
  /\ completed \in Seq(Runs)
  /\ answer \in [Runs -> Nat]

\* What a run has is bounded by what its child writes.
InRange(r) ==
  /\ provider[r] \in {"none"} \cup Providers[r]
  /\ {lines[r], count[r]} \subseteq 0 .. MaxLines[r]
  /\ said[r] \in Seq(LinesOf(r)) /\ Len(said[r]) <= lines[r]
  /\ {chan[r], buffer[r]} \subseteq Seq(1 .. MaxLines[r])
  /\ answer[r] \in {Raw} \cup DOMAIN said[r]

TypeOK == Shaped /\ \A r \in Runs : InRange(r)

Init ==
  /\ task = [r \in Runs |-> "idle"]
  /\ provider = [r \in Runs |-> "none"]
  /\ outcome = [r \in Runs |-> "none"]
  /\ recorded = [r \in Runs |-> "none"]
  /\ child = [r \in Runs |-> [lines |-> 0, blocks |-> 0, alive |-> FALSE]]
  /\ stdout = [r \in Runs |-> 0]
  /\ stderr = [r \in Runs |-> 0]
  /\ reader = [r \in Runs |-> "none"]
  /\ lines = [r \in Runs |-> 0]
  /\ said = [r \in Runs |-> <<>>]
  /\ chan = [r \in Runs |-> <<>>]
  /\ count = [r \in Runs |-> 0]
  /\ buffer = [r \in Runs |-> <<>>]
  /\ completed = <<>>
  /\ answer = [r \in Runs |-> Raw]

-----------------------------------------------------------------------------
(* What the lines mean.                                                    *)

\* The event of a line: one with a text of the agent, one with the usage of the
\* run (claude's Completed, which holds no text), another one, or none.
CodexEvent(line) ==
  CASE line \in {"message", "blank"} -> "text"
    [] line = "step" -> "other"
    [] OTHER -> "none"

\* Mutant: of claude's messages only thoughts and tool calls are events.
ClaudeEventWithoutText(line) ==
  CASE line \in {"result", "blank", "torn"} -> "usage"
    [] line = "step" -> "other"
    [] OTHER -> "none"

ClaudeEvent(line) ==
  CASE line = "message" -> "text"
    [] line \in {"result", "blank", "torn"} -> "usage"
    [] line = "step" -> "other"
    [] OTHER -> "none"

EventOf(r, line) ==
  IF provider[r] = "codex" THEN CodexEvent(line) ELSE ClaudeEvent(line)

Shows(r, line) == EventOf(r, line) # "none"

Shown(r) == {i \in DOMAIN said[r] : Shows(r, said[r][i])}

At(output, saying) == {i \in DOMAIN output : output[i] \in saying}

\* Mutant: the search stops at a line that is no JSON, as the one of
\* consolidation.rs does.
CodexTextUpToNoise(output) ==
  IF At(output, {"torn", "noise"}) # {} THEN Raw
  ELSE Max({Raw} \cup At(output, {"message", "blank"}))

\* extract_codex_text: the last message, unless an item is missing.
CodexText(output) ==
  IF At(output, {"torn"}) # {} THEN Raw
  ELSE Max({Raw} \cup At(output, {"message", "blank"}))

\* extract_claude_result_text: the last result, if it has an answer.
ClaudeText(output) ==
  LET last == Max({Raw} \cup At(output, {"result", "blank", "torn"}))
  IN  IF last # Raw /\ output[last] = "torn" THEN Raw ELSE last

\* run_single_task returns all of stdout for an answer that is empty.
Answer(r) ==
  LET text == IF provider[r] = "codex" THEN CodexText(said[r])
                                       ELSE ClaudeText(said[r])
  IN  IF text # Raw /\ said[r][text] = "blank" THEN Raw ELSE text

-----------------------------------------------------------------------------
(* The task: run_single_task.                                              *)

\* record_run_start, the forwarder, the spawn of the child and its reader.
Start(r) ==
  /\ task[r] = "idle"
  /\ task' = [task EXCEPT ![r] = "running"]
  /\ recorded' = [recorded EXCEPT ![r] = "pending"]
  /\ \E cli \in Providers[r] : provider' = [provider EXCEPT ![r] = cli]
  /\ reader' = [reader EXCEPT ![r] = "stdout"]
  /\ \E l \in 0 .. MaxLines[r], b \in 0 .. MaxBlocks[r] :
       child' = [child EXCEPT ![r] = [lines |-> l, blocks |-> b,
                                      alive |-> TRUE]]
  /\ UNCHANGED <<outcome, answer, stdout, stderr, lines, said, chan, count,
                 bufferVars>>

\* The browser setup or the spawn fails: the sender is dropped at once.
StartFails(r) ==
  /\ task[r] = "idle"
  /\ task' = [task EXCEPT ![r] = "draining"]
  /\ recorded' = [recorded EXCEPT ![r] = "pending"]
  /\ outcome' = [outcome EXCEPT ![r] = "error"]
  /\ reader' = [reader EXCEPT ![r] = "done"]
  /\ UNCHANGED <<provider, answer, childVars, lines, said, chan, count,
                 bufferVars>>

\* run_streamed returns the text of the reader's lines, or that it panicked.  The
\* exit status of the CLI is not looked at.
Finish(r) ==
  /\ task[r] = "running"
  /\ task' = [task EXCEPT ![r] = "draining"]
  /\ \/ /\ reader[r] = "done"
        /\ outcome' = [outcome EXCEPT ![r] = "ok"]
        /\ answer' = [answer EXCEPT ![r] = Answer(r)]
     \/ /\ reader[r] = "panicked"
        /\ outcome' = [outcome EXCEPT ![r] = "error"]
        /\ UNCHANGED answer
  /\ UNCHANGED <<provider, recorded, childVars, readerVars, chan, count,
                 bufferVars>>

\* tokio::time::timeout drops the future, not the blocking thread.
TimeOut(r) ==
  /\ task[r] = "running"
  /\ task' = [task EXCEPT ![r] = "draining"]
  /\ outcome' = [outcome EXCEPT ![r] = "error"]
  /\ UNCHANGED <<provider, recorded, answer, childVars, readerVars, chan,
                 count, bufferVars>>

\* Mutant: the task does not wait for the forwarder.
AlwaysDrained(r) == task[r] = "draining"

\* rx.recv returns None: the channel is empty and its sender is gone.
Drained(r) == chan[r] = <<>> /\ reader[r] \in {"done", "panicked"}

RecordEnd(r) ==
  /\ task[r] = "draining"
  /\ Drained(r)
  /\ task' = [task EXCEPT ![r] = "marking"]
  /\ recorded' = [recorded EXCEPT ![r] = "ended"]
  /\ UNCHANGED <<provider, outcome, answer, childVars, readerVars, chan,
                 count, bufferVars>>

\* What the run has read and found is gone when run_single_task returns.
Forget(r) ==
  /\ lines' = [lines EXCEPT ![r] = 0]
  /\ said' = [said EXCEPT ![r] = <<>>]
  /\ answer' = [answer EXCEPT ![r] = Raw]
  /\ outcome' = [outcome EXCEPT ![r] = "none"]
  /\ provider' = [provider EXCEPT ![r] = "none"]

\* record_run_end fails and `?` skips mark_completed.
RecordEndFails(r) ==
  /\ StoreFaults
  /\ task[r] = "draining"
  /\ Drained(r)
  /\ task' = [task EXCEPT ![r] = "over"]
  /\ Forget(r)
  /\ UNCHANGED <<recorded, childVars, reader, chan, count, bufferVars>>

\* The while loop of mark_completed evicts at most one run, since the queue
\* never holds more than MaxCompleted before the push.
MarkCompleted(r) ==
  LET queue == Append(completed, r)
  IN  /\ task[r] = "marking"
      /\ task' = [task EXCEPT ![r] = "over"]
      /\ Forget(r)
      /\ IF Len(queue) > MaxCompleted
           THEN /\ completed' = Tail(queue)
                /\ buffer' = [buffer EXCEPT ![Head(queue)] = <<>>]
           ELSE /\ completed' = queue
                /\ UNCHANGED buffer
      /\ UNCHANGED <<recorded, childVars, reader, chan, count>>

-----------------------------------------------------------------------------
(* The CLI child.                                                          *)

WriteLine(r) ==
  /\ child[r].alive /\ child[r].lines > 0
  /\ stdout[r] < PipeCap
  /\ child' = [child EXCEPT ![r].lines = @ - 1]
  /\ stdout' = [stdout EXCEPT ![r] = @ + 1]
  /\ UNCHANGED <<taskVars, stderr, readerVars, chan, count, bufferVars>>

WriteBlock(r) ==
  /\ child[r].alive /\ child[r].blocks > 0
  /\ stderr[r] < PipeCap
  /\ child' = [child EXCEPT ![r].blocks = @ - 1]
  /\ stderr' = [stderr EXCEPT ![r] = @ + 1]
  /\ UNCHANGED <<taskVars, stdout, readerVars, chan, count, bufferVars>>

Exit(r) ==
  /\ child[r].alive /\ child[r].lines = 0 /\ child[r].blocks = 0
  /\ child' = [child EXCEPT ![r].alive = FALSE]
  /\ UNCHANGED <<taskVars, stdout, stderr, readerVars, chan, count,
                 bufferVars>>

-----------------------------------------------------------------------------
(* The blocking thread of run_streamed.                                    *)

ReadLine(r) ==
  /\ reader[r] = "stdout" /\ stdout[r] > 0
  /\ stdout' = [stdout EXCEPT ![r] = @ - 1]
  /\ lines' = [lines EXCEPT ![r] = @ + 1]
  /\ UNCHANGED <<taskVars, child, stderr, reader, said, chan, count,
                 bufferVars>>

ReadBlock(r) ==
  /\ reader[r] = "stderr" /\ stderr[r] > 0
  /\ stderr' = [stderr EXCEPT ![r] = @ - 1]
  /\ UNCHANGED <<taskVars, child, stdout, readerVars, chan, count,
                 bufferVars>>

\* Mutant: the thread keeps its sender after the last event.
AdvanceWithSender(r) ==
  /\ ~child[r].alive
  /\ \/ /\ reader[r] = "stdout" /\ stdout[r] = 0
        /\ reader' = [reader EXCEPT ![r] = "stderr"]
     \/ /\ reader[r] = "stderr" /\ stderr[r] = 0
        /\ reader' = [reader EXCEPT ![r] = "wait"]
     \/ /\ reader[r] = "wait"
        /\ reader' = [reader EXCEPT ![r] = "emit"]
  /\ UNCHANGED <<taskVars, childVars, lines, said, chan, count,
                 bufferVars>>

\* A pipe ends when its writer is gone and it is empty.
Advance(r) ==
  /\ ~child[r].alive
  /\ \/ /\ reader[r] = "stdout" /\ stdout[r] = 0
        /\ reader' = [reader EXCEPT ![r] = "stderr"]
     \/ /\ reader[r] = "stderr" /\ stderr[r] = 0
        /\ reader' = [reader EXCEPT ![r] = "wait"]
     \/ /\ reader[r] = "wait"
        /\ reader' = [reader EXCEPT ![r] = "emit"]
     \/ /\ reader[r] = "emit" /\ Len(said[r]) = lines[r]
        /\ reader' = [reader EXCEPT ![r] = "done"]
  /\ UNCHANGED <<taskVars, childVars, lines, said, chan, count,
                 bufferVars>>

\* try_send of the event of the next line, if it is one.  Cutting a text inside
\* a character panics: the thread is gone, and its sender with it.
Emit(r) ==
  LET n == Len(said[r]) + 1
  IN  /\ reader[r] = "emit" /\ n <= lines[r]
      /\ \E line \in LinesOf(r) :
           /\ said' = [said EXCEPT ![r] = Append(@, line)]
           /\ chan' = [chan EXCEPT ![r] =
                         IF Shows(r, line) /\ Len(@) < ChanCap THEN Append(@, n)
                                                              ELSE @]
           /\ reader' = [reader EXCEPT ![r] =
                           IF line = "overlong" THEN "panicked" ELSE @]
      /\ UNCHANGED <<taskVars, childVars, lines, count, bufferVars>>

-----------------------------------------------------------------------------
(* The forwarder and the buffer.                                           *)

\* Mutant: the oldest event makes room for the newest.
PushSliding(events, e) ==
  IF Len(events) < MaxEvents THEN Append(events, e)
  ELSE Append(Tail(events), e)

\* RunEventBuffer::push keeps the first MaxEvents events of a run.
Push(events, e) == IF Len(events) < MaxEvents THEN Append(events, e) ELSE events

Forward(r) ==
  /\ chan[r] # <<>>
  /\ chan' = [chan EXCEPT ![r] = Tail(@)]
  /\ count' = [count EXCEPT ![r] = @ + 1]
  /\ buffer' = [buffer EXCEPT ![r] = Push(@, Head(chan[r]))]
  /\ UNCHANGED <<taskVars, childVars, readerVars, completed>>

-----------------------------------------------------------------------------

TaskStep(r) ==
  \/ Start(r)
  \/ StartFails(r)
  \/ Finish(r)
  \/ TimeOut(r)
  \/ RecordEnd(r)
  \/ RecordEndFails(r)
  \/ MarkCompleted(r)

ChildStep(r) == WriteLine(r) \/ WriteBlock(r) \/ Exit(r)

ReaderStep(r) == ReadLine(r) \/ ReadBlock(r) \/ Advance(r) \/ Emit(r)

Next == \E r \in Runs : TaskStep(r) \/ ChildStep(r) \/ ReaderStep(r) \/ Forward(r)

Spec == Init /\ [][Next]_vars

(* Tokio polls the task and the forwarder, the timer fires, and the reader *)
(* thread runs whenever its read, or its wait, returns.                    *)
Fairness ==
  \A r \in Runs :
    /\ WF_vars(TaskStep(r))
    /\ WF_vars(ReaderStep(r))
    /\ WF_vars(Forward(r))

\* The child is foreign code: it may hang.
FairSpec == Spec /\ Fairness

\* A child that never hangs writes all it has to write and exits.
WellBehaved == FairSpec /\ \A r \in Runs : WF_vars(ChildStep(r))

-----------------------------------------------------------------------------
(* Properties.                                                             *)

Started(r) == task[r] \notin {"idle", "over"}

\* The buffer never outgrows its limits: only runs in progress, the last
\* MaxCompleted runs, and runs whose end could not be recorded hold events.
\* An event pushed after mark_completed would bring an evicted run back.
BufferIsBounded ==
  /\ Len(completed) <= MaxCompleted
  /\ \A r \in Runs :
       buffer[r] # <<>> =>
         \/ Started(r)
         \/ recorded[r] = "pending"
         \/ \E i \in DOMAIN completed : completed[i] = r

\* Neither the end of another run nor the limits of the buffer take events away
\* from a run in progress: it holds the first that were forwarded, and what
\* Office was given stays, in order.
LiveEventsAreKept ==
  [][\A r \in Runs :
       Started(r) /\ task'[r] # "over" =>
         /\ SubSeq(buffer'[r], 1, Len(buffer[r])) = buffer[r]
         /\ Len(buffer'[r]) =
              IF count'[r] < MaxEvents THEN count'[r] ELSE MaxEvents]_vars

\* event_count is right unless the events of the run did not fit the channel:
\* none is emitted, received or pushed after the count was recorded.
CountMissesBurstsOnly ==
  \A r \in Runs :
    task[r] = "marking" /\ Cardinality(Shown(r)) <= ChanCap =>
      count[r] = Cardinality(Shown(r))

\* The user gets the raw output of the CLI only if no complete answer is in it,
\* or if it has an item or result that is torn or empty: lines of other kinds
\* never hide an answer.
RawReplyHasCause ==
  \A r \in Runs :
    outcome[r] = "ok" /\ answer[r] = Raw =>
      \/ At(said[r], {"torn", "blank"}) # {}
      \/ provider[r] = "codex" /\ At(said[r], {"message"}) = {}
      \/ provider[r] = "claude" /\ At(said[r], {"result"}) = {}

\* The answer and the events come from two readings of the output, and they
\* agree.  Unless the channel or the buffer was full or the run was evicted, an
\* answer of codex is among the texts that Office shows.  Of an answer of claude
\* it shows the usage only, but every message that claude printed before it: the
\* text of the answer is shown if one of them repeats it.
AnswerIsShown ==
  \A r \in Runs :
    /\ task[r] = "marking" /\ outcome[r] = "ok" /\ answer[r] # Raw
    /\ Cardinality(Shown(r)) <= ChanCap /\ Cardinality(Shown(r)) <= MaxEvents
    => LET events == {buffer[r][i] : i \in DOMAIN buffer[r]}
           texts == {e \in events : EventOf(r, said[r][e]) = "text"}
       IN  IF provider[r] = "codex" THEN answer[r] \in texts
           ELSE /\ answer[r] \in events
                /\ At(said[r], {"message"}) \subseteq texts

\* Every run comes to an end if its child does.
RunReturns == \A r \in Runs : Started(r) ~> task[r] = "over"

\* What docs/configuration.md says of timeout_sec: it is the time limit of one
\* run.  A child that hangs keeps the run, and with it the lock of its agent
\* and a global permit, although the timeout has fired.
TimeoutEndsRun == \A r \in Runs : outcome[r] = "error" ~> task[r] = "over"

-----------------------------------------------------------------------------
(* What keeps the properties: the inductive invariant.                     *)

\* The pipes: no line is read that the child did not have to write, and before
\* the start and after the end nothing is in flight.
Piped(r) ==
  /\ lines[r] + stdout[r] + child[r].lines <= MaxLines[r]
  /\ reader[r] = "none" <=> task[r] = "idle"
  /\ task[r] = "idle" =>
       /\ stdout[r] = 0 /\ stderr[r] = 0 /\ ~child[r].alive
       /\ said[r] = <<>> /\ lines[r] = 0 /\ count[r] = 0
       /\ chan[r] = <<>> /\ buffer[r] = <<>>
  /\ task[r] \in {"marking", "over"} => Drained(r)
  /\ task[r] \in {"running", "draining"} => recorded[r] = "pending"

PipeInv == \A r \in Runs : Piped(r)

\* The events: of those emitted, some wait in the channel, and the first of those
\* received are in the buffer.
Counted(r) ==
  Started(r) =>
    /\ Len(chan[r]) + count[r] <= Len(said[r])
    /\ Len(buffer[r]) = IF count[r] < MaxEvents THEN count[r] ELSE MaxEvents

EventInv == \A r \in Runs : Counted(r)

\* A completed run is over.
CompletedInv == \A i \in DOMAIN completed : task[completed[i]] = "over"

\* Unless the channel overflows, every event is in it or was received, and
\* unless the buffer does too, what was received is in the buffer.
Kept(r) ==
  Started(r) /\ Cardinality(Shown(r)) <= ChanCap =>
    /\ Len(chan[r]) + count[r] = Cardinality(Shown(r))
    /\ Cardinality(Shown(r)) <= MaxEvents =>
         \A e \in Shown(r) :
           \/ \E i \in DOMAIN chan[r] : chan[r][i] = e
           \/ \E i \in DOMAIN buffer[r] : buffer[r][i] = e

NoBurstInv == \A r \in Runs : Kept(r)

\* A result is there once the run has ended, and an answer was taken from all
\* that the reader has found.
Answered(r) ==
  /\ outcome[r] = "ok" => reader[r] = "done" /\ answer[r] = Answer(r)
  /\ outcome[r] # "ok" => answer[r] = Raw
  /\ task[r] \in {"idle", "running"} => outcome[r] = "none"
  /\ task[r] = "running" \/ outcome[r] = "ok" => provider[r] # "none"

AnswerInv == \A r \in Runs : Answered(r)

IInv ==
  /\ TypeOK
  /\ PipeInv
  /\ EventInv
  /\ CompletedInv
  /\ BufferIsBounded
  /\ NoBurstInv
  /\ AnswerInv
=============================================================================
