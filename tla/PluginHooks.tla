----------------------------- MODULE PluginHooks -----------------------------
(***************************************************************************)
(* One plugin command of ClawPod (run_command, crates/plugins/src/lib.rs): *)
(* the daemon starts it, writes the whole payload to its stdin, and only   *)
(* then begins to read its stdout, until the command is gone.  Nothing     *)
(* bounds the time this takes.                                             *)
(*                                                                         *)
(* Callers are the tasks of the queue.  A command is abstracted to how it  *)
(* treats its pipes: it "filters" (reads all of stdin, then writes),       *)
(* "streams" (writes as it reads, a line at a time), is "deaf" (never      *)
(* reads), or "hangs" (neither reads, writes nor exits; or it leaves a     *)
(* background process behind that keeps its stdout open).  The result, and *)
(* whether an error made the caller keep its text, is not kept: every      *)
(* error is only logged (run_transform_hooks, dispatch_event).             *)
(***************************************************************************)
EXTENDS Naturals

CONSTANTS
  Callers,     \* whoever runs hooks
  Behaviours,  \* the behaviours of the installed commands
  Size,        \* the payload of a caller, in pipe buffers
  NoCall       \* the value of a caller without a command

VARIABLE call  \* the command a caller waits for

Stages == [behaviour : Behaviours, stage : {"feeding", "collecting"}]

HookTypeOK == call \in [Callers -> Stages \cup {NoCall}]


\* How much a command takes off the daemon before the write blocks for good: a
\* pipe holds one buffer, and a command that streams blocks in turn as soon as
\* its own output, which nobody reads yet, fills the other pipe.
Absorbs(behaviour, size) ==
  CASE behaviour = "filters" -> size
    [] behaviour = "streams" -> 2
    [] OTHER -> 1

Started(b) == [behaviour |-> b, stage |-> "feeding"]

Spawn(c) ==
  /\ call[c] = NoCall
  /\ \E b \in Behaviours : call' = [call EXCEPT ![c] = Started(b)]

Feed(c) ==
  /\ call[c] # NoCall
  /\ call[c].stage = "feeding"
  /\ Size[c] <= Absorbs(call[c].behaviour, Size[c])
  /\ call' = [call EXCEPT ![c].stage = "collecting"]

\* Mutant: the daemon keeps the write end of stdin open while it waits.
StdinKeptOpen(c) ==
  /\ call[c] # NoCall
  /\ \/ call[c].stage = "collecting" /\ call[c].behaviour = "deaf"
     \/ call[c].stage = "feeding" /\ call[c].behaviour = "deaf"
  /\ call' = [call EXCEPT ![c] = NoCall]

\* run_command returns: with the command's output or status, or with the error
\* of the write, when the command was gone before it had read everything.
Returns(c) ==
  /\ call[c] # NoCall
  /\ \/ call[c].stage = "collecting" /\ call[c].behaviour # "hangs"
     \/ call[c].stage = "feeding" /\ call[c].behaviour = "deaf"
  /\ call' = [call EXCEPT ![c] = NoCall]

\* A step of the caller that the hook precedes: after the hook's command, or at
\* once when no installed plugin has the hook (or the directory is unreadable).
After(c) ==
  \/ call[c] = NoCall /\ UNCHANGED call
  \/ Returns(c)

\* The calls that will never return.
Wedged(c) ==
  /\ call[c] # NoCall
  /\ \/ call[c].behaviour = "hangs"
     \/ /\ call[c].behaviour = "streams"
        /\ call[c].stage = "feeding"
        /\ Size[c] > Absorbs("streams", Size[c])

HooksGone == call' = [c \in Callers |-> NoCall]
=============================================================================
