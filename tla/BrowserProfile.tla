--------------------------- MODULE BrowserProfile ---------------------------
(***************************************************************************)
(* The browser of one profile (crates/runner/src/browser.rs).  Before a    *)
(* run of an agent with a browser profile, ensure_browser_ready takes the  *)
(* lock of the profile's CDP port, probes the port, launches Chrome when   *)
(* nothing listens there, and polls it for 12 seconds.  Chrome outlives    *)
(* the run and the daemon.                                                 *)
(*                                                                         *)
(* Locks are keyed by the port, and a valid configuration gives every      *)
(* profile a port of its own (validate_browser_profiles), so profiles do   *)
(* not interact: the module is about one.  The program at the port is      *)
(* external.                                                               *)
(***************************************************************************)
EXTENDS Naturals

CONSTANTS
  Callers,    \* the tasks of the queue: only their runs carry browser metadata
  NoCaller,   \* the holder of the free port lock
  MaxChromes  \* bound: Chrome processes launched and not yet gone

VARIABLES
  port,      \* what answers at the port
  chromes,   \* Chrome processes of the profile that are alive
  portLock,  \* the holder of browser_ensure_lock(port)
  ensure,    \* where a caller stands in ensure_browser_ready
  givenUp    \* history: was a launched Chrome given up before it answered?

browserVars == <<port, chromes, portLock, ensure, givenUp>>

\* With "none", nothing listens at the port or a program that is no browser;
\* "starting" covers Chrome before and after it listens; a "stalled" Chrome
\* sends the head of its answer to /json/version and never the body, the only
\* part of the probe that has no timeout.
BrowserTypeOK ==
  /\ port \in {"none", "starting", "ready", "stalled"}
  /\ chromes \in 0 .. MaxChromes
  /\ portLock \in Callers \cup {NoCaller}
  /\ ensure \in [Callers -> {"out", "locking", "probing", "awaiting", "open"}]
  /\ givenUp \in BOOLEAN

BrowserInit ==
  /\ port = "none"
  /\ chromes = 0
  /\ portLock = NoCaller
  /\ ensure = [c \in Callers |-> "out"]
  /\ givenUp = FALSE

At(c, step) == ensure' = [ensure EXCEPT ![c] = step]

\* The runner is called with the profile's port in the run's metadata.
Enter(c) ==
  /\ ensure[c] = "out"
  /\ At(c, "locking")
  /\ UNCHANGED <<port, chromes, portLock, givenUp>>

Skip(c) ==
  /\ ensure[c] = "out"
  /\ At(c, "open")
  /\ UNCHANGED <<port, chromes, portLock, givenUp>>

\* Mutant: the ensures of a port are not serialized.
NoLock == TRUE

PortLockFree == portLock = NoCaller

LockPort(c) ==
  /\ ensure[c] = "locking"
  /\ PortLockFree
  /\ portLock' = c
  /\ At(c, "probing")
  /\ UNCHANGED <<port, chromes, givenUp>>

Ready(c) ==
  /\ ensure[c] \in {"probing", "awaiting"}
  /\ port = "ready"
  /\ portLock' = NoCaller
  /\ At(c, "open")
  /\ UNCHANGED <<port, chromes, givenUp>>

\* Nothing listens at the port: Chrome is spawned and the wait begins.  (What
\* listens is assumed to accept within the 250 ms of is_tcp_port_listening.)
Launch(c) ==
  /\ ensure[c] = "probing"
  /\ port \in {"none", "starting"}
  /\ chromes < MaxChromes
  /\ port' = "starting"
  /\ chromes' = chromes + 1
  /\ At(c, "awaiting")
  /\ UNCHANGED <<portLock, givenUp>>

\* The error returns: the executable or a directory is missing, what listens
\* speaks no CDP, answers late or no JSON, or the wait took too long.
EnsureFails(c) ==
  /\ ensure[c] \in {"probing", "awaiting"}
  /\ port # "stalled"
  /\ portLock' = NoCaller
  /\ At(c, "out")
  /\ givenUp' = (givenUp \/ (ensure[c] = "awaiting" /\ chromes > 0))
  /\ UNCHANGED <<port, chromes>>

Leave(c) ==
  /\ ensure[c] = "open"
  /\ At(c, "out")
  /\ UNCHANGED <<port, chromes, portLock, givenUp>>

\* The runner returns an error: its own, or that of the ensure.
Fails(c) == EnsureFails(c) \/ Leave(c)

-----------------------------------------------------------------------------
(* The programs at the port.                                               *)

ComesUp ==
  /\ port = "starting"
  /\ port' = "ready"
  /\ UNCHANGED <<chromes, portLock, ensure, givenUp>>

Stalls ==
  /\ port = "ready"
  /\ port' = "stalled"
  /\ UNCHANGED <<chromes, portLock, ensure, givenUp>>

\* The user closes the browser, or it crashes.
ChromeDies ==
  /\ chromes > 0
  /\ chromes' = 0
  /\ port' = "none"
  /\ UNCHANGED <<portLock, ensure, givenUp>>

Outside == ComesUp \/ Stalls \/ ChromeDies

\* The daemon stops: its locks and tasks are gone, the browser is not.
BrowserOutlivesDaemon ==
  /\ portLock' = NoCaller
  /\ ensure' = [c \in Callers |-> "out"]
  /\ givenUp' =
       (givenUp \/ (chromes > 0 /\ \E c \in Callers : ensure[c] = "awaiting"))
  /\ UNCHANGED <<port, chromes>>

\* A call that hangs: the health probe waits for the rest of an answer.
Hanging(c) == ensure[c] \in {"probing", "awaiting"} /\ port = "stalled"
=============================================================================
