----------------------------- MODULE StateStore -----------------------------
(***************************************************************************)
(* The state store of ClawPod (crates/store/src/lib.rs): a JSON file that  *)
(* several StateStore instances share.  The daemon's queue and heartbeat   *)
(* use one instance; the server, the Telegram, Discord and Slack           *)
(* connectors and every CLI command open one of their own on the same      *)
(* path.                                                                   *)
(*                                                                         *)
(* An update locks the snapshot of its instance, reads the file into it,   *)
(* changes it, writes a temporary file and renames that over the state     *)
(* file.  The mutex is per instance, so two instances may both read before *)
(* either one renames.                                                     *)
(***************************************************************************)
EXTENDS StoreOps, FiniteSets

CONSTANTS
  Threads,     \* callers: tasks of the daemon, connectors, CLI processes
  Instances,   \* StateStore instances on the same path
  InstanceOf,  \* the instance a thread calls
  Duties,      \* the updates a thread may make
  Idle,        \* the operation of a thread that is not in a call
  Limit,       \* the most posts one poll returns: ?limit=, by default 100
  IoFaults     \* may writing or renaming the temporary file fail?

ASSUME StoreAssumption ==
  /\ InstanceOf \in [Threads -> Instances]
  /\ Duties \in [Threads -> SUBSET (Op \ {Open})]
  /\ Idle \notin Op
  /\ Limit \in Nat
  /\ IoFaults \in BOOLEAN

VARIABLES
  file,       \* content of the state file
  opened,     \* instances whose StateStore::new returned
  snapshot,   \* what an instance holds behind its mutex
  doing,      \* the update a thread is in, past its refresh
  cursor,     \* the largest post id a chat-room reader has been given
  seen,       \* the posts that reader has been given
  completed,  \* history: the updates that returned Ok
  stale,      \* history: threads whose refresh is older than the file
  clobbered   \* history: did a thread ever persist a stale snapshot?

storeVars == <<file, opened, snapshot, doing>>
readerVars == <<cursor, seen>>
historyVars == <<completed, stale, clobbered>>
vars == <<storeVars, readerVars, historyVars>>

TypeOK ==
  /\ file \in Snapshot
  /\ opened \in SUBSET Instances
  /\ snapshot \in [Instances -> Snapshot]
  /\ doing \in [Threads -> Op \cup {Idle}]
  /\ cursor \in Nat
  /\ seen \in SUBSET Posts
  /\ completed \in SUBSET Op
  /\ stale \in SUBSET Threads
  /\ clobbered \in BOOLEAN

Init ==
  /\ file = EmptySnapshot
  /\ opened = {}
  /\ snapshot = [i \in Instances |-> EmptySnapshot]
  /\ doing = [t \in Threads |-> Idle]
  /\ cursor = 0
  /\ seen = {}
  /\ completed = {}
  /\ stale = {}
  /\ clobbered = FALSE

-----------------------------------------------------------------------------

Busy == {t \in Threads : doing[t] # Idle}

\* Mutant: an update does not hold the mutex up to its rename.
UnlockEarly(i) == i \in Instances

\* lock_snapshot: the mutex of an instance is free between its calls.
LockFree(i) == \A t \in Busy : InstanceOf[t] # i

\* Mutant: the snapshot in memory is trusted, the file is not read again.
TrustMemory(i) == snapshot[i]

\* refresh_locked; new() reads the file as well.
Refreshed(i) == file

Begin(t, o) ==
  LET i == InstanceOf[t]
  IN  /\ doing[t] = Idle
      /\ LockFree(i)
      /\ IF i \in opened THEN o \in Duties[t] ELSE o = Open
      /\ o = Open \/ (o \notin completed /\ \A u \in Threads : doing[u] # o)
      /\ Ready(o, completed)
      /\ Applies(o, Refreshed(i))
      /\ snapshot' = [snapshot EXCEPT ![i] = Effect(o, Refreshed(i))]
      /\ doing' = [doing EXCEPT ![t] = o]
      /\ UNCHANGED <<file, opened, readerVars, historyVars>>

\* The content persist_locked renames over the state file.
Written(t) == snapshot[InstanceOf[t]]

Persist(t) ==
  /\ doing[t] # Idle
  /\ file' = Written(t)
  /\ opened' = opened \cup {InstanceOf[t]}
  /\ doing' = [doing EXCEPT ![t] = Idle]
  /\ completed' = completed \cup {doing[t]}
  /\ stale' = (stale \cup Busy) \ {t}
  /\ clobbered' = (clobbered \/ t \in stale)
  /\ UNCHANGED <<snapshot, readerVars>>

\* The write or the rename fails: the caller gets an error, the snapshot in
\* memory keeps the change.
PersistFails(t) ==
  /\ IoFaults
  /\ doing[t] # Idle
  /\ doing' = [doing EXCEPT ![t] = Idle]
  /\ stale' = stale \ {t}
  /\ UNCHANGED <<file, opened, snapshot, readerVars, completed, clobbered>>

Above(id, posts) == {p \in posts : p.id > id}

\* list_chatroom_messages(limit, since_id): the newest of the posts after it.
Listed(posts, since) ==
  {p \in Above(since, posts) : Cardinality(Above(p.id, posts)) < Limit}

\* A reader polls with the largest id it was given.
Poll(i) ==
  /\ i \in opened
  /\ LockFree(i)
  /\ snapshot' = [snapshot EXCEPT ![i] = Refreshed(i)]
  /\ LET given == Listed(Refreshed(i).posts, cursor)
     IN  /\ given # {}
         /\ seen' = seen \cup {p.post : p \in given}
         /\ cursor' = NextId(given) - 1
  /\ UNCHANGED <<file, opened, doing, historyVars>>

\* The process of an instance stops: a CLI command returns, a daemon crashes.
Stop(i) ==
  /\ i \in opened
  /\ opened' = opened \ {i}
  /\ doing' = [t \in Threads |-> IF InstanceOf[t] = i THEN Idle ELSE doing[t]]
  /\ stale' = {t \in stale : InstanceOf[t] # i}
  /\ UNCHANGED <<file, snapshot, readerVars, completed, clobbered>>

Next ==
  \/ \E t \in Threads :
       \/ \E o \in Op : Begin(t, o)
       \/ Persist(t)
       \/ PersistFails(t)
  \/ \E i \in Instances : Poll(i) \/ Stop(i)

Spec == Init /\ [][Next]_vars

-----------------------------------------------------------------------------
(* The inductive invariant.                                                *)

\* The mutex of an instance admits one update at a time.
MutexInv ==
  \A t, u \in Busy : InstanceOf[t] = InstanceOf[u] => t = u

\* A thread that is not stale holds the effect of its update on the file.
FreshInv ==
  /\ stale \subseteq Busy
  /\ \A t \in Busy \ stale :
       /\ Applies(doing[t], file)
       /\ snapshot[InstanceOf[t]] = Effect(doing[t], file)

\* Runs end after they started, senders are approved after they registered,
\* and an update that completed is not made again.
OrderInv ==
  /\ \A o \in completed : Ready(o, completed)
  /\ \A t \in Busy :
       /\ Ready(doing[t], completed)
       /\ doing[t] # Open =>
            /\ doing[t] \notin completed
            /\ \A u \in Busy : doing[u] = doing[t] => u = t

\* Finitely many posts of distinct ids, one of them the largest.
Distinct(posts) == \A p, q \in posts : p.id = q.id => p = q
HasLast(posts) == posts # {} => \E p \in posts : \A q \in posts : q.id <= p.id
Numbered(posts) == IsFiniteSet(posts) /\ Distinct(posts) /\ HasLast(posts)

IdInv ==
  /\ Numbered(file.posts)
  /\ \A i \in Instances : Numbered(snapshot[i].posts)

\* Updates that can only be seen in a snapshot because somebody made them.
Attributable == {o \in Op : o.kind \in {"run_end", "post", "approve"}}

ProvenanceInv ==
  \A o \in Attributable :
    /\ Visible(o, file) => o \in completed
    /\ \A t \in Busy :
         Visible(o, snapshot[InstanceOf[t]]) => o \in completed \cup {doing[t]}

-----------------------------------------------------------------------------
(* Properties.                                                             *)

Lost == {o \in completed : ~Visible(o, file)}

\* With every caller on one instance the file is an atomic store: updates take
\* effect in one step, failed ones and crashes leave no trace.
Atomic == INSTANCE AtomicStore WITH content <- file

OneStore == Atomic!Spec

\* With several instances every update that is still renamed over the content
\* it read is a step of the atomic store; only stale ones are not.
UpdatesAreAtomic ==
  Atomic!Init /\ [][Atomic!Next \/ \E t \in stale : Persist(t)]_<<file, completed>>

\* The reader is past p and at least Limit later posts.
Burst(p) ==
  Cardinality({q \in file.posts : p.id < q.id /\ q.id <= cursor}) >= Limit

\* A reader that polls with the last id it was given misses a post only in a
\* burst, when one poll found more than Limit, unless a stale snapshot was
\* written: ids grow in the order in which posts become visible.
PollMissesBurstsOnly ==
  ~clobbered =>
    \A p \in file.posts : p.id > cursor \/ p.post \in seen \/ Burst(p)

\* Whatever the instances do to each other, a completed update disappears only
\* if some instance renamed a snapshot that was older than the file.
LossNeedsStaleWriter == Lost # {} => clobbered

\* An update that returned an error is never seen, not even after a later
\* update of the instance whose memory still holds it.
FailedUpdatesStayInvisible ==
  \A o \in Attributable : Visible(o, file) => o \in completed

\* The posts in one file carry distinct ids, whoever wrote them.
PostIdsDistinct == Distinct(file.posts)

IInv ==
  /\ TypeOK
  /\ MutexInv
  /\ FreshInv
  /\ OrderInv
  /\ IdInv
  /\ ProvenanceInv
  /\ LossNeedsStaleWriter
=============================================================================
