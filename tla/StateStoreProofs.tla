-------------------------- MODULE StateStoreProofs --------------------------
(***************************************************************************)
(* Proofs about StateStore for every set of threads, instances and         *)
(* updates: the inductive invariant, the safety properties it implies, and *)
(* that the store is atomic when all threads share one instance.           *)
(***************************************************************************)
EXTENDS StateStore, FiniteSetTheorems, TLAPS

\* The id that the next record gets is larger than every id in use.
LEMMA NextIdIsFresh ==
  ASSUME NEW posts \in SUBSET [post : Posts, id : Nat], HasLast(posts)
  PROVE  /\ NextId(posts) \in Nat \ {0}
         /\ \A p \in posts : p.id < NextId(posts)
<1>1. CASE posts = {}
  BY <1>1 DEF NextId
<1>2. CASE posts # {}
  <2> DEFINE last == CHOOSE p \in posts : \A q \in posts : q.id <= p.id
  <2>1. last \in posts /\ \A q \in posts : q.id <= last.id
    BY <1>2 DEF HasLast
  <2>2. NextId(posts) = 1 + last.id
    BY <1>2 DEF NextId
  <2>3. last.id \in Nat /\ \A q \in posts : q.id \in Nat
    BY <2>1
  <2> HIDE DEF last
  <2> QED BY <2>1, <2>2, <2>3
<1> QED BY <1>1, <1>2

\* What a poll lists includes the last of all posts, where the cursor goes.
LEMMA ListedEndsWithLast ==
  ASSUME NEW posts \in SUBSET [post : Posts, id : Nat], Numbered(posts),
         NEW since \in Nat, Listed(posts, since) # {}
  PROVE  /\ NextId(Listed(posts, since)) - 1 \in Nat
         /\ NextId(Listed(posts, since)) - 1 > since
         /\ \E p \in posts : p.id = NextId(Listed(posts, since)) - 1
         /\ \A q \in posts : q.id <= NextId(Listed(posts, since)) - 1
<1> DEFINE given == Listed(posts, since)
<1>1. PICK p \in given : TRUE
  OBVIOUS
<1>2. /\ p \in posts /\ p.id > since
      /\ Cardinality(Above(p.id, posts)) < Limit
  BY <1>1 DEF Listed, Above
<1>3. PICK last \in posts : \A q \in posts : q.id <= last.id
  BY <1>2 DEF Numbered, HasLast
<1>4. last.id \in Nat /\ p.id \in Nat /\ p.id <= last.id
  BY <1>2, <1>3
<1>5. Cardinality(Above(last.id, posts)) = 0
  <2>1. \A q \in posts : q.id \in Nat /\ ~(q.id > last.id)
    BY <1>3, <1>4
  <2>2. Above(last.id, posts) = {}
    BY <2>1 DEF Above
  <2> QED
    BY <2>2, FS_EmptySet
<1>6. Cardinality(Above(p.id, posts)) \in Nat
  <2>1. Above(p.id, posts) \subseteq posts
    BY DEF Above
  <2> QED
    BY <2>1, FS_Subset, FS_CardinalityType DEF Numbered
<1>7. last \in given
  BY <1>2, <1>3, <1>4, <1>5, <1>6, StoreAssumption DEF Listed, Above
<1>8. \A q \in given : q \in posts /\ q.id \in Nat
  BY DEF Listed, Above
<1>9. NextId(given) - 1 = last.id
  <2> DEFINE top == CHOOSE r \in given : \A q \in given : q.id <= r.id
  <2>1. top \in given /\ \A q \in given : q.id <= top.id
    BY <1>3, <1>7, <1>8
  <2>2. NextId(given) = 1 + top.id
    BY <1>7 DEF NextId
  <2> HIDE DEF top, given
  <2>3. top.id = last.id
    BY <2>1, <1>3, <1>4, <1>7, <1>8
  <2> QED
    BY <2>2, <2>3, <1>4
<1> QED
  BY <1>2, <1>3, <1>4, <1>9

\* A numbered record appended to a numbered list keeps the list numbered.
LEMMA AppendKeepsNumbered ==
  ASSUME NEW posts \in SUBSET [post : Posts, id : Nat], Numbered(posts),
         NEW x \in Posts
  PROVE  Numbered(posts \cup {[post |-> x, id |-> NextId(posts)]})
<1> DEFINE new == [post |-> x, id |-> NextId(posts)]
<1>1. /\ NextId(posts) \in Nat
      /\ \A p \in posts : p.id < NextId(posts) /\ p.id \in Nat
  BY NextIdIsFresh DEF Numbered
<1>2. new.id = NextId(posts)
  OBVIOUS
<1> HIDE DEF new
<1>3. Distinct(posts \cup {new})
  BY <1>1, <1>2 DEF Numbered, Distinct
<1>4. HasLast(posts \cup {new})
  BY <1>1, <1>2 DEF HasLast
<1>5. IsFiniteSet(posts \cup {new})
  BY FS_AddElement DEF Numbered
<1> QED BY <1>3, <1>4, <1>5 DEF Numbered, new

\* An update keeps the type of a snapshot and the numbering of its records.
LEMMA EffectKeepsShape ==
  ASSUME NEW s \in Snapshot, Numbered(s.posts), NEW o \in Op
  PROVE  Effect(o, s) \in Snapshot /\ Numbered(Effect(o, s).posts)
<1> USE DEF RecordRunStart, RecordRunEnd, RecordPost,
        TouchSession, ClearAgentSessions, RegisterSender, ApproveSender
<1>1. CASE o.kind = "post"
  <2> DEFINE new == [post |-> o.post, id |-> NextId(s.posts)]
  <2>1. o.post \in Posts
    BY <1>1 DEF Op, Open, ClearSessions
  <2>2. NextId(s.posts) \in Nat
    BY NextIdIsFresh DEF Snapshot, Numbered
  <2>3. Effect(o, s) = [s EXCEPT !.posts = s.posts \cup {new}]
    BY <1>1 DEF Effect
  <2>4. Numbered(s.posts \cup {new})
    BY <2>1, AppendKeepsNumbered DEF Snapshot
  <2>5. new \in [post : Posts, id : Nat]
    BY <2>1, <2>2
  <2> HIDE DEF new
  <2> QED BY <2>3, <2>4, <2>5 DEF Snapshot
<1>2. CASE o.kind = "clear_sessions"
  BY <1>2 DEF Effect, Snapshot
<1>3. CASE o.kind \in {"run_start", "run_end"}
  BY <1>3 DEF Effect, Snapshot, Op, Open, ClearSessions
<1>4. CASE o.kind \in {"register", "approve"}
  BY <1>4 DEF Effect, Snapshot, Op, Open, ClearSessions
<1>5. CASE o.kind = "touch_session"
  BY <1>5 DEF Effect, Snapshot, Op, Open, ClearSessions
<1>6. CASE o.kind = "open"
  BY <1>6 DEF Effect
<1> QED BY <1>1, <1>2, <1>3, <1>4, <1>5, <1>6 DEF Op, Open, ClearSessions

\* What an update shows that was not there before is its own doing.
LEMMA EffectAddsItsOwn ==
  ASSUME NEW s \in Snapshot, NEW o \in Op, NEW p \in Attributable,
         Visible(p, Effect(o, s)), p # o
  PROVE  Visible(p, s)
<1> USE DEF Attributable, Op, Open, ClearSessions, RecordRunStart, RecordRunEnd, RecordPost,
        TouchSession, ClearAgentSessions, RegisterSender, ApproveSender
<1>1. CASE p.kind = "run_end"
  BY <1>1 DEF Visible, Effect, Snapshot
<1>2. CASE p.kind = "approve"
  BY <1>2 DEF Visible, Effect, Snapshot
<1>3. CASE p.kind = "post" /\ o.kind = "post"
  BY <1>3 DEF Visible, Effect, Snapshot
<1>4. CASE p.kind = "post" /\ o.kind # "post"
  BY <1>4 DEF Visible, Effect, Snapshot
<1> QED BY <1>1, <1>2, <1>3, <1>4

\* An update hides no other, except that a run that starts is not ended.
LEMMA EffectHidesNothing ==
  ASSUME NEW s \in Snapshot, NEW o \in Op, NEW p \in Op, Visible(p, s),
         ~(o.kind = "run_start" /\ p.kind = "run_end" /\ o.run = p.run)
  PROVE  Visible(p, Effect(o, s))
<1> USE DEF Op, Open, ClearSessions, RecordRunStart, RecordRunEnd, RecordPost,
        TouchSession, ClearAgentSessions, RegisterSender, ApproveSender
<1>1. CASE p.kind \in {"run_start", "run_end"}
  BY <1>1 DEF Visible, Effect, Snapshot
<1>2. CASE p.kind \in {"register", "approve"}
  BY <1>2 DEF Visible, Effect, Snapshot
<1>3. CASE p.kind = "post"
  BY <1>3 DEF Visible, Effect, Snapshot
<1>4. CASE p.kind \in {"touch_session", "open", "clear_sessions"}
  BY <1>4 DEF Visible
<1> QED BY <1>1, <1>2, <1>3, <1>4

\* An update whose predecessor is visible is visible itself once it is made.
LEMMA EffectIsVisible ==
  ASSUME NEW s \in Snapshot, NEW o \in Op,
         o.kind = "run_end" =>
           Visible([kind |-> "run_start", run |-> o.run], s)
  PROVE  Visible(o, Effect(o, s))
<1> USE DEF Op, Open, ClearSessions, RecordRunStart, RecordRunEnd, RecordPost,
        TouchSession, ClearAgentSessions, RegisterSender, ApproveSender
<1>1. CASE o.kind \in {"run_start", "run_end"}
  BY <1>1 DEF Visible, Effect, Snapshot
<1>2. CASE o.kind \in {"register", "approve"}
  BY <1>2 DEF Visible, Effect, Snapshot
<1>3. CASE o.kind = "post"
  <2> DEFINE new == [post |-> o.post, id |-> NextId(s.posts)]
  <2>1. Effect(o, s).posts = s.posts \cup {new}
    BY <1>3 DEF Effect, Snapshot
  <2>2. new.post = o.post
    OBVIOUS
  <2> HIDE DEF new
  <2> QED BY <1>3, <2>1, <2>2 DEF Visible
<1>4. CASE o.kind \in {"touch_session", "open", "clear_sessions"}
  BY <1>4 DEF Visible
<1> QED BY <1>1, <1>2, <1>3, <1>4

-----------------------------------------------------------------------------
(* The inductive invariant, one lemma per part.                            *)

LEMMA TypeOKStep ==
  TypeOK /\ IdInv /\ [Next]_vars => TypeOK'
<1> SUFFICES ASSUME TypeOK, IdInv, [Next]_vars
             PROVE  TypeOK'
  OBVIOUS
<1> USE StoreAssumption DEF TypeOK
<1>1. CASE UNCHANGED vars
  BY <1>1 DEF vars, storeVars, readerVars, historyVars
<1>2. ASSUME NEW t \in Threads, NEW o \in Op, Begin(t, o)
      PROVE  TypeOK'
  <2>1. Effect(o, file) \in Snapshot
    BY EffectKeepsShape DEF IdInv
  <2> QED BY <1>2, <2>1 DEF Begin, Refreshed, readerVars, historyVars
<1>3. ASSUME NEW t \in Threads, Persist(t)
      PROVE  TypeOK'
  BY <1>3 DEF Persist, Written, readerVars, Busy
<1>4. ASSUME NEW t \in Threads, PersistFails(t)
      PROVE  TypeOK'
  BY <1>4 DEF PersistFails, readerVars
<1>5. ASSUME NEW i \in Instances, Poll(i)
      PROVE  TypeOK'
  <2> DEFINE given == Listed(file.posts, cursor)
  <2>1. /\ given # {}
        /\ seen' = seen \cup {p.post : p \in given}
        /\ cursor' = NextId(given) - 1
        /\ snapshot' = [snapshot EXCEPT ![i] = file]
        /\ UNCHANGED <<file, opened, doing, completed, stale, clobbered>>
    BY <1>5 DEF Poll, Refreshed, historyVars
  <2>2. given \in SUBSET [post : Posts, id : Nat]
    BY DEF Snapshot, Listed, Above
  <2>3. NextId(given) - 1 \in Nat
    BY <2>1, ListedEndsWithLast DEF Snapshot, IdInv
  <2> QED BY <2>1, <2>2, <2>3
<1>6. ASSUME NEW i \in Instances, Stop(i)
      PROVE  TypeOK'
  BY <1>6 DEF Stop, readerVars
<1> QED BY <1>1, <1>2, <1>3, <1>4, <1>5, <1>6 DEF Next

LEMMA MutexStep ==
  TypeOK /\ MutexInv /\ [Next]_vars => MutexInv'
<1> SUFFICES ASSUME TypeOK, MutexInv, [Next]_vars
             PROVE  MutexInv'
  OBVIOUS
<1> USE StoreAssumption DEF TypeOK, MutexInv, Busy
<1>1. CASE UNCHANGED vars
  BY <1>1 DEF vars, storeVars
<1>2. ASSUME NEW t \in Threads, NEW o \in Op, Begin(t, o)
      PROVE  MutexInv'
  BY <1>2 DEF Begin, LockFree
<1>3. ASSUME NEW t \in Threads, Persist(t) \/ PersistFails(t)
      PROVE  MutexInv'
  BY <1>3 DEF Persist, PersistFails
<1>4. ASSUME NEW i \in Instances, Poll(i) \/ Stop(i)
      PROVE  MutexInv'
  BY <1>4 DEF Poll, Stop
<1> QED BY <1>1, <1>2, <1>3, <1>4 DEF Next

LEMMA FreshStep ==
  TypeOK /\ MutexInv /\ FreshInv /\ [Next]_vars => FreshInv'
<1> SUFFICES ASSUME TypeOK, MutexInv, FreshInv, [Next]_vars
             PROVE  FreshInv'
  OBVIOUS
<1> USE StoreAssumption DEF TypeOK, FreshInv, Busy
<1>1. CASE UNCHANGED vars
  BY <1>1 DEF vars, storeVars, historyVars
<1>2. ASSUME NEW t \in Threads, NEW o \in Op, Begin(t, o)
      PROVE  FreshInv'
  BY <1>2 DEF Begin, LockFree, Refreshed, historyVars
<1>3. ASSUME NEW t \in Threads, Persist(t)
      PROVE  FreshInv'
  BY <1>3 DEF Persist
<1>4. ASSUME NEW t \in Threads, PersistFails(t)
      PROVE  FreshInv'
  BY <1>4 DEF PersistFails
<1>5. ASSUME NEW i \in Instances, Poll(i)
      PROVE  FreshInv'
  BY <1>5 DEF Poll, LockFree, historyVars
<1>6. ASSUME NEW i \in Instances, Stop(i)
      PROVE  FreshInv'
  BY <1>6 DEF Stop
<1> QED BY <1>1, <1>2, <1>3, <1>4, <1>5, <1>6 DEF Next

LEMMA OrderStep ==
  TypeOK /\ OrderInv /\ [Next]_vars => OrderInv'
<1> SUFFICES ASSUME TypeOK, OrderInv, [Next]_vars
             PROVE  OrderInv'
  OBVIOUS
<1> USE StoreAssumption DEF TypeOK, OrderInv, Busy, Ready
<1>1. CASE UNCHANGED vars
  BY <1>1 DEF vars, storeVars, historyVars
<1>2. ASSUME NEW t \in Threads, NEW o \in Op, Begin(t, o)
      PROVE  OrderInv'
  BY <1>2 DEF Begin, historyVars
<1>3. ASSUME NEW t \in Threads, Persist(t)
      PROVE  OrderInv'
  BY <1>3 DEF Persist
<1>4. ASSUME NEW t \in Threads, PersistFails(t)
      PROVE  OrderInv'
  BY <1>4 DEF PersistFails
<1>5. ASSUME NEW i \in Instances, Poll(i) \/ Stop(i)
      PROVE  OrderInv'
  BY <1>5 DEF Poll, Stop, historyVars
<1> QED BY <1>1, <1>2, <1>3, <1>4, <1>5 DEF Next

LEMMA IdStep ==
  TypeOK /\ IdInv /\ [Next]_vars => IdInv'
<1> SUFFICES ASSUME TypeOK, IdInv, [Next]_vars
             PROVE  IdInv'
  OBVIOUS
<1> USE StoreAssumption DEF TypeOK, IdInv
<1>1. CASE UNCHANGED vars
  BY <1>1 DEF vars, storeVars
<1>2. ASSUME NEW t \in Threads, NEW o \in Op, Begin(t, o)
      PROVE  IdInv'
  <2>1. Numbered(Effect(o, file).posts)
    BY EffectKeepsShape
  <2> QED BY <1>2, <2>1 DEF Begin, Refreshed
<1>3. ASSUME NEW t \in Threads, Persist(t)
      PROVE  IdInv'
  BY <1>3 DEF Persist, Written
<1>4. ASSUME NEW t \in Threads, PersistFails(t)
      PROVE  IdInv'
  BY <1>4 DEF PersistFails
<1>5. ASSUME NEW i \in Instances, Poll(i) \/ Stop(i)
      PROVE  IdInv'
  BY <1>5 DEF Poll, Stop, Refreshed
<1> QED BY <1>1, <1>2, <1>3, <1>4, <1>5 DEF Next

LEMMA ProvenanceStep ==
  /\ TypeOK /\ MutexInv /\ IdInv /\ ProvenanceInv /\ [Next]_vars
  => ProvenanceInv'
<1> SUFFICES ASSUME TypeOK, MutexInv, IdInv, ProvenanceInv, [Next]_vars
             PROVE  ProvenanceInv'
  OBVIOUS
<1> USE StoreAssumption DEF TypeOK, ProvenanceInv, Busy
<1>1. CASE UNCHANGED vars
  BY <1>1 DEF vars, storeVars, historyVars
<1>2. ASSUME NEW t \in Threads, NEW o \in Op, Begin(t, o)
      PROVE  ProvenanceInv'
  <2>1. \A p \in Attributable :
          Visible(p, Effect(o, file)) => p \in completed \cup {o}
    BY EffectAddsItsOwn DEF IdInv
  <2> QED BY <1>2, <2>1 DEF Begin, LockFree, Refreshed, historyVars
<1>3. ASSUME NEW t \in Threads, Persist(t)
      PROVE  ProvenanceInv'
  BY <1>3 DEF Persist, Written
<1>4. ASSUME NEW t \in Threads, PersistFails(t)
      PROVE  ProvenanceInv'
  BY <1>4 DEF PersistFails
<1>5. ASSUME NEW i \in Instances, Poll(i)
      PROVE  ProvenanceInv'
  BY <1>5 DEF Poll, LockFree, historyVars
<1>6. ASSUME NEW i \in Instances, Stop(i)
      PROVE  ProvenanceInv'
  BY <1>6 DEF Stop
<1> QED BY <1>1, <1>2, <1>3, <1>4, <1>5, <1>6 DEF Next

\* A rename by a thread that is not stale adds its update to the file.
LEMMA FreshPersist ==
  ASSUME TypeOK, FreshInv, NEW t \in Threads, t \notin stale, Persist(t)
  PROVE  /\ doing[t] \in Op
         /\ Applies(doing[t], file)
         /\ file' = Effect(doing[t], file)
         /\ completed' = completed \cup {doing[t]}
BY StoreAssumption DEF TypeOK, FreshInv, Busy, Persist, Written

LEMMA LossStep ==
  /\ TypeOK /\ FreshInv /\ OrderInv /\ LossNeedsStaleWriter /\ [Next]_vars
  => LossNeedsStaleWriter'
<1> SUFFICES ASSUME TypeOK, FreshInv, OrderInv, LossNeedsStaleWriter,
                    [Next]_vars
             PROVE  LossNeedsStaleWriter'
  OBVIOUS
<1> USE DEF LossNeedsStaleWriter, Lost
<1>1. CASE UNCHANGED vars
  BY <1>1 DEF vars, storeVars, historyVars
<1>2. ASSUME NEW t \in Threads, NEW o \in Op, Begin(t, o)
      PROVE  LossNeedsStaleWriter'
  BY <1>2 DEF Begin, historyVars
<1>3. ASSUME NEW t \in Threads, Persist(t)
      PROVE  LossNeedsStaleWriter'
  <2>1. CASE clobbered \/ t \in stale
    BY <1>3, <2>1 DEF Persist
  <2>2. CASE ~clobbered /\ t \notin stale
    <3> DEFINE o == doing[t]
    <3>1. /\ o \in Op
          /\ file' = Effect(o, file)
          /\ completed' = completed \cup {o}
      BY <1>3, <2>2, FreshPersist
    <3>2. /\ \A p \in completed : Visible(p, file)
          /\ file \in Snapshot
          /\ completed \subseteq Op
      BY <2>2 DEF TypeOK
    <3>3. t \in Busy
      BY <1>3 DEF Persist, Busy
    <3>4. o.kind = "run_end" =>
            Visible([kind |-> "run_start", run |-> o.run], file)
      BY <3>2, <3>3 DEF OrderInv, Ready
    <3>5. Visible(o, Effect(o, file))
      BY <3>1, <3>2, <3>4, EffectIsVisible
    <3>6. ASSUME NEW p \in completed
          PROVE  Visible(p, Effect(o, file))
      <4>1. ~(o.kind = "run_start" /\ p.kind = "run_end" /\ o.run = p.run)
        <5> SUFFICES ASSUME o.kind = "run_start", p.kind = "run_end",
                            o.run = p.run
                     PROVE  FALSE
          OBVIOUS
        <5>1. [kind |-> "run_start", run |-> o.run] \in completed
          BY DEF OrderInv, Ready
        <5>2. o = [kind |-> "run_start", run |-> o.run]
          BY <3>1 DEF Op, Open, ClearSessions
        <5> QED BY <3>3, <5>1, <5>2 DEF OrderInv, Open
      <4> QED BY <3>1, <3>2, <4>1, EffectHidesNothing
    <3> QED BY <3>1, <3>5, <3>6
  <2> QED BY <2>1, <2>2
<1>4. ASSUME NEW t \in Threads, PersistFails(t)
      PROVE  LossNeedsStaleWriter'
  BY <1>4 DEF PersistFails
<1>5. ASSUME NEW i \in Instances, Poll(i) \/ Stop(i)
      PROVE  LossNeedsStaleWriter'
  BY <1>5 DEF Poll, Stop, historyVars
<1> QED BY <1>1, <1>2, <1>3, <1>4, <1>5 DEF Next

LEMMA InitIInv == Init => IInv
<1> SUFFICES ASSUME Init PROVE IInv
  OBVIOUS
<1> USE StoreAssumption DEF Init, EmptySnapshot, Busy
<1>1. TypeOK
  BY DEF TypeOK, Snapshot
<1>2. MutexInv /\ FreshInv /\ OrderInv
  BY DEF MutexInv, FreshInv, OrderInv
<1>3. IdInv
  BY FS_EmptySet DEF IdInv, Numbered, Distinct, HasLast
<1>4. ProvenanceInv
  BY DEF ProvenanceInv, Attributable, Visible, Op, Open, ClearSessions
<1>5. LossNeedsStaleWriter
  BY DEF LossNeedsStaleWriter, Lost
<1> QED BY <1>1, <1>2, <1>3, <1>4, <1>5 DEF IInv

\* The inductive invariant of the store, for every set of threads and
\* instances: mutexes, fresh snapshots, call order, ids and provenance.
THEOREM Invariance == Spec => []IInv
<1>1. IInv /\ [Next]_vars => IInv'
  BY TypeOKStep, MutexStep, FreshStep, OrderStep, IdStep, ProvenanceStep,
     LossStep DEF IInv
<1> QED BY InitIInv, <1>1, PTL DEF Spec

\* A completed update of the state file disappears only if some instance
\* renamed a snapshot older than the file over it (persist_locked).
THEOREM LossOnlyByStaleWriters == Spec => []LossNeedsStaleWriter
<1>1. IInv => LossNeedsStaleWriter
  BY DEF IInv
<1> QED BY Invariance, <1>1, PTL

\* An update that returned an error stays invisible, although refresh_locked
\* leaves it in the memory of its instance until the next call.
THEOREM FailedUpdatesAreInvisible == Spec => []FailedUpdatesStayInvisible
<1>1. IInv => FailedUpdatesStayInvisible
  BY DEF IInv, ProvenanceInv, FailedUpdatesStayInvisible
<1> QED BY Invariance, <1>1, PTL

\* The numbered records of one state file carry distinct ids (normalize_ids),
\* however many instances write it.
THEOREM RecordIdsAreDistinct == Spec => []PostIdsDistinct
<1>1. IInv => PostIdsDistinct
  BY DEF IInv, IdInv, Numbered, PostIdsDistinct
<1> QED BY Invariance, <1>1, PTL

-----------------------------------------------------------------------------
(* A reader that polls by id.                                              *)

\* The cursor of the reader is not ahead of the ids in the file.
CursorInv ==
  ~clobbered => cursor = 0 \/ \E p \in file.posts : cursor <= p.id

\* The only change to the posts is one with the next id.
LEMMA EffectOnPosts ==
  ASSUME NEW s \in Snapshot, NEW o \in Op
  PROVE  \/ Effect(o, s).posts = s.posts
         \/ \E x \in Posts :
              Effect(o, s).posts = s.posts \cup {[post |-> x, id |-> NextId(s.posts)]}
<1> USE DEF Op, Open, ClearSessions, RecordRunStart, RecordRunEnd, RecordPost,
        TouchSession, ClearAgentSessions, RegisterSender, ApproveSender
<1>1. CASE o.kind = "post"
  <2>1. o.post \in Posts
    BY <1>1
  <2>2. Effect(o, s).posts = s.posts \cup {[post |-> o.post, id |-> NextId(s.posts)]}
    BY <1>1 DEF Effect, Snapshot
  <2> QED BY <2>1, <2>2
<1>2. CASE o.kind # "post"
  BY <1>2 DEF Effect, Snapshot
<1> QED BY <1>1, <1>2

\* A poll: what it skips lies below Limit posts that it lists.
LEMMA PollSkipsBursts ==
  ASSUME IInv, CursorInv, PollMissesBurstsOnly,
         NEW i \in Instances, Poll(i)
  PROVE  CursorInv' /\ PollMissesBurstsOnly'
<1> DEFINE given == Listed(file.posts, cursor)
<1>1. /\ given # {}
      /\ seen' = seen \cup {p.post : p \in given}
      /\ cursor' = NextId(given) - 1
      /\ UNCHANGED <<file, clobbered>>
  BY DEF Poll, Refreshed, historyVars
<1>2. /\ cursor \in Nat
      /\ file.posts \in SUBSET [post : Posts, id : Nat]
      /\ \A p \in file.posts : p.id \in Nat
      /\ Numbered(file.posts)
  BY DEF IInv, TypeOK, Snapshot, IdInv
<1>3. /\ cursor' \in Nat /\ cursor' > cursor
      /\ \E p \in file.posts : p.id = cursor'
      /\ \A q \in file.posts : q.id <= cursor'
  BY <1>1, <1>2, ListedEndsWithLast
<1>4. CursorInv'
  BY <1>1, <1>2, <1>3 DEF CursorInv
<1>5. ASSUME ~clobbered', NEW p \in file.posts,
             ~(p.id > cursor'), p.post \notin seen'
      PROVE  Burst(p)'
  <2> DEFINE upto(c) == {q \in file.posts : p.id < q.id /\ q.id <= c}
  <2>1. p \notin given /\ p.post \notin seen
    BY <1>1, <1>5
  <2>2. upto(cursor) \subseteq upto(cursor') /\ upto(cursor') \subseteq file.posts
    BY <1>2, <1>3
  <2>3. /\ Cardinality(upto(cursor)) <= Cardinality(upto(cursor'))
        /\ Cardinality(upto(cursor)) \in Nat
        /\ Cardinality(upto(cursor')) \in Nat
    <3>1. IsFiniteSet(upto(cursor')) /\ IsFiniteSet(upto(cursor))
      BY <1>2, <2>2, FS_Subset DEF Numbered
    <3> HIDE DEF upto
    <3> QED
      BY <2>2, <3>1, FS_Subset, FS_CardinalityType
  <2>4. Cardinality(upto(cursor')) >= Limit
    <3>1. CASE p.id > cursor
      <4>1. Above(p.id, file.posts) = upto(cursor')
        BY <1>2, <1>3 DEF Above
      <4>2. ~(Cardinality(Above(p.id, file.posts)) < Limit)
        BY <2>1, <3>1 DEF Listed, Above
      <4> QED
        BY <4>1, <4>2, <2>3, StoreAssumption
    <3>2. CASE ~(p.id > cursor)
      <4>1. Cardinality(upto(cursor)) >= Limit
        BY <1>1, <1>5, <2>1, <3>2 DEF PollMissesBurstsOnly, Burst
      <4> HIDE DEF upto
      <4> QED
        BY <4>1, <2>3, StoreAssumption
    <3> QED
      BY <3>1, <3>2
  <2> QED
    BY <1>1, <2>4 DEF Burst
<1> QED
  BY <1>1, <1>4, <1>5 DEF PollMissesBurstsOnly

\* A post with the next id leaves the bursts bursts.
LEMMA BurstGrows ==
  ASSUME NEW p, Burst(p), file.posts \subseteq file'.posts,
         IsFiniteSet(file'.posts), UNCHANGED cursor
  PROVE  Burst(p)'
<1> DEFINE old == {q \in file.posts : p.id < q.id /\ q.id <= cursor}
           now == {q \in file'.posts : p.id < q.id /\ q.id <= cursor}
<1>1. old \subseteq now /\ now \subseteq file'.posts
  OBVIOUS
<1>2. Cardinality(old) >= Limit /\ (Cardinality(now) >= Limit => Burst(p)')
  BY DEF Burst
<1> HIDE DEF old, now
<1>3. /\ IsFiniteSet(now) /\ IsFiniteSet(old)
      /\ Cardinality(old) <= Cardinality(now)
  BY <1>1, FS_Subset
<1> QED
  BY <1>2, <1>3, FS_CardinalityType, StoreAssumption

LEMMA PollStep ==
  ASSUME IInv, IInv', CursorInv, PollMissesBurstsOnly, [Next]_vars
  PROVE  CursorInv' /\ PollMissesBurstsOnly'
<1> USE DEF CursorInv, PollMissesBurstsOnly
<1>1. CASE UNCHANGED vars
  BY <1>1 DEF vars, storeVars, readerVars, historyVars, Burst
<1>2. ASSUME NEW t \in Threads, NEW o \in Op, Begin(t, o)
      PROVE  CursorInv' /\ PollMissesBurstsOnly'
  BY <1>2 DEF Begin, readerVars, historyVars, Burst
<1>3. ASSUME NEW t \in Threads, Persist(t)
      PROVE  CursorInv' /\ PollMissesBurstsOnly'
  <2>1. CASE clobbered'
    BY <2>1
  <2>2. CASE ~clobbered'
    <3>1. /\ ~clobbered /\ t \notin stale
          /\ UNCHANGED <<cursor, seen>>
      BY <1>3, <2>2 DEF Persist, readerVars
    <3>2. doing[t] \in Op /\ file' = Effect(doing[t], file)
      BY <1>3, <3>1, FreshPersist DEF IInv
    <3>3. /\ file \in Snapshot /\ cursor \in Nat
          /\ \A p \in file.posts : p.id \in Nat
      BY DEF IInv, TypeOK, Snapshot
    <3>4. CASE file'.posts = file.posts
      BY <3>1, <3>4 DEF Burst
    <3>5. ASSUME NEW x \in Posts,
                 file'.posts = file.posts
                                 \cup {[post |-> x, id |-> NextId(file.posts)]}
          PROVE  CursorInv' /\ PollMissesBurstsOnly'
      <4> DEFINE new == [post |-> x, id |-> NextId(file.posts)]
      <4>1. new.id \in Nat /\ \A p \in file.posts : p.id < new.id
        BY <3>3, NextIdIsFresh DEF IInv, IdInv, Numbered, Snapshot
      <4>2. file'.posts = file.posts \cup {new}
        BY <3>5
      <4> HIDE DEF new
      <4>3. cursor < new.id \/ cursor = 0
        BY <3>1, <3>3, <4>1
      <4>4. new.id > 0
        BY <3>3, NextIdIsFresh DEF new, IInv, IdInv, Numbered, Snapshot
      <4>5. IsFiniteSet(file'.posts)
        BY DEF IInv, IdInv, Numbered
      <4>6. \A p \in file.posts : Burst(p) => Burst(p)'
        BY <3>1, <4>2, <4>5, BurstGrows
      <4> QED BY <3>1, <3>3, <4>1, <4>2, <4>3, <4>4, <4>6
    <3> QED BY <3>2, <3>3, <3>4, <3>5, EffectOnPosts
  <2> QED BY <2>1, <2>2
<1>4. ASSUME NEW t \in Threads, PersistFails(t)
      PROVE  CursorInv' /\ PollMissesBurstsOnly'
  BY <1>4 DEF PersistFails, readerVars, Burst
<1>5. ASSUME NEW i \in Instances, Poll(i)
      PROVE  CursorInv' /\ PollMissesBurstsOnly'
  BY <1>5, PollSkipsBursts
<1>6. ASSUME NEW i \in Instances, Stop(i)
      PROVE  CursorInv' /\ PollMissesBurstsOnly'
  BY <1>6 DEF Stop, readerVars, Burst
<1> QED BY <1>1, <1>2, <1>3, <1>4, <1>5, <1>6 DEF Next

\* As long as no stale snapshot is renamed, a reader that polls with the last
\* id it was given is given every post but those that a single poll could not
\* hold (list_chatroom_messages).
THEOREM ReadersMissBurstsOnly == Spec => []PollMissesBurstsOnly
<1>1. Init => CursorInv /\ PollMissesBurstsOnly
  BY DEF Init, EmptySnapshot, CursorInv, PollMissesBurstsOnly
<1>2. /\ IInv /\ IInv' /\ CursorInv /\ PollMissesBurstsOnly /\ [Next]_vars
      => CursorInv' /\ PollMissesBurstsOnly'
  BY PollStep
<1> QED BY Invariance, <1>1, <1>2, PTL DEF Spec

-----------------------------------------------------------------------------
(* One instance, as the daemon's queue and heartbeat share.                *)

\* With one instance nobody becomes stale.
NoneStale == stale = {}

LEMMA SharedStep ==
  ASSUME \A t, u \in Threads : InstanceOf[t] = InstanceOf[u],
         IInv, NoneStale, [Next]_vars
  PROVE  NoneStale'
<1> USE DEF NoneStale, IInv, TypeOK, MutexInv, Busy
<1>1. CASE UNCHANGED vars
  BY <1>1 DEF vars, historyVars
<1>2. ASSUME NEW t \in Threads, NEW o \in Op, Begin(t, o)
      PROVE  NoneStale'
  BY <1>2 DEF Begin, historyVars
<1>3. ASSUME NEW t \in Threads, Persist(t)
      PROVE  NoneStale'
  BY <1>3 DEF Persist
<1>4. ASSUME NEW t \in Threads, PersistFails(t)
      PROVE  NoneStale'
  BY <1>4 DEF PersistFails
<1>5. ASSUME NEW i \in Instances, Poll(i) \/ Stop(i)
      PROVE  NoneStale'
  BY <1>5 DEF Poll, Stop, historyVars
<1> QED BY <1>1, <1>2, <1>3, <1>4, <1>5 DEF Next

\* The operations of the atomic store are those of this one.
LEMMA AtomicIsTheSame ==
  /\ Atomic!Op = Op
  /\ \A o, s : Atomic!Effect(o, s) = Effect(o, s)
  /\ \A o, s : Atomic!Applies(o, s) = Applies(o, s)
<1>1. Atomic!Op = Op
  BY DEF Op, Open, ClearSessions, Atomic!Op, Atomic!Open, Atomic!ClearSessions
<1>2. \A o, s : Atomic!Effect(o, s) = Effect(o, s)
  BY Zenon DEF Effect, NextId, RecordRunStart, RecordRunEnd, RecordPost,
       TouchSession, ClearAgentSessions, RegisterSender, ApproveSender,
       Atomic!Effect, Atomic!NextId, Atomic!RecordRunStart,
       Atomic!RecordRunEnd, Atomic!RecordPost, Atomic!TouchSession,
       Atomic!ClearAgentSessions, Atomic!RegisterSender,
       Atomic!ApproveSender
<1>3. \A o, s : Atomic!Applies(o, s) = Applies(o, s)
  BY Zenon DEF Applies, Atomic!Applies
<1> QED BY <1>1, <1>2, <1>3

\* A step of the store is a step of the atomic store, a stutter, or the rename
\* of a stale snapshot.
LEMMA StepIsAtomic ==
  ASSUME IInv, [Next]_vars
  PROVE  \/ UNCHANGED <<file, completed>>
         \/ Atomic!Next
         \/ \E t \in stale : Persist(t)
<1>1. CASE UNCHANGED vars
  BY <1>1 DEF vars, storeVars, historyVars
<1>2. ASSUME NEW t \in Threads, NEW o \in Op, Begin(t, o)
      PROVE  UNCHANGED <<file, completed>>
  BY <1>2 DEF Begin, historyVars
<1>3. ASSUME NEW t \in Threads, Persist(t)
      PROVE  Atomic!Next \/ \E u \in stale : Persist(u)
  <2>1. CASE t \in stale
    BY <1>3, <2>1
  <2>2. CASE t \notin stale
    <3>1. /\ doing[t] \in Op
          /\ Applies(doing[t], file)
          /\ file' = Effect(doing[t], file)
          /\ completed' = completed \cup {doing[t]}
      BY <1>3, <2>2, FreshPersist DEF IInv
    <3> QED BY <3>1, AtomicIsTheSame DEF Atomic!Next, Atomic!Update
  <2> QED BY <2>1, <2>2
<1>4. ASSUME NEW t \in Threads, PersistFails(t)
      PROVE  UNCHANGED <<file, completed>>
  BY <1>4 DEF PersistFails
<1>5. ASSUME NEW i \in Instances, Poll(i) \/ Stop(i)
      PROVE  UNCHANGED <<file, completed>>
  BY <1>5 DEF Poll, Stop, historyVars
<1> QED BY <1>1, <1>2, <1>3, <1>4, <1>5 DEF Next

LEMMA AtomicInit == Init => Atomic!Init
BY DEF Init, Atomic!Init, EmptySnapshot, Atomic!EmptySnapshot

\* Whatever instances the threads use, every update that returns Ok took effect
\* on the content it read in one step, unless it renamed a stale snapshot.
THEOREM FreshUpdatesAreAtomic == Spec => UpdatesAreAtomic
<1>1. IInv /\ [Next]_vars
        => [Atomic!Next \/ \E t \in stale : Persist(t)]_<<file, completed>>
  BY StepIsAtomic
<1> QED BY Invariance, AtomicInit, <1>1, PTL DEF Spec, UpdatesAreAtomic

\* The threads of one StateStore instance see an atomic store: every update
\* that returns Ok took effect in one step, and no other one did.
THEOREM OneInstanceIsAtomic ==
  ASSUME \A t, u \in Threads : InstanceOf[t] = InstanceOf[u]
  PROVE  Spec => OneStore
<1>1. Init => NoneStale
  BY DEF Init, NoneStale
<1>2. IInv /\ NoneStale /\ [Next]_vars => NoneStale'
  BY SharedStep
<1>3. IInv /\ NoneStale /\ [Next]_vars
        => [Atomic!Next]_<<file, completed>>
  BY StepIsAtomic DEF NoneStale
<1> QED BY Invariance, AtomicInit, <1>1, <1>2, <1>3, PTL
        DEF Spec, OneStore, Atomic!Spec
=============================================================================
