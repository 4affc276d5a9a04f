------------------------ MODULE QueueProcessorProofs ------------------------
(***************************************************************************)
(* Proofs about QueueProcessor for every set of messages and agents and    *)
(* every value of the bounds: type correctness, the inductive invariant,   *)
(* the safety properties it implies, the backoff action property, and that *)
(* the queue implements MessageDelivery.                                   *)
(*                                                                         *)
(* TaskPipeline implements the queue in turn, so what is proved of the     *)
(* queue holds with plugins, browsers and CLIs that hang too; and one      *)
(* profile has two live browsers only after one of them was given up.      *)
(***************************************************************************)
EXTENDS TaskPipeline, FiniteSetTheorems, TLAPS

\* Type correctness is inductive on its own.
LEMMA TypeOKStep ==
  TypeOK /\ [Next]_vars => TypeOK'
<1> SUFFICES ASSUME TypeOK, [Next]_vars
             PROVE  TypeOK'
  OBVIOUS
<1> USE QueueAssumption DEF TypeOK, fileVars, producerVars, taskVars,
        lockVars, historyVars, Locations,
        Steps, HoldingLock, HoldingPermit, Goto
<1>1. CASE UNCHANGED vars
  BY <1>1 DEF vars
<1>2. CASE Daemon
  <2>1. CASE Scan
    BY <2>1 DEF Scan, Scannable
  <2>2. CASE Crash
    BY <2>2 DEF Crash
  <2>3. CASE Restart
    BY <2>3 DEF Restart
  <2>4. CASE StartScanning
    BY <2>4 DEF StartScanning
  <2> QED BY <1>2, <2>1, <2>2, <2>3, <2>4 DEF Daemon
<1>3. ASSUME NEW m \in Msgs, Producer(m) \/ Elapse(m) \/ Recover(m)
      PROVE  TypeOK'
  <2>1. CASE EnqueueOpen(m)
    BY <2>1 DEF EnqueueOpen
  <2>2. CASE EnqueueClose(m)
    BY <2>2 DEF EnqueueClose
  <2>3. CASE ProducerDies(m)
    BY <2>3 DEF ProducerDies
  <2>4. CASE Elapse(m)
    BY <2>4 DEF Elapse
  <2>5. CASE Recover(m)
    BY <2>5 DEF Recover
  <2> QED BY <1>3, <2>1, <2>2, <2>3, <2>4, <2>5 DEF Producer
<1>4. ASSUME NEW m \in Msgs, ClaimStep(m)
      PROVE  TypeOK'
  <2>1. ASSUME NEW n \in 0 .. name[m], Claim(m, n)
        PROVE  TypeOK'
    BY <2>1 DEF Claim
  <2>2. ASSUME NEW n \in 0 .. name[m], ClaimMiss(m, n)
        PROVE  TypeOK'
    BY <2>2 DEF ClaimMiss
  <2> QED BY <1>4, <2>1, <2>2 DEF ClaimStep
<1>5. ASSUME NEW m \in Msgs, TaskStep(m)
      PROVE  TypeOK'
  <2>1. CASE ReadFails(m)
    BY <2>1 DEF ReadFails, Abandon
  <2>2. ASSUME NEW a \in Agents, Route(m, a)
        PROVE  TypeOK'
    BY <2>2 DEF Route
  <2>3. CASE AcquireAgent(m)
    BY <2>3 DEF AcquireAgent, LockFree
  <2>4. CASE AcquirePermit(m)
    BY <2>4 DEF AcquirePermit, PermitFree
  <2>5. CASE StartRun(m)
    BY <2>5 DEF StartRun
  <2>6. CASE RunSucceeds(m)
    BY <2>6 DEF RunSucceeds
  <2>11. CASE RunFails(m)
    BY <2>11 DEF RunFails
  <2>7. CASE WriteOutgoing(m)
    BY <2>7 DEF WriteOutgoing
  <2>8. CASE ReturnOk(m)
    BY <2>8 DEF ReturnOk, ReleaseGuards
  <2>9. CASE ReturnErr(m)
    BY <2>9 DEF ReturnErr, ReleaseGuards
  <2>10. CASE RemoveFile(m)
    BY <2>10 DEF RemoveFile
  <2> QED BY <1>5, <2>1, <2>2, <2>3, <2>4, <2>5, <2>6, <2>7,
             <2>8, <2>9, <2>10, <2>11 DEF TaskStep
<1>6. ASSUME NEW m \in Msgs, FailureStep(m)
      PROVE  TypeOK'
  <2>1. CASE Discard(m) /\ Exhausted(m) /\ ~DeadLetterEnabled
    BY <2>1 DEF Discard, Exhausted
  <2>2. CASE RewriteOpen(m) /\ (~Exhausted(m) \/ DeadLetterEnabled)
    BY <2>2 DEF RewriteOpen, Exhausted
  <2>3. CASE RewriteClose(m)
    BY <2>3 DEF RewriteClose
  <2>4. CASE Requeue(m)
    BY <2>4 DEF Requeue
  <2>5. CASE DeadLetter(m)
    BY <2>5 DEF DeadLetter
  <2>6. CASE SettleFails(m)
    BY <2>6 DEF SettleFails, Abandon
  <2> QED BY <1>6, <2>1, <2>2, <2>3, <2>4, <2>5, <2>6 DEF FailureStep, Dispose
<1> QED
  BY <1>1, <1>2, <1>3, <1>4, <1>5, <1>6 DEF Next

\* A lock is held by exactly the task that stands between its acquisition
\* and its release, whatever path the task takes.
LEMMA LockStep ==
  TypeOK /\ TaskInv /\ LockInv /\ [Next]_vars => LockInv'
<1> SUFFICES ASSUME TypeOK /\ TaskInv /\ LockInv, [Next]_vars
             PROVE  LockInv'
  OBVIOUS
<1> USE QueueAssumption DEF TypeOK, TaskInv, LockInv, fileVars, producerVars, taskVars,
        lockVars, historyVars, Steps,
        HoldingLock, HoldingPermit, Goto
<1>1. CASE UNCHANGED vars
  BY <1>1 DEF vars
<1>2. CASE Daemon
  <2>1. CASE Scan
    BY <2>1 DEF Scan, Scannable
  <2>2. CASE Crash
    BY <2>2 DEF Crash
  <2>3. CASE Restart
    BY <2>3 DEF Restart
  <2>4. CASE StartScanning
    BY <2>4 DEF StartScanning
  <2> QED BY <1>2, <2>1, <2>2, <2>3, <2>4 DEF Daemon
<1>3. ASSUME NEW m \in Msgs, Producer(m) \/ Elapse(m) \/ Recover(m)
      PROVE  LockInv'
  <2>1. CASE EnqueueOpen(m)
    BY <2>1 DEF EnqueueOpen
  <2>2. CASE EnqueueClose(m)
    BY <2>2 DEF EnqueueClose
  <2>3. CASE ProducerDies(m)
    BY <2>3 DEF ProducerDies
  <2>4. CASE Elapse(m)
    BY <2>4 DEF Elapse
  <2>5. CASE Recover(m)
    BY <2>5 DEF Recover
  <2> QED BY <1>3, <2>1, <2>2, <2>3, <2>4, <2>5 DEF Producer
<1>4. ASSUME NEW m \in Msgs, ClaimStep(m)
      PROVE  LockInv'
  <2>1. ASSUME NEW n \in 0 .. name[m], Claim(m, n)
        PROVE  LockInv'
    BY <2>1 DEF Claim
  <2>2. ASSUME NEW n \in 0 .. name[m], ClaimMiss(m, n)
        PROVE  LockInv'
    BY <2>2 DEF ClaimMiss
  <2> QED BY <1>4, <2>1, <2>2 DEF ClaimStep
<1>5. ASSUME NEW m \in Msgs, TaskStep(m)
      PROVE  LockInv'
  <2>1. CASE ReadFails(m)
    BY <2>1 DEF ReadFails, Abandon
  <2>2. ASSUME NEW a \in Agents, Route(m, a)
        PROVE  LockInv'
    BY <2>2 DEF Route
  <2>3. CASE AcquireAgent(m)
    BY <2>3 DEF AcquireAgent, LockFree
  <2>4. CASE AcquirePermit(m)
    BY <2>4 DEF AcquirePermit, PermitFree
  <2>5. CASE StartRun(m)
    BY <2>5 DEF StartRun
  <2>6. CASE RunSucceeds(m)
    BY <2>6 DEF RunSucceeds
  <2>11. CASE RunFails(m)
    BY <2>11 DEF RunFails
  <2>7. CASE WriteOutgoing(m)
    BY <2>7 DEF WriteOutgoing
  <2>8. CASE ReturnOk(m)
    BY <2>8 DEF ReturnOk, ReleaseGuards
  <2>9. CASE ReturnErr(m)
    BY <2>9 DEF ReturnErr, ReleaseGuards
  <2>10. CASE RemoveFile(m)
    BY <2>10 DEF RemoveFile
  <2> QED BY <1>5, <2>1, <2>2, <2>3, <2>4, <2>5, <2>6, <2>7,
             <2>8, <2>9, <2>10, <2>11 DEF TaskStep
<1>6. ASSUME NEW m \in Msgs, FailureStep(m)
      PROVE  LockInv'
  <2>1. CASE Discard(m) /\ Exhausted(m) /\ ~DeadLetterEnabled
    BY <2>1 DEF Discard, Exhausted
  <2>2. CASE RewriteOpen(m) /\ (~Exhausted(m) \/ DeadLetterEnabled)
    BY <2>2 DEF RewriteOpen, Exhausted
  <2>3. CASE RewriteClose(m)
    BY <2>3 DEF RewriteClose
  <2>4. CASE Requeue(m)
    BY <2>4 DEF Requeue
  <2>5. CASE DeadLetter(m)
    BY <2>5 DEF DeadLetter
  <2>6. CASE SettleFails(m)
    BY <2>6 DEF SettleFails, Abandon
  <2> QED BY <1>6, <2>1, <2>2, <2>3, <2>4, <2>5, <2>6 DEF FailureStep, Dispose
<1> QED
  BY <1>1, <1>2, <1>3, <1>4, <1>5, <1>6 DEF Next

\* Only a scanning daemon has tasks, and a task's file is in processing.
LEMMA TaskStepInv ==
  TypeOK /\ TaskInv /\ [Next]_vars => TaskInv'
<1> SUFFICES ASSUME TypeOK /\ TaskInv, [Next]_vars
             PROVE  TaskInv'
  OBVIOUS
<1> USE QueueAssumption DEF TypeOK, TaskInv, fileVars, producerVars, taskVars,
        lockVars, historyVars, Locations,
        Steps, HoldingLock, HoldingPermit, Goto
<1>1. CASE UNCHANGED vars
  BY <1>1 DEF vars
<1>2. CASE Daemon
  <2>1. CASE Scan
    BY <2>1 DEF Scan, Scannable
  <2>2. CASE Crash
    BY <2>2 DEF Crash
  <2>3. CASE Restart
    BY <2>3 DEF Restart
  <2>4. CASE StartScanning
    BY <2>4 DEF StartScanning
  <2> QED BY <1>2, <2>1, <2>2, <2>3, <2>4 DEF Daemon
<1>3. ASSUME NEW m \in Msgs, Producer(m) \/ Elapse(m) \/ Recover(m)
      PROVE  TaskInv'
  <2>1. CASE EnqueueOpen(m)
    BY <2>1 DEF EnqueueOpen
  <2>2. CASE EnqueueClose(m)
    BY <2>2 DEF EnqueueClose
  <2>3. CASE ProducerDies(m)
    BY <2>3 DEF ProducerDies
  <2>4. CASE Elapse(m)
    BY <2>4 DEF Elapse
  <2>5. CASE Recover(m)
    BY <2>5 DEF Recover
  <2> QED BY <1>3, <2>1, <2>2, <2>3, <2>4, <2>5 DEF Producer
<1>4. ASSUME NEW m \in Msgs, ClaimStep(m)
      PROVE  TaskInv'
  <2>1. ASSUME NEW n \in 0 .. name[m], Claim(m, n)
        PROVE  TaskInv'
    BY <2>1 DEF Claim
  <2>2. ASSUME NEW n \in 0 .. name[m], ClaimMiss(m, n)
        PROVE  TaskInv'
    BY <2>2 DEF ClaimMiss
  <2> QED BY <1>4, <2>1, <2>2 DEF ClaimStep
<1>5. ASSUME NEW m \in Msgs, TaskStep(m)
      PROVE  TaskInv'
  <2>1. CASE ReadFails(m)
    BY <2>1 DEF ReadFails, Abandon
  <2>2. ASSUME NEW a \in Agents, Route(m, a)
        PROVE  TaskInv'
    BY <2>2 DEF Route
  <2>3. CASE AcquireAgent(m)
    BY <2>3 DEF AcquireAgent, LockFree
  <2>4. CASE AcquirePermit(m)
    BY <2>4 DEF AcquirePermit, PermitFree
  <2>5. CASE StartRun(m)
    BY <2>5 DEF StartRun
  <2>6. CASE RunSucceeds(m)
    BY <2>6 DEF RunSucceeds
  <2>11. CASE RunFails(m)
    BY <2>11 DEF RunFails
  <2>7. CASE WriteOutgoing(m)
    BY <2>7 DEF WriteOutgoing
  <2>8. CASE ReturnOk(m)
    BY <2>8 DEF ReturnOk, ReleaseGuards
  <2>9. CASE ReturnErr(m)
    BY <2>9 DEF ReturnErr, ReleaseGuards
  <2>10. CASE RemoveFile(m)
    BY <2>10 DEF RemoveFile
  <2> QED BY <1>5, <2>1, <2>2, <2>3, <2>4, <2>5, <2>6, <2>7,
             <2>8, <2>9, <2>10, <2>11 DEF TaskStep
<1>6. ASSUME NEW m \in Msgs, FailureStep(m)
      PROVE  TaskInv'
  <2>1. CASE Discard(m) /\ Exhausted(m) /\ ~DeadLetterEnabled
    BY <2>1 DEF Discard, Exhausted
  <2>2. CASE RewriteOpen(m) /\ (~Exhausted(m) \/ DeadLetterEnabled)
    BY <2>2 DEF RewriteOpen, Exhausted
  <2>3. CASE RewriteClose(m)
    BY <2>3 DEF RewriteClose
  <2>4. CASE Requeue(m)
    BY <2>4 DEF Requeue
  <2>5. CASE DeadLetter(m)
    BY <2>5 DEF DeadLetter
  <2>6. CASE SettleFails(m)
    BY <2>6 DEF SettleFails, Abandon
  <2> QED BY <1>6, <2>1, <2>2, <2>3, <2>4, <2>5, <2>6 DEF FailureStep, Dispose
<1> QED
  BY <1>1, <1>2, <1>3, <1>4, <1>5, <1>6 DEF Next

\* Requeueing under a fresh name is what keeps stale paths harmless.
LEMMA SpawnStep ==
  TypeOK /\ TaskInv /\ SpawnInv /\ [Next]_vars => SpawnInv'
<1> SUFFICES ASSUME TypeOK /\ TaskInv /\ SpawnInv, [Next]_vars
             PROVE  SpawnInv'
  OBVIOUS
<1> USE QueueAssumption DEF TypeOK, TaskInv, SpawnInv, fileVars, producerVars, taskVars,
        lockVars, historyVars, Locations,
        Steps, HoldingLock, HoldingPermit, Goto
<1>1. CASE UNCHANGED vars
  BY <1>1 DEF vars
<1>2. CASE Daemon
  <2>1. CASE Scan
    BY <2>1 DEF Scan, Scannable
  <2>2. CASE Crash
    BY <2>2 DEF Crash
  <2>3. CASE Restart
    BY <2>3 DEF Restart
  <2>4. CASE StartScanning
    BY <2>4 DEF StartScanning
  <2> QED BY <1>2, <2>1, <2>2, <2>3, <2>4 DEF Daemon
<1>3. ASSUME NEW m \in Msgs, Producer(m) \/ Elapse(m) \/ Recover(m)
      PROVE  SpawnInv'
  <2>1. CASE EnqueueOpen(m)
    BY <2>1 DEF EnqueueOpen
  <2>2. CASE EnqueueClose(m)
    BY <2>2 DEF EnqueueClose
  <2>3. CASE ProducerDies(m)
    BY <2>3 DEF ProducerDies
  <2>4. CASE Elapse(m)
    BY <2>4 DEF Elapse
  <2>5. CASE Recover(m)
    BY <2>5 DEF Recover
  <2> QED BY <1>3, <2>1, <2>2, <2>3, <2>4, <2>5 DEF Producer
<1>4. ASSUME NEW m \in Msgs, ClaimStep(m)
      PROVE  SpawnInv'
  <2>1. ASSUME NEW n \in 0 .. name[m], Claim(m, n)
        PROVE  SpawnInv'
    BY <2>1 DEF Claim
  <2>2. ASSUME NEW n \in 0 .. name[m], ClaimMiss(m, n)
        PROVE  SpawnInv'
    BY <2>2 DEF ClaimMiss
  <2> QED BY <1>4, <2>1, <2>2 DEF ClaimStep
<1>5. ASSUME NEW m \in Msgs, TaskStep(m)
      PROVE  SpawnInv'
  <2>1. CASE ReadFails(m)
    BY <2>1 DEF ReadFails, Abandon
  <2>2. ASSUME NEW a \in Agents, Route(m, a)
        PROVE  SpawnInv'
    BY <2>2 DEF Route
  <2>3. CASE AcquireAgent(m)
    BY <2>3 DEF AcquireAgent, LockFree
  <2>4. CASE AcquirePermit(m)
    BY <2>4 DEF AcquirePermit, PermitFree
  <2>5. CASE StartRun(m)
    BY <2>5 DEF StartRun
  <2>6. CASE RunSucceeds(m)
    BY <2>6 DEF RunSucceeds
  <2>11. CASE RunFails(m)
    BY <2>11 DEF RunFails
  <2>7. CASE WriteOutgoing(m)
    BY <2>7 DEF WriteOutgoing
  <2>8. CASE ReturnOk(m)
    BY <2>8 DEF ReturnOk, ReleaseGuards
  <2>9. CASE ReturnErr(m)
    BY <2>9 DEF ReturnErr, ReleaseGuards
  <2>10. CASE RemoveFile(m)
    BY <2>10 DEF RemoveFile
  <2> QED BY <1>5, <2>1, <2>2, <2>3, <2>4, <2>5, <2>6, <2>7,
             <2>8, <2>9, <2>10, <2>11 DEF TaskStep
<1>6. ASSUME NEW m \in Msgs, FailureStep(m)
      PROVE  SpawnInv'
  <2>1. CASE Discard(m) /\ Exhausted(m) /\ ~DeadLetterEnabled
    BY <2>1 DEF Discard, Exhausted
  <2>2. CASE RewriteOpen(m) /\ (~Exhausted(m) \/ DeadLetterEnabled)
    BY <2>2 DEF RewriteOpen, Exhausted
  <2>3. CASE RewriteClose(m)
    BY <2>3 DEF RewriteClose
  <2>4. CASE Requeue(m)
    BY <2>4 DEF Requeue
  <2>5. CASE DeadLetter(m)
    BY <2>5 DEF DeadLetter
  <2>6. CASE SettleFails(m)
    BY <2>6 DEF SettleFails, Abandon
  <2> QED BY <1>6, <2>1, <2>2, <2>3, <2>4, <2>5, <2>6 DEF FailureStep, Dispose
<1> QED
  BY <1>1, <1>2, <1>3, <1>4, <1>5, <1>6 DEF Next

\* What the file of a message holds, by who is working on it.
LEMMA FileStep ==
  TypeOK /\ TaskInv /\ FileInv /\ [Next]_vars => FileInv'
<1> SUFFICES ASSUME TypeOK /\ TaskInv /\ FileInv, [Next]_vars
             PROVE  FileInv'
  OBVIOUS
<1> USE QueueAssumption DEF TypeOK, TaskInv, FileInv, Parsed, Exhausted,
        fileVars, producerVars, taskVars,
        lockVars, historyVars,
        Locations, Settled, Steps, HoldingLock, HoldingPermit, Goto
<1>1. CASE UNCHANGED vars
  BY <1>1 DEF vars
<1>2. CASE Daemon
  <2>1. CASE Scan
    BY <2>1 DEF Scan, Scannable
  <2>2. CASE Crash
    BY <2>2 DEF Crash
  <2>3. CASE Restart
    BY <2>3 DEF Restart
  <2>4. CASE StartScanning
    BY <2>4 DEF StartScanning
  <2> QED BY <1>2, <2>1, <2>2, <2>3, <2>4 DEF Daemon
<1>3. ASSUME NEW m \in Msgs, Producer(m) \/ Elapse(m) \/ Recover(m)
      PROVE  FileInv'
  <2>1. CASE EnqueueOpen(m)
    BY <2>1 DEF EnqueueOpen
  <2>2. CASE EnqueueClose(m)
    BY <2>2 DEF EnqueueClose
  <2>3. CASE ProducerDies(m)
    BY <2>3 DEF ProducerDies
  <2>4. CASE Elapse(m)
    BY <2>4 DEF Elapse
  <2>5. CASE Recover(m)
    BY <2>5 DEF Recover
  <2> QED BY <1>3, <2>1, <2>2, <2>3, <2>4, <2>5 DEF Producer
<1>4. ASSUME NEW m \in Msgs, ClaimStep(m)
      PROVE  FileInv'
  <2>1. ASSUME NEW n \in 0 .. name[m], Claim(m, n)
        PROVE  FileInv'
    BY <2>1 DEF Claim
  <2>2. ASSUME NEW n \in 0 .. name[m], ClaimMiss(m, n)
        PROVE  FileInv'
    BY <2>2 DEF ClaimMiss
  <2> QED BY <1>4, <2>1, <2>2 DEF ClaimStep
<1>5. ASSUME NEW m \in Msgs, TaskStep(m)
      PROVE  FileInv'
  <2>1. CASE ReadFails(m)
    BY <2>1 DEF ReadFails, Abandon
  <2>2. ASSUME NEW a \in Agents, Route(m, a)
        PROVE  FileInv'
    BY <2>2 DEF Route
  <2>3. CASE AcquireAgent(m)
    BY <2>3 DEF AcquireAgent, LockFree
  <2>4. CASE AcquirePermit(m)
    BY <2>4 DEF AcquirePermit, PermitFree
  <2>5. CASE StartRun(m)
    BY <2>5 DEF StartRun
  <2>6. CASE RunSucceeds(m)
    BY <2>6 DEF RunSucceeds
  <2>11. CASE RunFails(m)
    BY <2>11 DEF RunFails
  <2>7. CASE WriteOutgoing(m)
    BY <2>7 DEF WriteOutgoing
  <2>8. CASE ReturnOk(m)
    BY <2>8 DEF ReturnOk, ReleaseGuards
  <2>9. CASE ReturnErr(m)
    BY <2>9 DEF ReturnErr, ReleaseGuards
  <2>10. CASE RemoveFile(m)
    BY <2>10 DEF RemoveFile
  <2> QED BY <1>5, <2>1, <2>2, <2>3, <2>4, <2>5, <2>6, <2>7,
             <2>8, <2>9, <2>10, <2>11 DEF TaskStep
<1>6. ASSUME NEW m \in Msgs, FailureStep(m)
      PROVE  FileInv'
  <2>1. CASE Discard(m) /\ Exhausted(m) /\ ~DeadLetterEnabled
    BY <2>1 DEF Discard, Exhausted
  <2>2. CASE RewriteOpen(m) /\ (~Exhausted(m) \/ DeadLetterEnabled)
    BY <2>2 DEF RewriteOpen, Exhausted
  <2>3. CASE RewriteClose(m)
    BY <2>3 DEF RewriteClose
  <2>4. CASE Requeue(m)
    BY <2>4 DEF Requeue
  <2>5. CASE DeadLetter(m)
    BY <2>5 DEF DeadLetter
  <2>6. CASE SettleFails(m)
    BY <2>6 DEF SettleFails, Abandon
  <2> QED BY <1>6, <2>1, <2>2, <2>3, <2>4, <2>5, <2>6 DEF FailureStep, Dispose
<1> QED
  BY <1>1, <1>2, <1>3, <1>4, <1>5, <1>6 DEF Next

\* Every run is paid for by a recorded failure or by a crash, but the last.
LEMMA CountStep ==
  TypeOK /\ TaskInv /\ FileInv /\ CountInv /\ AttemptBound /\ [Next]_vars => (CountInv /\ AttemptBound)'
<1> SUFFICES ASSUME TypeOK /\ TaskInv /\ FileInv /\ CountInv /\ AttemptBound, [Next]_vars
             PROVE  (CountInv /\ AttemptBound)'
  OBVIOUS
<1> USE QueueAssumption DEF TypeOK, TaskInv, FileInv, CountInv, AttemptBound, Spent,
        Parsed, fileVars, producerVars, taskVars,
        lockVars, historyVars, Locations, Settled, Steps, HoldingLock, HoldingPermit, Goto
<1>1. CASE UNCHANGED vars
  BY <1>1 DEF vars
<1>2. CASE Daemon
  <2>1. CASE Scan
    BY <2>1 DEF Scan, Scannable
  <2>2. CASE Crash
    BY <2>2 DEF Crash
  <2>3. CASE Restart
    BY <2>3 DEF Restart
  <2>4. CASE StartScanning
    BY <2>4 DEF StartScanning
  <2> QED BY <1>2, <2>1, <2>2, <2>3, <2>4 DEF Daemon
<1>3. ASSUME NEW m \in Msgs, Producer(m) \/ Elapse(m) \/ Recover(m)
      PROVE  (CountInv /\ AttemptBound)'
  <2>1. CASE EnqueueOpen(m)
    BY <2>1 DEF EnqueueOpen
  <2>2. CASE EnqueueClose(m)
    BY <2>2 DEF EnqueueClose
  <2>3. CASE ProducerDies(m)
    BY <2>3 DEF ProducerDies
  <2>4. CASE Elapse(m)
    BY <2>4 DEF Elapse
  <2>5. CASE Recover(m)
    BY <2>5 DEF Recover
  <2> QED BY <1>3, <2>1, <2>2, <2>3, <2>4, <2>5 DEF Producer
<1>4. ASSUME NEW m \in Msgs, ClaimStep(m)
      PROVE  (CountInv /\ AttemptBound)'
  <2>1. ASSUME NEW n \in 0 .. name[m], Claim(m, n)
        PROVE  (CountInv /\ AttemptBound)'
    BY <2>1 DEF Claim
  <2>2. ASSUME NEW n \in 0 .. name[m], ClaimMiss(m, n)
        PROVE  (CountInv /\ AttemptBound)'
    BY <2>2 DEF ClaimMiss
  <2> QED BY <1>4, <2>1, <2>2 DEF ClaimStep
<1>5. ASSUME NEW m \in Msgs, TaskStep(m)
      PROVE  (CountInv /\ AttemptBound)'
  <2>1. CASE ReadFails(m)
    BY <2>1 DEF ReadFails, Abandon
  <2>2. ASSUME NEW a \in Agents, Route(m, a)
        PROVE  (CountInv /\ AttemptBound)'
    BY <2>2 DEF Route
  <2>3. CASE AcquireAgent(m)
    BY <2>3 DEF AcquireAgent, LockFree
  <2>4. CASE AcquirePermit(m)
    BY <2>4 DEF AcquirePermit, PermitFree
  <2>5. CASE StartRun(m)
    BY <2>5 DEF StartRun
  <2>6. CASE RunSucceeds(m)
    BY <2>6 DEF RunSucceeds
  <2>11. CASE RunFails(m)
    BY <2>11 DEF RunFails
  <2>7. CASE WriteOutgoing(m)
    BY <2>7 DEF WriteOutgoing
  <2>8. CASE ReturnOk(m)
    BY <2>8 DEF ReturnOk, ReleaseGuards
  <2>9. CASE ReturnErr(m)
    BY <2>9 DEF ReturnErr, ReleaseGuards
  <2>10. CASE RemoveFile(m)
    BY <2>10 DEF RemoveFile
  <2> QED BY <1>5, <2>1, <2>2, <2>3, <2>4, <2>5, <2>6, <2>7,
             <2>8, <2>9, <2>10, <2>11 DEF TaskStep
<1>6. ASSUME NEW m \in Msgs, FailureStep(m)
      PROVE  (CountInv /\ AttemptBound)'
  <2>1. CASE Discard(m) /\ Exhausted(m) /\ ~DeadLetterEnabled
    BY <2>1 DEF Discard, Exhausted
  <2>2. CASE RewriteOpen(m) /\ (~Exhausted(m) \/ DeadLetterEnabled)
    BY <2>2 DEF RewriteOpen, Exhausted
  <2>3. CASE RewriteClose(m)
    BY <2>3 DEF RewriteClose
  <2>4. CASE Requeue(m)
    BY <2>4 DEF Requeue
  <2>5. CASE DeadLetter(m)
    BY <2>5 DEF DeadLetter
  <2>6. CASE SettleFails(m)
    BY <2>6 DEF SettleFails, Abandon
  <2> QED BY <1>6, <2>1, <2>2, <2>3, <2>4, <2>5, <2>6 DEF FailureStep, Dispose
<1> QED
  BY <1>1, <1>2, <1>3, <1>4, <1>5, <1>6 DEF Next

\* The ways out of the queue.
LEMMA SettledStep ==
  TypeOK /\ TaskInv /\ FileInv /\ SettledWithCause /\ [Next]_vars => SettledWithCause'
<1> SUFFICES ASSUME TypeOK /\ TaskInv /\ FileInv /\ SettledWithCause, [Next]_vars
             PROVE  SettledWithCause'
  OBVIOUS
<1> USE QueueAssumption DEF TypeOK, TaskInv, FileInv, SettledWithCause, Parsed,
        fileVars, producerVars, taskVars,
        lockVars, historyVars, Locations, Settled, Steps, HoldingLock,
        HoldingPermit, Goto
<1>1. CASE UNCHANGED vars
  BY <1>1 DEF vars
<1>2. CASE Daemon
  <2>1. CASE Scan
    BY <2>1 DEF Scan, Scannable
  <2>2. CASE Crash
    BY <2>2 DEF Crash
  <2>3. CASE Restart
    BY <2>3 DEF Restart
  <2>4. CASE StartScanning
    BY <2>4 DEF StartScanning
  <2> QED BY <1>2, <2>1, <2>2, <2>3, <2>4 DEF Daemon
<1>3. ASSUME NEW m \in Msgs, Producer(m) \/ Elapse(m) \/ Recover(m)
      PROVE  SettledWithCause'
  <2>1. CASE EnqueueOpen(m)
    BY <2>1 DEF EnqueueOpen
  <2>2. CASE EnqueueClose(m)
    BY <2>2 DEF EnqueueClose
  <2>3. CASE ProducerDies(m)
    BY <2>3 DEF ProducerDies
  <2>4. CASE Elapse(m)
    BY <2>4 DEF Elapse
  <2>5. CASE Recover(m)
    BY <2>5 DEF Recover
  <2> QED BY <1>3, <2>1, <2>2, <2>3, <2>4, <2>5 DEF Producer
<1>4. ASSUME NEW m \in Msgs, ClaimStep(m)
      PROVE  SettledWithCause'
  <2>1. ASSUME NEW n \in 0 .. name[m], Claim(m, n)
        PROVE  SettledWithCause'
    BY <2>1 DEF Claim
  <2>2. ASSUME NEW n \in 0 .. name[m], ClaimMiss(m, n)
        PROVE  SettledWithCause'
    BY <2>2 DEF ClaimMiss
  <2> QED BY <1>4, <2>1, <2>2 DEF ClaimStep
<1>5. ASSUME NEW m \in Msgs, TaskStep(m)
      PROVE  SettledWithCause'
  <2>1. CASE ReadFails(m)
    BY <2>1 DEF ReadFails, Abandon
  <2>2. ASSUME NEW a \in Agents, Route(m, a)
        PROVE  SettledWithCause'
    BY <2>2 DEF Route
  <2>3. CASE AcquireAgent(m)
    BY <2>3 DEF AcquireAgent, LockFree
  <2>4. CASE AcquirePermit(m)
    BY <2>4 DEF AcquirePermit, PermitFree
  <2>5. CASE StartRun(m)
    BY <2>5 DEF StartRun
  <2>6. CASE RunSucceeds(m)
    BY <2>6 DEF RunSucceeds
  <2>11. CASE RunFails(m)
    BY <2>11 DEF RunFails
  <2>7. CASE WriteOutgoing(m)
    BY <2>7 DEF WriteOutgoing
  <2>8. CASE ReturnOk(m)
    BY <2>8 DEF ReturnOk, ReleaseGuards
  <2>9. CASE ReturnErr(m)
    BY <2>9 DEF ReturnErr, ReleaseGuards
  <2>10. CASE RemoveFile(m)
    BY <2>10 DEF RemoveFile
  <2> QED BY <1>5, <2>1, <2>2, <2>3, <2>4, <2>5, <2>6, <2>7,
             <2>8, <2>9, <2>10, <2>11 DEF TaskStep
<1>6. ASSUME NEW m \in Msgs, FailureStep(m)
      PROVE  SettledWithCause'
  <2>1. CASE Discard(m) /\ Exhausted(m) /\ ~DeadLetterEnabled
    BY <2>1 DEF Discard, Exhausted
  <2>2. CASE RewriteOpen(m) /\ (~Exhausted(m) \/ DeadLetterEnabled)
    BY <2>2 DEF RewriteOpen, Exhausted
  <2>3. CASE RewriteClose(m)
    BY <2>3 DEF RewriteClose
  <2>4. CASE Requeue(m)
    BY <2>4 DEF Requeue
  <2>5. CASE DeadLetter(m)
    BY <2>5 DEF DeadLetter
  <2>6. CASE SettleFails(m)
    BY <2>6 DEF SettleFails, Abandon
  <2> QED BY <1>6, <2>1, <2>2, <2>3, <2>4, <2>5, <2>6 DEF FailureStep, Dispose
<1> QED
  BY <1>1, <1>2, <1>3, <1>4, <1>5, <1>6 DEF Next

\* The tasks that hold a permit.
Held == Holding(HoldingPermit)

LEMMA HeldFinite == IsFiniteSet(Held)
BY QueueAssumption, FS_Subset DEF Held, Holding

\* One more holder takes a permit, one less returns it.
LEMMA HeldAdd ==
  ASSUME PermitsAccounted, permits \in Nat, NEW m \in Msgs, m \notin Held,
         Held' = Held \cup {m}, permits' = permits - 1
  PROVE  PermitsAccounted'
<1>1. Cardinality(Held') = Cardinality(Held) + 1
  BY HeldFinite, FS_AddElement
<1>2. Cardinality(Held) \in Nat
  BY HeldFinite, FS_CardinalityType
<1>3. permits + Cardinality(Held) = MaxConcurrentRuns
  BY DEF PermitsAccounted, Held
<1>4. permits' + Cardinality(Held') = MaxConcurrentRuns
  BY <1>1, <1>2, <1>3
<1> QED BY <1>4 DEF PermitsAccounted, Held

LEMMA HeldRemove ==
  ASSUME PermitsAccounted, permits \in Nat, NEW m \in Held,
         Held' = Held \ {m}, permits' = permits + 1
  PROVE  PermitsAccounted'
<1>1. Cardinality(Held') = Cardinality(Held) - 1
  BY HeldFinite, FS_RemoveElement
<1>2. Cardinality(Held) \in Nat
  BY HeldFinite, FS_CardinalityType
<1>3. permits + Cardinality(Held) = MaxConcurrentRuns
  BY DEF PermitsAccounted, Held
<1>4. permits' + Cardinality(Held') = MaxConcurrentRuns
  BY <1>1, <1>2, <1>3
<1> QED BY <1>4 DEF PermitsAccounted, Held

LEMMA HeldNone ==
  ASSUME Held' = {}, permits' = MaxConcurrentRuns
  PROVE  PermitsAccounted'
<1>1. Cardinality(Held') = 0
  BY FS_EmptySet
<1> QED BY <1>1, QueueAssumption DEF PermitsAccounted, Held

LEMMA HeldSame ==
  ASSUME PermitsAccounted, Held' = Held, permits' = permits
  PROVE  PermitsAccounted'
BY DEF PermitsAccounted, Held

\* Permits are neither leaked nor doubled.
LEMMA PermitStep ==
  TypeOK /\ TaskInv /\ PermitsAccounted /\ [Next]_vars => PermitsAccounted'
<1> SUFFICES ASSUME TypeOK /\ TaskInv /\ PermitsAccounted, [Next]_vars
             PROVE  PermitsAccounted'
  OBVIOUS
<1> USE QueueAssumption DEF TypeOK, TaskInv, fileVars, producerVars, taskVars,
        lockVars, historyVars, Steps,
        HoldingLock, HoldingPermit, Goto, Held, Holding
<1>1. CASE UNCHANGED vars
  <2>1. Held' = Held /\ permits' = permits
    BY <1>1 DEF vars
  <2> QED BY <2>1, HeldSame
<1>2. CASE Daemon
  <2>1. CASE Scan
    <3>1. Held' = Held /\ permits' = permits
      BY <2>1 DEF Scan, Scannable
    <3> QED BY <3>1, HeldSame
  <2>2. CASE Crash
    <3>1. Held' = {} /\ permits' = MaxConcurrentRuns
      BY <2>2 DEF Crash
    <3> QED BY <3>1, HeldNone
  <2>3. CASE Restart
    <3>1. Held' = Held /\ permits' = permits
      BY <2>3 DEF Restart
    <3> QED BY <3>1, HeldSame
  <2>4. CASE StartScanning
    <3>1. Held' = Held /\ permits' = permits
      BY <2>4 DEF StartScanning
    <3> QED BY <3>1, HeldSame
  <2> QED BY <1>2, <2>1, <2>2, <2>3, <2>4 DEF Daemon
<1>3. ASSUME NEW m \in Msgs, Producer(m) \/ Elapse(m) \/ Recover(m)
      PROVE  PermitsAccounted'
  <2>1. CASE EnqueueOpen(m)
    <3>1. Held' = Held /\ permits' = permits
      BY <2>1 DEF EnqueueOpen
    <3> QED BY <3>1, HeldSame
  <2>2. CASE EnqueueClose(m)
    <3>1. Held' = Held /\ permits' = permits
      BY <2>2 DEF EnqueueClose
    <3> QED BY <3>1, HeldSame
  <2>3. CASE ProducerDies(m)
    <3>1. Held' = Held /\ permits' = permits
      BY <2>3 DEF ProducerDies
    <3> QED BY <3>1, HeldSame
  <2>4. CASE Elapse(m)
    <3>1. Held' = Held /\ permits' = permits
      BY <2>4 DEF Elapse
    <3> QED BY <3>1, HeldSame
  <2>5. CASE Recover(m)
    <3>1. Held' = Held /\ permits' = permits
      BY <2>5 DEF Recover
    <3> QED BY <3>1, HeldSame
  <2> QED BY <1>3, <2>1, <2>2, <2>3, <2>4, <2>5 DEF Producer
<1>4. ASSUME NEW m \in Msgs, ClaimStep(m)
      PROVE  PermitsAccounted'
  <2>1. ASSUME NEW n \in 0 .. name[m], Claim(m, n)
        PROVE  PermitsAccounted'
    <3>1. Held' = Held /\ permits' = permits
      BY <2>1 DEF Claim
    <3> QED BY <3>1, HeldSame
  <2>2. ASSUME NEW n \in 0 .. name[m], ClaimMiss(m, n)
        PROVE  PermitsAccounted'
    <3>1. Held' = Held /\ permits' = permits
      BY <2>2 DEF ClaimMiss
    <3> QED BY <3>1, HeldSame
  <2> QED BY <1>4, <2>1, <2>2 DEF ClaimStep
<1>5. ASSUME NEW m \in Msgs, TaskStep(m)
      PROVE  PermitsAccounted'
  <2>1. CASE ReadFails(m)
    <3>1. Held' = Held /\ permits' = permits
      BY <2>1 DEF ReadFails, Abandon
    <3> QED BY <3>1, HeldSame
  <2>2. ASSUME NEW a \in Agents, Route(m, a)
        PROVE  PermitsAccounted'
    <3>1. Held' = Held /\ permits' = permits
      BY <2>2 DEF Route
    <3> QED BY <3>1, HeldSame
  <2>3. CASE AcquireAgent(m)
    <3>1. Held' = Held /\ permits' = permits
      BY <2>3 DEF AcquireAgent, LockFree
    <3> QED BY <3>1, HeldSame
  <2>4. CASE AcquirePermit(m)
    <3>1. m \notin Held /\ Held' = Held \cup {m} /\ permits' = permits - 1
      BY <2>4 DEF AcquirePermit, PermitFree
    <3> QED BY <3>1, HeldAdd
  <2>5. CASE StartRun(m)
    <3>1. Held' = Held /\ permits' = permits
      BY <2>5 DEF StartRun
    <3> QED BY <3>1, HeldSame
  <2>6. CASE RunSucceeds(m)
    <3>1. Held' = Held /\ permits' = permits
      BY <2>6 DEF RunSucceeds
    <3> QED BY <3>1, HeldSame
  <2>11. CASE RunFails(m)
    <3>1. Held' = Held /\ permits' = permits
      BY <2>11 DEF RunFails
    <3> QED BY <3>1, HeldSame
  <2>7. CASE WriteOutgoing(m)
    <3>1. Held' = Held /\ permits' = permits
      BY <2>7 DEF WriteOutgoing
    <3> QED BY <3>1, HeldSame
  <2>8. CASE ReturnOk(m)
    <3>1. m \in Held /\ Held' = Held \ {m} /\ permits' = permits + 1
      BY <2>8 DEF ReturnOk, ReleaseGuards
    <3> QED BY <3>1, HeldRemove
  <2>9. CASE ReturnErr(m)
    <3>1. CASE pc[m] = "claimed"
      <4>1. Held' = Held /\ permits' = permits
        BY <2>9, <3>1 DEF ReturnErr, ReleaseGuards
      <4> QED BY <4>1, HeldSame
    <3>2. CASE pc[m] \in HoldingPermit
      <4>1. m \in Held /\ Held' = Held \ {m} /\ permits' = permits + 1
        BY <2>9, <3>2 DEF ReturnErr, ReleaseGuards
      <4> QED BY <4>1, HeldRemove
    <3> QED BY <2>9, <3>1, <3>2 DEF ReturnErr
  <2>10. CASE RemoveFile(m)
    <3>1. Held' = Held /\ permits' = permits
      BY <2>10 DEF RemoveFile
    <3> QED BY <3>1, HeldSame
  <2> QED BY <1>5, <2>1, <2>2, <2>3, <2>4, <2>5, <2>6, <2>7,
             <2>8, <2>9, <2>10, <2>11 DEF TaskStep
<1>6. ASSUME NEW m \in Msgs, FailureStep(m)
      PROVE  PermitsAccounted'
  <2>1. CASE Discard(m) /\ Exhausted(m) /\ ~DeadLetterEnabled
    <3>1. Held' = Held /\ permits' = permits
      BY <2>1 DEF Discard, Exhausted
    <3> QED BY <3>1, HeldSame
  <2>2. CASE RewriteOpen(m) /\ (~Exhausted(m) \/ DeadLetterEnabled)
    <3>1. Held' = Held /\ permits' = permits
      BY <2>2 DEF RewriteOpen, Exhausted
    <3> QED BY <3>1, HeldSame
  <2>3. CASE RewriteClose(m)
    <3>1. Held' = Held /\ permits' = permits
      BY <2>3 DEF RewriteClose
    <3> QED BY <3>1, HeldSame
  <2>4. CASE Requeue(m)
    <3>1. Held' = Held /\ permits' = permits
      BY <2>4 DEF Requeue
    <3> QED BY <3>1, HeldSame
  <2>5. CASE DeadLetter(m)
    <3>1. Held' = Held /\ permits' = permits
      BY <2>5 DEF DeadLetter
    <3> QED BY <3>1, HeldSame
  <2>6. CASE SettleFails(m)
    <3>1. Held' = Held /\ permits' = permits
      BY <2>6 DEF SettleFails, Abandon
    <3> QED BY <3>1, HeldSame
  <2> QED BY <1>6, <2>1, <2>2, <2>3, <2>4, <2>5, <2>6 DEF FailureStep, Dispose
<1> QED
  BY <1>1, <1>2, <1>3, <1>4, <1>5, <1>6 DEF Next

-----------------------------------------------------------------------------

LEMMA InitIInv == Init => IInv
<1> SUFFICES ASSUME Init PROVE IInv
  OBVIOUS
<1> USE QueueAssumption DEF Init, Locations, Settled, Steps, HoldingLock,
        HoldingPermit, Parsed
<1>1. TypeOK
  BY DEF TypeOK
<1>2. LockInv /\ TaskInv /\ SpawnInv /\ FileInv
  BY DEF LockInv, TaskInv, SpawnInv, FileInv
<1>3. CountInv /\ AttemptBound /\ SettledWithCause
  BY DEF CountInv, AttemptBound, SettledWithCause
<1>4. PermitsAccounted
  <2>1. Held = {}
    BY DEF Held, Holding
  <2> QED BY <2>1, FS_EmptySet DEF PermitsAccounted, Held
<1> QED BY <1>1, <1>2, <1>3, <1>4 DEF IInv

LEMMA NextIInv == IInv /\ [Next]_vars => IInv'
BY TypeOKStep, LockStep, TaskStepInv, SpawnStep, FileStep, CountStep, SettledStep,
   PermitStep DEF IInv

\* The conjunction of the facts above holds in every reachable state.
THEOREM Invariance == Spec => []IInv
BY InitIInv, NextIInv, PTL DEF Spec

\* Every variable of the queue stays within its type.
THEOREM TypeCorrect == Spec => []TypeOK
<1>1. IInv => TypeOK
  BY DEF IInv
<1> QED BY <1>1, Invariance, PTL

\* Runs of one agent never overlap, for any number of agents and tasks.
THEOREM RunsOfAnAgentAreSerial == Spec => []AgentExclusive
<1>1. IInv => AgentExclusive
  BY DEF IInv, TypeOK, LockInv, AgentExclusive, Holding
<1> QED BY <1>1, Invariance, PTL

\* The permits in use never exceed max_concurrent_runs and none is lost.
THEOREM PermitsNeverLeak == Spec => []PermitsAccounted
<1>1. IInv => PermitsAccounted
  BY DEF IInv
<1> QED BY <1>1, Invariance, PTL

\* An accepted message is settled by a reply or by too many failures only.
THEOREM NoMessageIsLost == Spec => []SettledWithCause
<1>1. IInv => SettledWithCause
  BY DEF IInv
<1> QED BY <1>1, Invariance, PTL

\* A message costs at most max_retries + 1 runs, and one more per crash.
THEOREM RunsAreBounded == Spec => []AttemptBound
<1>1. IInv => AttemptBound
  BY DEF IInv
<1> QED BY <1>1, Invariance, PTL

-----------------------------------------------------------------------------

Honoured ==
  \A m \in Msgs :
    pc[m] = "idle" /\ pc'[m] # "idle" => loc[m] = "incoming" /\ due[m]

\* Only Claim starts a task, and SpawnInv makes the claimed file due.
LEMMA ClaimStepHonoursBackoff ==
  IInv /\ [Next]_vars => Honoured
<1> SUFFICES ASSUME IInv, [Next]_vars
             PROVE  Honoured
  OBVIOUS
<1> USE QueueAssumption DEF IInv, TypeOK, TaskInv, SpawnInv, fileVars, producerVars, taskVars,
        lockVars, historyVars,
        Steps, HoldingLock, HoldingPermit, Goto, Honoured
<1>1. CASE UNCHANGED vars
  BY <1>1 DEF vars
<1>2. CASE Daemon
  <2>1. CASE Scan
    BY <2>1 DEF Scan, Scannable
  <2>2. CASE Crash
    BY <2>2 DEF Crash
  <2>3. CASE Restart
    BY <2>3 DEF Restart
  <2>4. CASE StartScanning
    BY <2>4 DEF StartScanning
  <2> QED BY <1>2, <2>1, <2>2, <2>3, <2>4 DEF Daemon
<1>3. ASSUME NEW m \in Msgs, Producer(m) \/ Elapse(m) \/ Recover(m)
      PROVE  Honoured
  <2>1. CASE EnqueueOpen(m)
    BY <2>1 DEF EnqueueOpen
  <2>2. CASE EnqueueClose(m)
    BY <2>2 DEF EnqueueClose
  <2>3. CASE ProducerDies(m)
    BY <2>3 DEF ProducerDies
  <2>4. CASE Elapse(m)
    BY <2>4 DEF Elapse
  <2>5. CASE Recover(m)
    BY <2>5 DEF Recover
  <2> QED BY <1>3, <2>1, <2>2, <2>3, <2>4, <2>5 DEF Producer
<1>4. ASSUME NEW m \in Msgs, ClaimStep(m)
      PROVE  Honoured
  <2>1. ASSUME NEW n \in 0 .. name[m], Claim(m, n)
        PROVE  Honoured
    BY <2>1 DEF Claim
  <2>2. ASSUME NEW n \in 0 .. name[m], ClaimMiss(m, n)
        PROVE  Honoured
    BY <2>2 DEF ClaimMiss
  <2> QED BY <1>4, <2>1, <2>2 DEF ClaimStep
<1>5. ASSUME NEW m \in Msgs, TaskStep(m)
      PROVE  Honoured
  <2>1. CASE ReadFails(m)
    BY <2>1 DEF ReadFails, Abandon
  <2>2. ASSUME NEW a \in Agents, Route(m, a)
        PROVE  Honoured
    BY <2>2 DEF Route
  <2>3. CASE AcquireAgent(m)
    BY <2>3 DEF AcquireAgent, LockFree
  <2>4. CASE AcquirePermit(m)
    BY <2>4 DEF AcquirePermit, PermitFree
  <2>5. CASE StartRun(m)
    BY <2>5 DEF StartRun
  <2>6. CASE RunSucceeds(m)
    BY <2>6 DEF RunSucceeds
  <2>11. CASE RunFails(m)
    BY <2>11 DEF RunFails
  <2>7. CASE WriteOutgoing(m)
    BY <2>7 DEF WriteOutgoing
  <2>8. CASE ReturnOk(m)
    BY <2>8 DEF ReturnOk, ReleaseGuards
  <2>9. CASE ReturnErr(m)
    BY <2>9 DEF ReturnErr, ReleaseGuards
  <2>10. CASE RemoveFile(m)
    BY <2>10 DEF RemoveFile
  <2> QED BY <1>5, <2>1, <2>2, <2>3, <2>4, <2>5, <2>6, <2>7,
             <2>8, <2>9, <2>10, <2>11 DEF TaskStep
<1>6. ASSUME NEW m \in Msgs, FailureStep(m)
      PROVE  Honoured
  <2>1. CASE Discard(m) /\ Exhausted(m) /\ ~DeadLetterEnabled
    BY <2>1 DEF Discard, Exhausted
  <2>2. CASE RewriteOpen(m) /\ (~Exhausted(m) \/ DeadLetterEnabled)
    BY <2>2 DEF RewriteOpen, Exhausted
  <2>3. CASE RewriteClose(m)
    BY <2>3 DEF RewriteClose
  <2>4. CASE Requeue(m)
    BY <2>4 DEF Requeue
  <2>5. CASE DeadLetter(m)
    BY <2>5 DEF DeadLetter
  <2>6. CASE SettleFails(m)
    BY <2>6 DEF SettleFails, Abandon
  <2> QED BY <1>6, <2>1, <2>2, <2>3, <2>4, <2>5, <2>6 DEF FailureStep, Dispose
<1> QED
  BY <1>1, <1>2, <1>3, <1>4, <1>5, <1>6 DEF Next

\* No task starts on a file whose due time has not passed, stale scan or not.
THEOREM BackoffIsHonoured == Spec => ClaimHonoursBackoff
<1>1. IInv /\ [Next]_vars => [Honoured]_vars
  BY ClaimStepHonoursBackoff
<1> QED BY <1>1, Invariance, PTL DEF Spec, ClaimHonoursBackoff, Honoured

-----------------------------------------------------------------------------

Delivers == [Delivery!Next]_Delivery!vars

\* Each step of the queue is a step of MessageDelivery or leaves it alone.
LEMMA DeliveryStep ==
  IInv /\ [Next]_vars => Delivers
<1> SUFFICES ASSUME IInv, [Next]_vars
             PROVE  Delivers
  OBVIOUS
<1> USE QueueAssumption DEF IInv, TypeOK, TaskInv, FileInv, StatusOf, Delivers, Delivery!vars,
        fileVars, producerVars, taskVars,
        lockVars, historyVars, Locations, Settled, Parsed, Steps,
        HoldingLock, HoldingPermit, Goto
<1>1. CASE UNCHANGED vars
  BY <1>1 DEF vars
<1>2. CASE Daemon
  <2>1. CASE Scan
    <3>1. \A x \in Msgs : StatusOf(x)' = StatusOf(x)
      BY <2>1 DEF Scan, Scannable
    <3> QED BY <2>1, <3>1 DEF Scan, Scannable
  <2>2. CASE Crash
    <3>1. \A x \in Msgs : StatusOf(x)' = StatusOf(x)
      BY <2>2 DEF Crash
    <3> QED BY <2>2, <3>1 DEF Crash
  <2>3. CASE Restart
    <3>1. \A x \in Msgs : StatusOf(x)' = StatusOf(x)
      BY <2>3 DEF Restart
    <3> QED BY <2>3, <3>1 DEF Restart
  <2>4. CASE StartScanning
    <3>1. \A x \in Msgs : StatusOf(x)' = StatusOf(x)
      BY <2>4 DEF StartScanning
    <3> QED BY <2>4, <3>1 DEF StartScanning
  <2> QED BY <1>2, <2>1, <2>2, <2>3, <2>4 DEF Daemon
<1>3. ASSUME NEW m \in Msgs, Producer(m) \/ Elapse(m) \/ Recover(m)
      PROVE  Delivers
  <2>1. CASE EnqueueOpen(m)
    <3>1. \A x \in Msgs : StatusOf(x)' = StatusOf(x)
      BY <2>1 DEF EnqueueOpen
    <3> QED BY <2>1, <3>1 DEF EnqueueOpen
  <2>2. CASE EnqueueClose(m)
    <3>1. \A x \in Msgs : StatusOf(x)' = IF x = m THEN "open" ELSE StatusOf(x)
      BY <2>2 DEF EnqueueClose
    <3>2. Delivery!Accept(m)
      BY <2>2, <3>1 DEF EnqueueClose, Delivery!Accept, Delivery!Become
    <3> QED BY <3>2 DEF Delivery!Next
  <2>3. CASE ProducerDies(m)
    <3>1. \A x \in Msgs : StatusOf(x)' = StatusOf(x)
      BY <2>3 DEF ProducerDies
    <3> QED BY <2>3, <3>1 DEF ProducerDies
  <2>4. CASE Elapse(m)
    <3>1. \A x \in Msgs : StatusOf(x)' = StatusOf(x)
      BY <2>4 DEF Elapse
    <3> QED BY <2>4, <3>1 DEF Elapse
  <2>5. CASE Recover(m)
    <3>1. \A x \in Msgs : StatusOf(x)' = StatusOf(x)
      BY <2>5 DEF Recover
    <3> QED BY <2>5, <3>1 DEF Recover
  <2> QED BY <1>3, <2>1, <2>2, <2>3, <2>4, <2>5 DEF Producer
<1>4. ASSUME NEW m \in Msgs, ClaimStep(m)
      PROVE  Delivers
  <2>1. ASSUME NEW n \in 0 .. name[m], Claim(m, n)
        PROVE  Delivers
    <3>1. \A x \in Msgs : StatusOf(x)' = StatusOf(x)
      BY <2>1 DEF Claim
    <3> QED BY <2>1, <3>1 DEF Claim
  <2>2. ASSUME NEW n \in 0 .. name[m], ClaimMiss(m, n)
        PROVE  Delivers
    <3>1. \A x \in Msgs : StatusOf(x)' = StatusOf(x)
      BY <2>2 DEF ClaimMiss
    <3> QED BY <2>2, <3>1 DEF ClaimMiss
  <2> QED BY <1>4, <2>1, <2>2 DEF ClaimStep
<1>5. ASSUME NEW m \in Msgs, TaskStep(m)
      PROVE  Delivers
  <2>1. CASE ReadFails(m)
    <3>1. \A x \in Msgs : StatusOf(x)' = StatusOf(x)
      BY <2>1 DEF ReadFails, Abandon
    <3> QED BY <2>1, <3>1 DEF ReadFails, Abandon
  <2>2. ASSUME NEW a \in Agents, Route(m, a)
        PROVE  Delivers
    <3>1. \A x \in Msgs : StatusOf(x)' = StatusOf(x)
      BY <2>2 DEF Route
    <3> QED BY <2>2, <3>1 DEF Route
  <2>3. CASE AcquireAgent(m)
    <3>1. \A x \in Msgs : StatusOf(x)' = StatusOf(x)
      BY <2>3 DEF AcquireAgent, LockFree
    <3> QED BY <2>3, <3>1 DEF AcquireAgent, LockFree
  <2>4. CASE AcquirePermit(m)
    <3>1. \A x \in Msgs : StatusOf(x)' = StatusOf(x)
      BY <2>4 DEF AcquirePermit, PermitFree
    <3> QED BY <2>4, <3>1 DEF AcquirePermit, PermitFree
  <2>5. CASE StartRun(m)
    <3>1. \A x \in Msgs : StatusOf(x)' = StatusOf(x)
      BY <2>5 DEF StartRun
    <3> QED BY <2>5, <3>1 DEF StartRun
  <2>6. CASE RunSucceeds(m)
    <3>1. \A x \in Msgs : StatusOf(x)' = StatusOf(x)
      BY <2>6 DEF RunSucceeds
    <3> QED BY <2>6, <3>1 DEF RunSucceeds
  <2>11. CASE RunFails(m)
    <3>1. \A x \in Msgs : StatusOf(x)' = StatusOf(x)
      BY <2>11 DEF RunFails
    <3> QED BY <2>11, <3>1 DEF RunFails
  <2>7. CASE WriteOutgoing(m)
    <3>1. \A x \in Msgs : StatusOf(x)' = StatusOf(x)
      BY <2>7 DEF WriteOutgoing
    <3>2. Delivery!Answer(m)
      BY <2>7, <3>1 DEF WriteOutgoing, Delivery!Answer, Delivery!Become
    <3> QED BY <3>2 DEF Delivery!Next
  <2>8. CASE ReturnOk(m)
    <3>1. \A x \in Msgs : StatusOf(x)' = StatusOf(x)
      BY <2>8 DEF ReturnOk, ReleaseGuards
    <3> QED BY <2>8, <3>1 DEF ReturnOk, ReleaseGuards
  <2>9. CASE ReturnErr(m)
    <3>1. \A x \in Msgs : StatusOf(x)' = StatusOf(x)
      BY <2>9 DEF ReturnErr, ReleaseGuards
    <3> QED BY <2>9, <3>1 DEF ReturnErr, ReleaseGuards
  <2>10. CASE RemoveFile(m)
    <3>1. \A x \in Msgs : StatusOf(x)' = IF x = m THEN "done" ELSE StatusOf(x)
      BY <2>10 DEF RemoveFile
    <3>2. Delivery!Done(m)
      BY <2>10, <3>1 DEF RemoveFile, Delivery!Done, Delivery!Become
    <3> QED BY <3>2 DEF Delivery!Next
  <2> QED BY <1>5, <2>1, <2>2, <2>3, <2>4, <2>5, <2>6, <2>7,
             <2>8, <2>9, <2>10, <2>11 DEF TaskStep
<1>6. ASSUME NEW m \in Msgs, FailureStep(m)
      PROVE  Delivers
  <2>1. CASE Discard(m) /\ Exhausted(m) /\ ~DeadLetterEnabled
    <3>1. \A x \in Msgs : StatusOf(x)' = IF x = m THEN "discarded" ELSE StatusOf(x)
      BY <2>1 DEF Discard, Exhausted
    <3>2. Delivery!Drop(m)
      BY <2>1, <3>1 DEF Discard, Exhausted, Delivery!Drop, Delivery!Become
    <3> QED BY <3>2 DEF Delivery!Next
  <2>2. CASE RewriteOpen(m) /\ (~Exhausted(m) \/ DeadLetterEnabled)
    <3>1. \A x \in Msgs : StatusOf(x)' = StatusOf(x)
      BY <2>2 DEF RewriteOpen, Exhausted
    <3> QED BY <2>2, <3>1 DEF RewriteOpen, Exhausted
  <2>3. CASE RewriteClose(m)
    <3>1. \A x \in Msgs : StatusOf(x)' = StatusOf(x)
      BY <2>3 DEF RewriteClose
    <3>2. Delivery!Fail(m)
      BY <2>3, <3>1 DEF RewriteClose, Delivery!Fail, Delivery!Become
    <3> QED BY <3>2 DEF Delivery!Next
  <2>4. CASE Requeue(m)
    <3>1. \A x \in Msgs : StatusOf(x)' = StatusOf(x)
      BY <2>4 DEF Requeue
    <3> QED BY <2>4, <3>1 DEF Requeue
  <2>5. CASE DeadLetter(m)
    <3>1. \A x \in Msgs : StatusOf(x)' = IF x = m THEN "dead_letter" ELSE StatusOf(x)
      BY <2>5 DEF DeadLetter
    <3>2. StatusOf(m) = "open" /\ retry[m] > MaxRetries /\ DeadLetterEnabled
      BY <2>5 DEF DeadLetter
    <3>3. Delivery!Bury(m)
      BY <2>5, <3>1, <3>2 DEF DeadLetter, Delivery!Bury, Delivery!Become
    <3> QED BY <3>3 DEF Delivery!Next
  <2>6. CASE SettleFails(m)
    <3>1. \A x \in Msgs : StatusOf(x)' = StatusOf(x)
      BY <2>6 DEF SettleFails, Abandon
    <3> QED BY <2>6, <3>1 DEF SettleFails, Abandon
  <2> QED BY <1>6, <2>1, <2>2, <2>3, <2>4, <2>5, <2>6 DEF FailureStep, Dispose
<1> QED
  BY <1>1, <1>2, <1>3, <1>4, <1>5, <1>6 DEF Next

\* The queue implements at-least-once delivery, crashes and faults included.
THEOREM QueueDeliversAtLeastOnce == Spec => DeliversAtLeastOnce
<1>1. Init => Delivery!Init
  BY DEF Init, Delivery!Init, StatusOf
<1>2. IInv /\ [Next]_vars => [Delivery!Next]_Delivery!vars
  BY DeliveryStep DEF Delivers
<1> QED BY <1>1, <1>2, Invariance, PTL DEF Spec, DeliversAtLeastOnce, Delivery!Spec

-----------------------------------------------------------------------------
(* The queue with hooks, browsers and CLIs that hang.                      *)

\* What a step of the pipeline is for the browser: a step of a caller, of the
\* programs at the port, the end of the daemon, or nothing.
BrowserStep ==
  \/ \E c \in Msgs :
       \/ Browser!Enter(c) \/ Browser!Skip(c) \/ Browser!LockPort(c)
       \/ Browser!Ready(c) \/ Browser!Launch(c) \/ Browser!EnsureFails(c)
       \/ Browser!Leave(c)
  \/ Browser!Outside
  \/ Browser!BrowserOutlivesDaemon

\* Every step of the pipeline is a step of the queue or leaves the queue alone.
LEMMA StepOfQueue == PipelineNext => [Next]_vars
<1>1. QueueStep => [Next]_vars
  BY DEF QueueStep, Next
<1>2. CrashPipeline \/ RestartDaemon \/ RecoverAll \/ ScanPipeline => [Next]_vars
  BY DEF CrashPipeline, RestartDaemon, RecoverAll, ScanPipeline, Next, Daemon
<1>3. Outside => [Next]_vars
  BY DEF Outside
<1>4. ASSUME NEW m \in Msgs, PipelineStep(m) PROVE [Next]_vars
  <2>1. TaskStep(m) => Next
    BY DEF Next
  <2>2. CASE RunHook(m)
    BY <2>2 DEF RunHook
  <2>3. CASE StartRunner(m)
    BY <2>3, <2>1 DEF StartRunner, TaskStep
  <2>4. CASE EnsureBrowser(m)
    BY <2>4 DEF EnsureBrowser
  <2>5. CASE RunnerReturns(m)
    BY <2>5, <2>1 DEF RunnerReturns, TaskStep
  <2>6. CASE Hooked(m)
    BY <2>6, <2>1 DEF Hooked, TaskStep
  <2>7. CASE Plain(m)
    BY <2>7, <2>1 DEF Plain, TaskStep
  <2> QED
    BY <1>4, <2>2, <2>3, <2>4, <2>5, <2>6, <2>7 DEF PipelineStep
<1>5. ASSUME NEW m \in Msgs, CliHangs(m) PROVE [Next]_vars
  BY <1>5 DEF CliHangs
<1>6. ASSUME NEW m \in Msgs, SettleFile(m) PROVE [Next]_vars
  BY <1>6 DEF SettleFile, FailureStep, Next
<1>7. ASSUME NEW c \in Notices \cup {Processor}, EventHook(c)
      PROVE  [Next]_vars
  BY <1>7 DEF EventHook
<1> QED
  BY <1>1, <1>2, <1>3, <1>4, <1>5, <1>6, <1>7 DEF PipelineNext

\* Hidden, hooks, browser and CLI leave the behaviours of QueueProcessor, so
\* its invariant holds of the pipeline.
LEMMA PipelineImplementsQueue == PipelineSpec => Spec
<1>1. PipelineInit => Init
  BY DEF PipelineInit
<1>2. [PipelineNext]_pipelineVars => [Next]_vars
  BY StepOfQueue DEF pipelineVars, otherVars
<1> QED
  BY <1>1, <1>2, PTL DEF PipelineSpec, Spec

-----------------------------------------------------------------------------
(* Plugin commands.                                                        *)

\* A task waits for a command only where process_claimed_file runs hooks.
HookInv ==
  /\ Hooks!HookTypeOK
  /\ \A m \in Msgs : call[m] # NoCall => AtHook(m)

LEMMA HookInvInit ==
  ASSUME PipelineInit
  PROVE  HookInv
<1> USE PipelineAssumption DEF PipelineInit, OthersInit, HookInv
<1>1. PICK first \in {NoCall} \cup {Hooks!Started(b) : b \in Behaviours} :
        call = [c \in HookCallers |-> IF c = Processor THEN first ELSE NoCall]
  OBVIOUS
<1>2. first \in Hooks!Stages \cup {NoCall}
  BY <1>1 DEF Hooks!Stages, Hooks!Started
<1>3. Hooks!HookTypeOK
  BY <1>1, <1>2 DEF Hooks!HookTypeOK
<1>4. \A m \in Msgs : call[m] = NoCall
  BY <1>1 DEF HookCallers
<1> QED
  BY <1>3, <1>4

\* What the operators of PluginHooks do to the calls.
LEMMA HookSteps ==
  ASSUME Hooks!HookTypeOK, NEW c,
         \/ Hooks!Spawn(c) /\ c \in HookCallers
         \/ Hooks!Feed(c) /\ c \in HookCallers
         \/ Hooks!Returns(c)
  PROVE  /\ Hooks!HookTypeOK'
         /\ \A x \in HookCallers : x # c => call'[x] = call[x]
<1> USE DEF Hooks!HookTypeOK
<1>1. CASE Hooks!Spawn(c)
  <2>1. PICK b \in Behaviours : call' = [call EXCEPT ![c] = Hooks!Started(b)]
    BY <1>1 DEF Hooks!Spawn
  <2>2. Hooks!Started(b) \in Hooks!Stages
    BY DEF Hooks!Stages, Hooks!Started
  <2> QED
    BY <2>1, <2>2
<1>2. CASE Hooks!Feed(c) /\ c \in HookCallers
  <2>1. /\ call[c] \in Hooks!Stages
        /\ call' = [call EXCEPT ![c] = [call[c] EXCEPT !.stage = "collecting"]]
    BY <1>2 DEF Hooks!Feed
  <2>2. [call[c] EXCEPT !.stage = "collecting"] \in Hooks!Stages
    BY <2>1 DEF Hooks!Stages
  <2> QED
    BY <2>1, <2>2
<1>3. CASE Hooks!Returns(c)
  BY <1>3 DEF Hooks!Returns
<1> QED
  BY <1>1, <1>2, <1>3

\* A step that a hook precedes leaves its caller without a command.
LEMMA AfterHook ==
  ASSUME Hooks!HookTypeOK, NEW c \in HookCallers, Hooks!After(c)
  PROVE  /\ Hooks!HookTypeOK'
         /\ \A x \in HookCallers : x # c => call'[x] = call[x]
         /\ call'[c] = NoCall
         /\ ~Hooks!Wedged(c)
<1>1. CASE call[c] = NoCall /\ UNCHANGED call
  BY <1>1 DEF Hooks!Wedged, Hooks!HookTypeOK
<1>2. CASE Hooks!Returns(c)
  <2>1. call' = [call EXCEPT ![c] = NoCall]
    BY <1>2 DEF Hooks!Returns
  <2>2. ~Hooks!Wedged(c)
    BY <1>2 DEF Hooks!Returns, Hooks!Wedged
  <2> QED
    BY <1>2, <2>1, <2>2, HookSteps DEF Hooks!HookTypeOK
<1> QED
  BY <1>1, <1>2 DEF Hooks!After

\* A wedged command stays wedged while its caller feeds it.
LEMMA FeedWedged ==
  ASSUME Hooks!HookTypeOK, NEW c \in HookCallers, Hooks!Wedged(c),
         Hooks!Spawn(c) \/ Hooks!Feed(c)
  PROVE  Hooks!Wedged(c)'
<1>1. call[c] # NoCall /\ call[c] \in Hooks!Stages
  BY DEF Hooks!Wedged, Hooks!HookTypeOK
<1>2. /\ call[c].stage = "feeding" /\ Size[c] <= Hooks!Absorbs(call[c].behaviour, Size[c])
      /\ call' = [call EXCEPT ![c] = [call[c] EXCEPT !.stage = "collecting"]]
  BY <1>1 DEF Hooks!Spawn, Hooks!Feed
<1>3. Size[c] \in Nat
  BY PipelineAssumption
<1>4. call[c].behaviour = "hangs"
  BY <1>2, <1>3 DEF Hooks!Wedged, Hooks!Absorbs
<1>5. call'[c] = [behaviour |-> "hangs", stage |-> "collecting"]
  BY <1>1, <1>2, <1>4 DEF Hooks!Stages, Hooks!HookTypeOK
<1>6. call'[c] # NoCall
  BY <1>5, PipelineAssumption, <1>1, <1>4 DEF Hooks!Stages
<1> QED
  BY <1>5, <1>6 DEF Hooks!Wedged

\* What the steps of a file say of its hooks: a task that waits for a command
\* has claimed its file.
Owned(m) == pc[m] # "idle" /\ loc[m] = "processing" /\ phase = "scanning"

LEMMA HookOwns ==
  ASSUME HookInv, IInv, NEW m \in Msgs, call[m] # NoCall
  PROVE  /\ AtHook(m)
         /\ Owned(m)
BY DEF HookInv, AtHook, IInv, TaskInv, Owned

\* A step that leaves calls alone, or changes those of others only, and does
\* not touch the file or the task of m.
Apart(m) ==
  /\ call'[m] = call[m]
  /\ pc'[m] = pc[m] /\ loc'[m] = loc[m]
  /\ body'[m] = body[m] \/ body'[m] = "complete"
  /\ agentOf'[m] = agentOf[m]

\* What a step can do to a task m that waits for a command: m feeds it, its
\* hook ends, the daemon stops, or the step is about something else.
HookOutcome(m) ==
  \/ Apart(m)
  \/ RunHook(m)
  \/ call'[m] = NoCall /\ (~Hooks!Wedged(m) \/ phase' = "down")

LEMMA OthersHookOutcome ==
  ASSUME HookInv, IInv, PipelineNext, NEW m \in Msgs, call[m] # NoCall
  PROVE  HookOutcome(m) /\ Hooks!HookTypeOK'
<1>0. AtHook(m) /\ Owned(m) /\ Hooks!HookTypeOK
  BY HookOwns DEF HookInv
<1> USE <1>0 DEF HookOutcome
<1>a. UNCHANGED call => Hooks!HookTypeOK'
  BY DEF Hooks!HookTypeOK
<1>b. \A x \in Msgs : x \in HookCallers
  BY DEF HookCallers
<1>1. CASE QueueStep
  <2>1. PICK x \in Msgs : Producer(x) \/ Elapse(x) \/ ClaimStep(x)
    BY <1>1 DEF QueueStep
  <2>2. UNCHANGED call
    BY <1>1 DEF QueueStep, otherVars
  <2>3. CASE Producer(x)
    BY <2>2, <2>3, <1>a
       DEF Producer, EnqueueOpen, EnqueueClose, ProducerDies, Apart, Owned,
           IInv, TypeOK, taskVars, fileVars
  <2>4. CASE Elapse(x)
    BY <2>2, <2>4, <1>a DEF Elapse, Apart, taskVars
  <2>5. CASE ClaimStep(x)
    BY <2>2, <2>5, <1>a
       DEF ClaimStep, Claim, ClaimMiss, Goto, Apart, Owned, IInv, TypeOK,
           taskVars, fileVars
  <2> QED
    BY <2>1, <2>3, <2>4, <2>5
<1>2. CASE CrashPipeline
  <2>1. call' = [c \in HookCallers |-> NoCall] /\ phase' = "down"
    BY <1>2 DEF CrashPipeline, Crash, Hooks!HooksGone
  <2> QED
    BY <2>1, <1>b DEF Hooks!HookTypeOK
<1>3. ~RestartDaemon /\ ~RecoverAll
  BY DEF RestartDaemon, Restart, RecoverAll, StartScanning, Recover, Owned
<1>4. CASE ScanPipeline
  BY <1>4, <1>a DEF ScanPipeline, Scan, otherVars, Apart, fileVars, taskVars
<1>5. CASE Outside
  BY <1>5, <1>a DEF Outside, vars, fileVars, taskVars, Apart
<1>6. ASSUME NEW c \in Notices \cup {Processor}, EventHook(c)
      PROVE  HookOutcome(m) /\ Hooks!HookTypeOK'
  <2>1. c \in HookCallers /\ c # m
    BY PipelineAssumption DEF HookCallers, Notices
  <2>2. (Hooks!Feed(c) \/ Hooks!Returns(c)) /\ UNCHANGED vars
    BY <1>6 DEF EventHook
  <2>3. Hooks!HookTypeOK' /\ call'[m] = call[m]
    BY <2>1, <2>2, <1>b, HookSteps
  <2> QED
    BY <2>2, <2>3 DEF Apart, vars, fileVars, taskVars
<1>7. ASSUME NEW x \in Msgs, CliHangs(x)
      PROVE  HookOutcome(m) /\ Hooks!HookTypeOK'
  BY <1>7, <1>a DEF CliHangs, vars, fileVars, taskVars, Apart
<1>8. ASSUME NEW x \in Msgs, SettleFile(x)
      PROVE  HookOutcome(m) /\ Hooks!HookTypeOK'
  <2>1. x # m
    BY <1>8
       DEF SettleFile, Dispose, Discard, RewriteOpen, RewriteClose, Requeue,
           DeadLetter, SettleFails, AtHook
  <2>2. <<x, name[x] + 1>> # m
    BY PipelineAssumption DEF IInv, TypeOK
  <2>3. /\ pc'[m] = pc[m] /\ loc'[m] = loc[m]
        /\ body'[m] = body[m] /\ agentOf'[m] = agentOf[m]
    BY <1>8, <2>1
       DEF SettleFile, Dispose, Discard, RewriteOpen, RewriteClose, Requeue,
           DeadLetter, SettleFails, Abandon, Goto, IInv, TypeOK, fileVars
  <2>4. \/ UNCHANGED call
        \/ Hooks!Spawn(<<x, name[x] + 1>>)
    BY <1>8 DEF SettleFile, Announce, otherVars
  <2>5. Hooks!HookTypeOK' /\ call'[m] = call[m]
    <3>1. CASE UNCHANGED call
      BY <3>1, <1>a
    <3>2. CASE Hooks!Spawn(<<x, name[x] + 1>>)
      <4>1. PICK b \in Behaviours :
              call' = [call EXCEPT ![<<x, name[x] + 1>>] = Hooks!Started(b)]
        BY <3>2 DEF Hooks!Spawn
      <4>2. Hooks!Started(b) \in Hooks!Stages
        BY DEF Hooks!Stages, Hooks!Started
      <4> QED
        BY <4>1, <4>2, <2>2, <1>b DEF Hooks!HookTypeOK
    <3> QED
      BY <2>4, <3>1, <3>2
  <2> QED
    BY <2>3, <2>5 DEF Apart
<1>9. ASSUME NEW x \in Msgs, PipelineStep(x)
      PROVE  HookOutcome(m) /\ Hooks!HookTypeOK'
  <2>1. CASE RunHook(x)
    <3>1. (Hooks!Spawn(x) \/ Hooks!Feed(x)) /\ UNCHANGED vars
      BY <2>1 DEF RunHook
    <3>2. Hooks!HookTypeOK' /\ (x # m => call'[m] = call[m])
      BY <3>1, <1>b, HookSteps
    <3> QED
      BY <2>1, <3>1, <3>2 DEF Apart, vars, fileVars, taskVars
  <2>2. CASE StartRunner(x) \/ Hooked(x)
    <3>1. Hooks!After(x)
      BY <2>2 DEF StartRunner, Hooked
    <3>2. /\ Hooks!HookTypeOK' /\ call'[x] = NoCall /\ ~Hooks!Wedged(x)
          /\ x # m => call'[m] = call[m]
      BY <3>1, <1>b, AfterHook
    <3>3. x # m => /\ pc'[m] = pc[m] /\ loc'[m] = loc[m]
                   /\ body'[m] = body[m] /\ agentOf'[m] = agentOf[m]
      BY <2>2
         DEF StartRunner, StartRun, Hooked, Route, WriteOutgoing, ReturnOk,
             ReturnErr, RunFails, ReleaseGuards, Goto, IInv, TypeOK, fileVars
    <3> QED
      BY <3>2, <3>3 DEF Apart
  <2>3. CASE EnsureBrowser(x)
    BY <2>3, <1>a DEF EnsureBrowser, vars, fileVars, taskVars, Apart
  <2>4. CASE RunnerReturns(x)
    <3>1. pc[x] = "running" /\ UNCHANGED call
      BY <2>4 DEF RunnerReturns, RunSucceeds
    <3>2. x # m
      BY <3>1 DEF AtHook
    <3> QED
      BY <2>4, <3>1, <3>2, <1>a
         DEF RunnerReturns, RunSucceeds, RunFails, Goto, IInv, TypeOK, Apart,
             fileVars
  <2>5. CASE Plain(x)
    <3>1. x # m /\ UNCHANGED call
      BY <2>5 DEF Plain, otherVars
    <3> QED
      BY <2>5, <3>1, <1>a
         DEF Plain, ReadFails, Abandon, AcquireAgent, AcquirePermit,
             RemoveFile, Goto, IInv, TypeOK, Apart, fileVars
  <2> QED
    BY <1>9, <2>1, <2>2, <2>3, <2>4, <2>5 DEF PipelineStep
<1> QED
  BY <1>1, <1>2, <1>3, <1>4, <1>5, <1>6, <1>7, <1>8, <1>9 DEF PipelineNext

\* A command of m is started only by a hook of its task.
LEMMA OnlyHooksCall ==
  ASSUME HookInv, IInv, PipelineNext
  PROVE  /\ Hooks!HookTypeOK'
         /\ \A m \in Msgs : call'[m] \in {call[m], NoCall} \/ RunHook(m)
<1>0. Hooks!HookTypeOK
  BY DEF HookInv
<1> USE <1>0
<1> DEFINE Good == /\ Hooks!HookTypeOK'
                   /\ \A m \in Msgs :
                        call'[m] \in {call[m], NoCall} \/ RunHook(m)
<1>a. UNCHANGED call => Good
  BY DEF Hooks!HookTypeOK
<1>b. \A x \in Msgs : x \in HookCallers
  BY DEF HookCallers
<1>c. ASSUME NEW c, \A m \in Msgs : m # c, Announce(c)
      PROVE  Good
  <2>1. CASE UNCHANGED call
    BY <2>1, <1>a
  <2>2. CASE Hooks!Spawn(c)
    <3>1. PICK b \in Behaviours : call' = [call EXCEPT ![c] = Hooks!Started(b)]
      BY <2>2 DEF Hooks!Spawn
    <3>2. Hooks!Started(b) \in Hooks!Stages
      BY DEF Hooks!Stages, Hooks!Started
    <3> QED
      BY <3>1, <3>2, <1>b, <1>c DEF Hooks!HookTypeOK
  <2> QED
    BY <1>c, <2>1, <2>2 DEF Announce
<1>1. CASE QueueStep \/ ScanPipeline \/ RecoverAll \/ Outside
  BY <1>1, <1>a DEF QueueStep, ScanPipeline, RecoverAll, Outside, otherVars
<1>2. CASE CrashPipeline
  <2>1. call' = [c \in HookCallers |-> NoCall]
    BY <1>2 DEF CrashPipeline, Hooks!HooksGone
  <2> QED
    BY <2>1, <1>b DEF Hooks!HookTypeOK
<1>3. CASE RestartDaemon
  BY <1>3, <1>c, PipelineAssumption DEF RestartDaemon
<1>4. ASSUME NEW c \in Notices \cup {Processor}, EventHook(c)
      PROVE  Good
  <2>1. c \in HookCallers /\ c \notin Msgs
    BY PipelineAssumption DEF HookCallers, Notices
  <2>2. Hooks!Feed(c) \/ Hooks!Returns(c)
    BY <1>4 DEF EventHook
  <2> QED
    BY <2>1, <2>2, <1>b, HookSteps
<1>5. ASSUME NEW x \in Msgs, SettleFile(x)
      PROVE  Good
  <2>1. \A m \in Msgs : <<x, name[x] + 1>> # m
    BY PipelineAssumption DEF IInv, TypeOK
  <2> QED
    BY <1>5, <2>1, <1>a, <1>c DEF SettleFile, otherVars
<1>6. ASSUME NEW x \in Msgs, PipelineStep(x) \/ CliHangs(x)
      PROVE  Good
  <2>1. CASE RunHook(x)
    <3>1. Hooks!Spawn(x) \/ Hooks!Feed(x)
      BY <2>1 DEF RunHook
    <3> QED
      BY <2>1, <3>1, <1>b, HookSteps
  <2>2. CASE StartRunner(x) \/ Hooked(x)
    <3>1. Hooks!After(x)
      BY <2>2 DEF StartRunner, Hooked
    <3> QED
      BY <3>1, <1>b, AfterHook
  <2>3. CASE EnsureBrowser(x) \/ RunnerReturns(x) \/ Plain(x) \/ CliHangs(x)
    BY <2>3, <1>a DEF EnsureBrowser, RunnerReturns, Plain, CliHangs, otherVars
  <2> QED
    BY <1>6, <2>1, <2>2, <2>3 DEF PipelineStep
<1> QED
  BY <1>1, <1>2, <1>3, <1>4, <1>5, <1>6 DEF PipelineNext

LEMMA HookInvStep ==
  ASSUME HookInv, IInv, [PipelineNext]_pipelineVars
  PROVE  HookInv'
<1>1. CASE UNCHANGED pipelineVars
  BY <1>1
     DEF HookInv, Hooks!HookTypeOK, AtHook, pipelineVars, vars, otherVars,
         fileVars, taskVars
<1>2. CASE PipelineNext
  <2>1. Hooks!HookTypeOK'
    BY <1>2, OnlyHooksCall
  <2>2. ASSUME NEW m \in Msgs, call'[m] # NoCall PROVE AtHook(m)'
    <3>1. CASE RunHook(m)
      BY <3>1 DEF RunHook, AtHook, vars, taskVars, fileVars
    <3>2. CASE ~RunHook(m)
      <4>1. call[m] # NoCall
        BY <1>2, <2>2, <3>2, OnlyHooksCall
      <4>2. AtHook(m) /\ HookOutcome(m)
        BY <1>2, <4>1, HookOwns, OthersHookOutcome
      <4> QED
        BY <4>2, <3>2, <2>2 DEF HookOutcome, Apart, AtHook
    <3> QED
      BY <3>1, <3>2
  <2> QED
    BY <2>1, <2>2 DEF HookInv
<1> QED
  BY <1>1, <1>2

\* A plugin command that hangs is ended by nothing but the end of the daemon,
\* whatever other tasks, producers and the clock do: its task keeps its step,
\* its claimed file and, past the routing, the lock of its agent.
THEOREM HangsAreOutlasted == PipelineSpec => HangsOutlastAll
<1> DEFINE Outlasts(m) ==
      Hooks!Wedged(m) /\ phase' # "down" =>
        /\ Hooks!Wedged(m)'
        /\ pc'[m] = pc[m] /\ loc'[m] = loc[m]
        /\ pc[m] # "claimed" => agentLock'[agentOf[m]] = m
<1>1. PipelineInit => HookInv
  BY HookInvInit
<1>2. HookInv /\ IInv /\ [PipelineNext]_pipelineVars => HookInv'
  BY HookInvStep
<1>3. HookInv /\ IInv /\ IInv' /\ [PipelineNext]_pipelineVars
        => [\A m \in Msgs : Outlasts(m)]_pipelineVars
  <2> SUFFICES ASSUME HookInv, IInv, IInv', PipelineNext, NEW m \in Msgs,
                      Hooks!Wedged(m), phase' # "down"
               PROVE  /\ Hooks!Wedged(m)'
                      /\ pc'[m] = pc[m] /\ loc'[m] = loc[m]
                      /\ pc[m] # "claimed" => agentLock'[agentOf[m]] = m
    BY DEF Outlasts
  <2>1. call[m] # NoCall
    BY DEF Hooks!Wedged
  <2>2. AtHook(m) /\ HookOutcome(m)
    BY <2>1, HookOwns, OthersHookOutcome
  <2>3. Apart(m) \/ RunHook(m)
    BY <2>2 DEF HookOutcome
  <2>4. Hooks!Wedged(m)'
    <3>1. CASE RunHook(m)
      BY <3>1, FeedWedged DEF RunHook, HookInv, HookCallers
    <3>2. CASE Apart(m)
      BY <3>2 DEF Apart, Hooks!Wedged
    <3> QED
      BY <2>3, <3>1, <3>2
  <2>5. pc'[m] = pc[m] /\ loc'[m] = loc[m] /\ agentOf'[m] = agentOf[m]
    BY <2>3 DEF Apart, RunHook, vars, taskVars, fileVars
  <2>6. ASSUME pc[m] # "claimed" PROVE agentLock'[agentOf[m]] = m
    <3>1. pc'[m] \in HoldingLock
      BY <2>2, <2>5, <2>6 DEF AtHook, HoldingLock, HoldingPermit
    <3>2. agentOf'[m] \in Agents /\ agentLock'[agentOf'[m]] = m
      BY <3>1 DEF IInv, LockInv
    <3> QED
      BY <3>2, <2>5
  <2> QED
    BY <2>4, <2>5, <2>6
<1>4. PipelineSpec => []IInv
  BY PipelineImplementsQueue, Invariance
<1> QED
  BY <1>1, <1>2, <1>3, <1>4, PTL DEF PipelineSpec, HangsOutlastAll, Outlasts

-----------------------------------------------------------------------------
(* Browsers.                                                               *)

\* The port lock is held by whoever probes or awaits the browser.
LockHeld ==
  \A c \in Msgs : ensure[c] \in {"probing", "awaiting"} => portLock = c

\* A browser that was not given up is the only one, and it either answers or is
\* the one that the holder of the port lock launched and waits for.
OneBrowser ==
  ~givenUp =>
    /\ chromes \in {0, 1}
    /\ port = "none" <=> chromes = 0
    /\ port = "starting" => \E c \in Msgs : ensure[c] = "awaiting"

BrowserInv == Browser!BrowserTypeOK /\ LockHeld /\ OneBrowser

LEMMA BrowserInvInit ==
  ASSUME PipelineInit
  PROVE  BrowserInv
<1>1. Browser!BrowserInit
  BY DEF PipelineInit, OthersInit
<1>2. Browser!BrowserTypeOK
  <2>1. givenUp \in BOOLEAN
    BY <1>1 DEF Browser!BrowserInit
  <2>2. /\ port \in {"none", "starting", "ready", "stalled"}
        /\ chromes \in 0 .. MaxChromes
        /\ portLock \in Msgs \cup {NoMsg}
        /\ ensure \in [Msgs -> {"out", "locking", "probing", "awaiting", "open"}]
    BY <1>1, PipelineAssumption DEF Browser!BrowserInit
  <2> QED
    BY <2>1, <2>2 DEF Browser!BrowserTypeOK
<1>3. LockHeld
  BY <1>1 DEF Browser!BrowserInit, LockHeld
<1>4. chromes \in {0, 1} /\ (port = "none" <=> chromes = 0) /\ port # "starting"
  BY <1>1 DEF Browser!BrowserInit
<1> QED
  BY <1>2, <1>3, <1>4 DEF BrowserInv, OneBrowser

\* What a step of the pipeline does to the browser's variables.
LEMMA StepOfBrowser ==
  ASSUME PipelineNext
  PROVE  BrowserStep \/ UNCHANGED browserVars
<1>1. QueueStep \/ RestartDaemon \/ RecoverAll \/ ScanPipeline
        => UNCHANGED browserVars
  BY DEF QueueStep, RestartDaemon, RecoverAll, ScanPipeline, Announce, otherVars
<1>2. CrashPipeline => BrowserStep
  BY DEF CrashPipeline, BrowserStep
<1>3. Outside => BrowserStep
  BY DEF Outside, BrowserStep
<1>4. ASSUME NEW m \in Msgs, PipelineStep(m)
      PROVE  BrowserStep \/ UNCHANGED browserVars
  BY <1>4
     DEF PipelineStep, RunHook, StartRunner, EnsureBrowser, RunnerReturns,
         Hooked, Plain, otherVars, BrowserStep, Browser!Fails
<1>5. ASSUME NEW m \in Msgs, CliHangs(m) \/ SettleFile(m)
      PROVE  UNCHANGED browserVars
  BY <1>5 DEF CliHangs, SettleFile, Announce, otherVars
<1>6. ASSUME NEW c \in Notices \cup {Processor}, EventHook(c)
      PROVE  UNCHANGED browserVars
  BY <1>6 DEF EventHook
<1> QED
  BY <1>1, <1>2, <1>3, <1>4, <1>5, <1>6 DEF PipelineNext

LEMMA BrowserInvStep ==
  ASSUME BrowserInv, BrowserStep \/ UNCHANGED browserVars
  PROVE  BrowserInv'
<1> USE QueueAssumption, PipelineAssumption
<1> USE DEF BrowserInv, Browser!BrowserTypeOK, LockHeld, OneBrowser, Browser!At
<1>1. CASE UNCHANGED browserVars
  BY <1>1 DEF browserVars
<1>2. ASSUME NEW c \in Msgs, Browser!Enter(c) PROVE BrowserInv'
  BY <1>2 DEF Browser!Enter
<1>3. ASSUME NEW c \in Msgs, Browser!Skip(c) PROVE BrowserInv'
  BY <1>3 DEF Browser!Skip
<1>4. ASSUME NEW c \in Msgs, Browser!LockPort(c) PROVE BrowserInv'
  BY <1>4 DEF Browser!LockPort, Browser!PortLockFree
<1>5. ASSUME NEW c \in Msgs, Browser!Ready(c) PROVE BrowserInv'
  BY <1>5 DEF Browser!Ready
<1>6. ASSUME NEW c \in Msgs, Browser!Launch(c) PROVE BrowserInv'
  BY <1>6 DEF Browser!Launch
<1>7. ASSUME NEW c \in Msgs, Browser!EnsureFails(c) PROVE BrowserInv'
  <2>1. /\ ensure[c] \in {"probing", "awaiting"}
        /\ portLock' = NoMsg
        /\ ensure' = [ensure EXCEPT ![c] = "out"]
        /\ UNCHANGED <<port, chromes>>
    BY <1>7 DEF Browser!EnsureFails
  <2>2. givenUp' \in BOOLEAN
    BY <1>7 DEF Browser!EnsureFails
  <2>3. ~givenUp' => ~givenUp /\ ~(ensure[c] = "awaiting" /\ chromes > 0)
    BY <1>7 DEF Browser!EnsureFails
  <2>4. Browser!BrowserTypeOK'
    BY <2>1, <2>2
  <2>5. LockHeld'
    BY <2>1
  <2>6. ASSUME ~givenUp'
        PROVE  /\ chromes' \in {0, 1}
               /\ port' = "none" <=> chromes' = 0
               /\ port' = "starting" => \E d \in Msgs : ensure'[d] = "awaiting"
    <3>1. ~givenUp /\ ~(ensure[c] = "awaiting" /\ chromes > 0)
      BY <2>3, <2>6
    <3>2. chromes \in {0, 1} /\ (port = "none" <=> chromes = 0)
      BY <3>1
    <3>3. port # "starting"
      <4> SUFFICES ASSUME port = "starting" PROVE FALSE
        OBVIOUS
      <4>1. PICK d \in Msgs : ensure[d] = "awaiting"
        BY <3>1
      <4>2. d = c
        BY <4>1, <2>1
      <4> QED
        BY <4>1, <4>2, <3>1, <3>2
    <3> QED
      BY <2>1, <3>2, <3>3
  <2> QED
    BY <2>4, <2>5, <2>6
<1>8. ASSUME NEW c \in Msgs, Browser!Leave(c) PROVE BrowserInv'
  BY <1>8 DEF Browser!Leave
<1>9. CASE Browser!Outside
  BY <1>9
     DEF Browser!Outside, Browser!ComesUp, Browser!Stalls, Browser!ChromeDies
<1>10. CASE Browser!BrowserOutlivesDaemon
  <2>1. /\ portLock' = NoMsg
        /\ ensure' = [c \in Msgs |-> "out"]
        /\ UNCHANGED <<port, chromes>>
    BY <1>10 DEF Browser!BrowserOutlivesDaemon
  <2>2. givenUp' \in BOOLEAN
    BY <1>10 DEF Browser!BrowserOutlivesDaemon
  <2>3. ~givenUp' =>
          ~givenUp /\ ~(chromes > 0 /\ \E c \in Msgs : ensure[c] = "awaiting")
    BY <1>10 DEF Browser!BrowserOutlivesDaemon
  <2>4. Browser!BrowserTypeOK'
    BY <2>1, <2>2
  <2>5. LockHeld'
    BY <2>1
  <2>6. ASSUME ~givenUp'
        PROVE  /\ chromes' \in {0, 1}
               /\ port' = "none" <=> chromes' = 0
               /\ port' # "starting"
    <3>1. ~givenUp /\ ~(chromes > 0 /\ \E c \in Msgs : ensure[c] = "awaiting")
      BY <2>3, <2>6
    <3> QED
      BY <2>1, <3>1
  <2> QED
    BY <2>4, <2>5, <2>6
<1> QED
  BY <1>1, <1>2, <1>3, <1>4, <1>5, <1>6, <1>7, <1>8, <1>9, <1>10 DEF BrowserStep

\* One profile directory is in the hands of two live browsers only if one of
\* them was given up before it answered, for any number of agents that share
\* the profile and any number of restarts.
THEOREM TwinsAreExplained == PipelineSpec => []TwinsHaveCause
<1>1. PipelineInit => BrowserInv
  BY BrowserInvInit
<1>2. BrowserInv /\ [PipelineNext]_pipelineVars => BrowserInv'
  BY StepOfBrowser, BrowserInvStep DEF pipelineVars, otherVars
<1>3. BrowserInv => TwinsHaveCause
  BY DEF BrowserInv, OneBrowser, TwinsHaveCause
<1> QED
  BY <1>1, <1>2, <1>3, PTL DEF PipelineSpec
=============================================================================
