--------------------------- MODULE SessionProofs ---------------------------
(***************************************************************************)
(* Proofs about the two models of an agent's sessions.  AgentMemory: for   *)
(* any number of turns, facts, heartbeat runs, resets and failures, and a  *)
(* prompt with room for any number of entries.  Heartbeat: for any agents, *)
(* intervals, answers, window, targets and number of requested runs.       *)
(***************************************************************************)
EXTENDS AgentMemory, Heartbeat, FiniteSetTheorems, SequenceTheorems,
        WellFoundedInduction, TLAPS

\* The invariant holds before the first turn.
LEMMA InitIInv == ASSUME Init PROVE IInv
<1> USE MemoryAssumption
<1>1. TypeOK
  <2> USE DEF Init
  <2>1. /\ lock \in Turns \cup {Nobody} /\ turn \in [Turns -> Steps]
        /\ \A t \in Turns : turn[t] = "running" <=> lock = t
    BY DEF Steps
  <2>2. /\ {session, dir, flag, fresh, stale} \subseteq BOOLEAN
        /\ {overlapped, raced, uninformed, unlinked, interrupted} \subseteq BOOLEAN
        /\ early \subseteq Turns /\ doubt \subseteq {"failed", "beat", "kept"}
        /\ written \subseteq Turns
    OBVIOUS
  <2>3. todo \in Todos /\ daily \in Seq(Turns)
    BY DEF Todos
  <2>4. known \in [Turns -> SUBSET Turns] /\ base \in [Turns -> Seq(Turns)]
    OBVIOUS
  <2>5. troubles \in 0 .. MaxTroubles
    OBVIOUS
  <2>6. QED  BY <2>1, <2>2, <2>3, <2>4, <2>5 DEF TypeOK
<1>2. ConversationInv
  BY DEF Init, ConversationInv, Continued
<1>3. AppendInv /\ FactInv
  BY DEF Init, AppendInv, FactInv, At, Appending, Pending
<1>4. Entries(daily) = {}
  BY DEF Init, Entries
<1>5. LossHasCause /\ DuplicateHasCause
  BY <1>4 DEF Init, LossHasCause, DuplicateHasCause, DistinctFacts
<1>6. QED  BY <1>1, <1>2, <1>3, <1>5 DEF IInv

\* The last step of a reset clears the store or sets the flag.
LEMMA TodoTail ==
  ASSUME NEW left \in Todos, left # <<>>
  PROVE  /\ Tail(left) \in Todos
         /\ Tail(left) = <<>> => Head(left) \in {"clear", "flag"}
<1> USE DEF Todos
<1>1. CASE left = <<"clear", "remove", "flag">>
  <2>1. Tail(left) = <<"remove", "flag">>
    BY <1>1
  <2>2. QED  BY <2>1
<1>2. CASE left = <<"remove", "flag", "clear">>
  <2>1. Tail(left) = <<"flag", "clear">>
    BY <1>2
  <2>2. QED  BY <2>1
<1>3. CASE left = <<"remove", "flag">>
  <2>1. Tail(left) = <<"flag">>
    BY <1>3
  <2>2. QED  BY <2>1
<1>4. CASE left = <<"flag", "clear">>
  <2>1. Tail(left) = <<"clear">>
    BY <1>4
  <2>2. QED  BY <2>1
<1>5. CASE left = <<"flag">>
  <2>1. Tail(left) = <<>> /\ Head(left) = "flag"
    BY <1>5
  <2>2. QED  BY <2>1
<1>6. CASE left = <<"clear">>
  <2>1. Tail(left) = <<>> /\ Head(left) = "clear"
    BY <1>6
  <2>2. QED  BY <2>1
<1>7. QED  BY <1>1, <1>2, <1>3, <1>4, <1>5, <1>6

\* Each step keeps the types.
LEMMA TypeStep == ASSUME TypeOK, [Next]_vars PROVE TypeOK'
<1> USE MemoryAssumption DEF TypeOK, Steps, Trouble, contentVars, historyVars, sessionVars
<1>1. ASSUME NEW t \in Turns, Prepare(t) PROVE TypeOK'
  <2>1. CASE LookForReset(t)
    BY <2>1 DEF LookForReset
  <2>2. CASE ClearSessions(t)
    BY <2>2 DEF ClearSessions
  <2>3. CASE Link(t)
    BY <2>3 DEF Link
  <2>4. QED  BY <1>1, <2>1, <2>2, <2>3 DEF Prepare
<1>18. ASSUME NEW t \in Turns, ClearSessionsFails(t) PROVE TypeOK'
  <2>1. /\ turn' \in [Turns -> Steps] /\ troubles' \in 0 .. MaxTroubles
        /\ \A u \in Turns : turn'[u] = "running" <=> lock = u
    BY <1>18 DEF ClearSessionsFails
  <2>2. session' \in BOOLEAN /\ doubt' \subseteq {"failed", "beat", "kept"}
    BY <1>18 DEF ClearSessionsFails
  <2>3. QED  BY <1>18, <2>1, <2>2 DEF ClearSessionsFails
<1>19. ASSUME NEW t \in Turns, PrepareFails(t) PROVE TypeOK'
  <2>1. /\ turn' \in [Turns -> Steps] /\ troubles' \in 0 .. MaxTroubles
        /\ \A u \in Turns : turn'[u] = "running" <=> lock = u
    BY <1>19 DEF PrepareFails
  <2>2. session' \in BOOLEAN /\ doubt' \subseteq {"failed", "beat", "kept"}
    BY <1>19 DEF PrepareFails
  <2>3. QED  BY <1>19, <2>1, <2>2 DEF PrepareFails
<1>2. ASSUME NEW t \in Turns, StartTurn(t) PROVE TypeOK'
  BY <1>2 DEF StartTurn
<1>3. ASSUME NEW t \in Turns, SpawnFails(t) PROVE TypeOK'
  BY <1>3 DEF SpawnFails
<1>4. ASSUME NEW t \in Turns, EndTurn(t) PROVE TypeOK'
  BY <1>4 DEF EndTurn
<1>5. ASSUME NEW t \in Turns, FailTurn(t) PROVE TypeOK'
  <2>1. stale' \in BOOLEAN /\ fresh' \in BOOLEAN /\ doubt' \subseteq {"failed", "beat", "kept"}
    BY <1>5 DEF FailTurn
  <2>2. /\ turn' \in [Turns -> Steps] /\ lock' = Nobody /\ troubles' \in 0 .. MaxTroubles
        /\ \A u \in Turns : turn'[u] # "running"
    BY <1>5 DEF FailTurn
  <2>3. QED  BY <1>5, <2>1, <2>2 DEF FailTurn
<1>6. CASE Beat
  BY <1>6 DEF Beat
<1>7. CASE BeginReset
  BY <1>7 DEF BeginReset, Todos
<1>8. CASE ResetStep
  <2>1. todo' \in Todos
    BY <1>8, TodoTail DEF ResetStep
  <2>2. {session', dir', flag', fresh', stale'} \subseteq BOOLEAN
    BY <1>8 DEF ResetStep
  <2>3. early' \subseteq Turns /\ doubt' \subseteq {"failed", "beat", "kept"}
    BY <1>8 DEF ResetStep, At
  <2>4. QED  BY <1>8, <2>1, <2>2, <2>3 DEF ResetStep
<1>9. ASSUME NEW t \in Turns, LoadExisting(t) PROVE TypeOK'
  <2>1. ExistingMemory \subseteq Turns
    <3> DEFINE Listed == {i \in DOMAIN daily : daily[i] \notin Headed}
    <3>1. \A i \in Listed : daily[i] \in Turns
      OBVIOUS
    <3>2. QED  BY <3>1 DEF ExistingMemory
  <2>2. known' \in [Turns -> SUBSET Turns]
    <3> HIDE DEF TypeOK
    <3>1. PICK told \in SUBSET Turns : known' = [known EXCEPT ![t] = told]
      BY <1>9, <2>1 DEF LoadExisting
    <3>2. QED  BY <3>1 DEF TypeOK
  <2>3. uninformed' \in {uninformed, TRUE} /\ (troubles' = troubles \/ Trouble)
    BY <1>9 DEF LoadExisting
  <2>4. troubles' \in 0 .. MaxTroubles
    BY <2>3
  <2>5. uninformed' \in BOOLEAN
    BY <2>3
  <2>6. QED  BY <1>9, <2>2, <2>4, <2>5 DEF LoadExisting
<1>10. ASSUME NEW t \in Turns, NothingNew(t) PROVE TypeOK'
  BY <1>10 DEF NothingNew
<1>11. ASSUME NEW t \in Turns, TimeOut(t) PROVE TypeOK'
  BY <1>11 DEF TimeOut
<1>12. ASSUME NEW t \in Turns, ReadDaily(t) PROVE TypeOK'
  BY <1>12 DEF ReadDaily
<1>13. ASSUME NEW t \in Turns, Truncate(t) PROVE TypeOK'
  <2>1. turn' \in [Turns -> Steps] /\ \A u \in Turns : turn'[u] = "running" <=> lock = u
    BY <1>13 DEF Truncate
  <2>2. <<>> \in Seq(Turns)
    OBVIOUS
  <2>3. daily' \in Seq(Turns)
    BY <1>13, <2>2 DEF Truncate
  <2>4. base' \in [Turns -> Seq(Turns)]
    BY <1>13, <2>2 DEF Truncate
  <2>5. QED  BY <1>13, <2>1, <2>3, <2>4 DEF Truncate
<1>14. ASSUME NEW t \in Turns, WriteDaily(t) PROVE TypeOK'
  BY <1>14 DEF WriteDaily, NewContent
<1>20. ASSUME NEW t \in Turns, WriteFails(t) PROVE TypeOK'
  <2>1. /\ turn' \in [Turns -> Steps] /\ troubles' \in 0 .. MaxTroubles
        /\ \A u \in Turns : turn'[u] = "running" <=> lock = u
    BY <1>20 DEF WriteFails
  <2>2. daily' \in Seq(Turns)
    <3>1. PICK n \in 0 .. Len(base[t]) : daily' = SubSeq(base[t], 1, n)
      BY <1>20 DEF WriteFails
    <3>2. QED  BY <3>1
  <2>3. base' \in [Turns -> Seq(Turns)]
    BY <1>20 DEF WriteFails
  <2>4. QED  BY <1>20, <2>1, <2>2, <2>3 DEF WriteFails
<1>15. CASE Crash
  <2>1. turn' \in [Turns -> Steps] /\ lock' = Nobody /\ troubles' \in 0 .. MaxTroubles
        /\ \A u \in Turns : turn'[u] # "running"
    BY <1>15 DEF Crash
  <2>2. /\ {fresh', stale', interrupted'} \subseteq BOOLEAN
        /\ doubt' \subseteq {"failed", "beat", "kept"} /\ early' = {}
    BY <1>15 DEF Crash
  <2>3. todo' \in Todos
    BY <1>15 DEF Crash, Todos
  <2>4. known' \in [Turns -> SUBSET Turns] /\ base' \in [Turns -> Seq(Turns)]
    BY <1>15 DEF Crash
  <2>5. QED  BY <1>15, <2>1, <2>2, <2>3, <2>4 DEF Crash
<1>16. CASE UNCHANGED vars
  BY <1>16 DEF vars
<1>17. QED
  BY <1>1, <1>2, <1>3, <1>4, <1>5, <1>6, <1>7, <1>8, <1>9, <1>10, <1>11, <1>12,
     <1>13, <1>14, <1>15, <1>16, <1>18, <1>19, <1>20 DEF Next, Start, AppendStep

\* Sessions and flag: the steps that touch a conversation, or what is known of
\* it, are those of turns before their end, of resets and of heartbeat runs.
LEMMA ConversationStep ==
  ASSUME TypeOK, ConversationInv, [Next]_vars PROVE ConversationInv'
<1> USE MemoryAssumption DEF TypeOK, ConversationInv, Continued, At, Steps, Waiting
<1>1. ASSUME NEW t \in Turns, Prepare(t) PROVE ConversationInv'
  BY <1>1 DEF Prepare, LookForReset, ClearSessions, Link
<1>13. ASSUME NEW t \in Turns, ClearSessionsFails(t) \/ PrepareFails(t)
       PROVE  ConversationInv'
  <2>1. CASE ClearSessionsFails(t)
    BY <2>1 DEF ClearSessionsFails
  <2>2. CASE PrepareFails(t)
    BY <2>2 DEF PrepareFails
  <2>3. QED  BY <1>13, <2>1, <2>2
<1>2. ASSUME NEW t \in Turns, StartTurn(t) PROVE ConversationInv'
  BY <1>2 DEF StartTurn
<1>3. ASSUME NEW t \in Turns, SpawnFails(t) PROVE ConversationInv'
  BY <1>3 DEF SpawnFails
<1>4. ASSUME NEW t \in Turns, EndTurn(t) PROVE ConversationInv'
  BY <1>4 DEF EndTurn
<1>5. ASSUME NEW t \in Turns, FailTurn(t) PROVE ConversationInv'
  BY <1>5 DEF FailTurn
<1>6. CASE Beat
  BY <1>6 DEF Beat
<1>7. CASE BeginReset
  BY <1>7 DEF BeginReset
<1>8. CASE ResetStep
  <2>1. todo' = <<>> => Head(todo) = "clear" \/ Head(todo) = "flag"
    BY <1>8, TodoTail DEF ResetStep
  <2>2. CASE todo' = <<>>
    BY <1>8, <2>1, <2>2 DEF ResetStep
  <2>3. CASE todo' # <<>>
    BY <1>8, <2>3 DEF ResetStep
  <2>4. QED  BY <2>2, <2>3
<1>9. CASE Crash
  BY <1>9 DEF Crash
<1>10. ASSUME NEW t \in Turns,
              LoadExisting(t) \/ NothingNew(t) \/ TimeOut(t) \/ AppendStep(t)
       PROVE  ConversationInv'
  BY <1>10 DEF LoadExisting, NothingNew, TimeOut, AppendStep, ReadDaily, Truncate,
               WriteDaily, WriteFails, sessionVars
<1>11. CASE UNCHANGED vars
  BY <1>11 DEF vars, sessionVars
<1>12. QED
  BY <1>1, <1>2, <1>3, <1>4, <1>5, <1>6, <1>7, <1>8, <1>9, <1>10, <1>11,
     <1>13 DEF Next, Start

\* The entries of a file with one more entry.
LEMMA AppendedEntries ==
  ASSUME NEW file \in Seq(Turns), NEW t \in Turns
  PROVE  Entries(Append(file, t)) = Entries(file) \cup {t}
<1>1. DOMAIN Append(file, t) = 1 .. Len(file) + 1 /\ DOMAIN file = 1 .. Len(file)
  OBVIOUS
<1>2. /\ \A i \in 1 .. Len(file) : Append(file, t)[i] = file[i]
      /\ Append(file, t)[Len(file) + 1] = t
  OBVIOUS
<1>3. \A i \in 1 .. Len(file) + 1 : i \in 1 .. Len(file) \/ i = Len(file) + 1
  OBVIOUS
<1>4. QED  BY <1>1, <1>2, <1>3 DEF Entries

\* What a step leaves as it is if it takes no part in an append.
AppendsUntouched ==
  /\ UNCHANGED <<daily, base, written, overlapped, interrupted>>
  /\ unlinked => unlinked'
  /\ \A t \in Turns : turn'[t] # turn[t] =>
       turn[t] \notin Appending /\ turn'[t] \notin Appending

\* Only an append or a crash touches the history.
LEMMA OtherStepsAppendNothing ==
  ASSUME TypeOK, [Next]_vars,
         ~\E t \in Turns : AppendStep(t), ~Crash
  PROVE  AppendsUntouched
<1> USE DEF TypeOK, AppendsUntouched, Appending, contentVars, historyVars,
            sessionVars
<1>1. ASSUME NEW t \in Turns,
             Prepare(t) \/ ClearSessionsFails(t) \/ PrepareFails(t) \/ StartTurn(t)
               \/ SpawnFails(t) \/ EndTurn(t) \/ FailTurn(t)
      PROVE  AppendsUntouched
  <2>1. CASE Prepare(t)
    BY <2>1 DEF Prepare, LookForReset, ClearSessions, Link
  <2>2. CASE ClearSessionsFails(t)
    BY <2>2 DEF ClearSessionsFails
  <2>3. CASE PrepareFails(t)
    BY <2>3 DEF PrepareFails
  <2>4. CASE StartTurn(t) \/ SpawnFails(t) \/ EndTurn(t) \/ FailTurn(t)
    BY <2>4 DEF StartTurn, SpawnFails, EndTurn, FailTurn
  <2>5. QED  BY <1>1, <2>1, <2>2, <2>3, <2>4
<1>2. ASSUME NEW t \in Turns, LoadExisting(t) \/ NothingNew(t) \/ TimeOut(t)
      PROVE  AppendsUntouched
  BY <1>2 DEF LoadExisting, NothingNew, TimeOut
<1>3. CASE Beat \/ BeginReset \/ ResetStep
  BY <1>3 DEF Beat, BeginReset, ResetStep
<1>4. CASE UNCHANGED vars
  BY <1>4 DEF vars
<1>5. QED  BY <1>1, <1>2, <1>3, <1>4 DEF Next, Start

\* Each step keeps the invariant of the appended history.
LEMMA AppendInvStep ==
  ASSUME TypeOK, AppendInv, LossHasCause, [Next]_vars
  PROVE  AppendInv' /\ LossHasCause'
<1> USE DEF TypeOK, AppendInv, LossHasCause, At, Appending
<1>1. ASSUME NEW t \in Turns, ReadDaily(t) PROVE AppendInv' /\ LossHasCause'
  <2>1. turn' = [turn EXCEPT ![t] = "read"] /\ UNCHANGED <<daily, written, interrupted>>
    BY <1>1 DEF ReadDaily
  <2>2. ~overlapped' => ~overlapped /\ At(Appending) = {}
    BY <1>1 DEF ReadDaily
  <2>3. ~unlinked' => ~unlinked /\ dir
    BY <1>1 DEF ReadDaily
  <2>4. dir => base'[t] = daily
    BY <1>1 DEF ReadDaily
  <2>5. ~overlapped' => \A u \in Turns : turn'[u] \in Appending => u = t
    BY <2>1, <2>2
  <2>6. QED  BY <2>1, <2>2, <2>3, <2>4, <2>5
<1>2. ASSUME NEW t \in Turns, Truncate(t) PROVE AppendInv' /\ LossHasCause'
  <2> USE DEF historyVars
  <2>1. CASE dir
    <3>1. turn'[t] = "truncated" /\ \A u \in Turns \ {t} : turn'[u] = turn[u]
      BY <1>2, <2>1 DEF Truncate
    <3>2. UNCHANGED <<base, historyVars>> /\ turn[t] = "read"
      BY <1>2, <2>1 DEF Truncate
    <3>3. ~overlapped => At(Appending) = {t}
      BY <3>2
    <3>4. QED  BY <3>1, <3>2, <3>3
  <2>2. CASE ~dir
    <3>1. turn'[t] = "ended" /\ \A u \in Turns \ {t} : turn'[u] = turn[u]
      BY <1>2, <2>2 DEF Truncate
    <3>2. UNCHANGED <<daily, historyVars>> /\ turn[t] = "read"
      BY <1>2, <2>2 DEF Truncate
    <3>3. \A u \in Turns \ {t} : base'[u] = base[u]
      BY <1>2, <2>2 DEF Truncate
    <3>4. Entries(daily)' = Entries(daily)
      BY <3>2 DEF Entries
    <3>5. ~overlapped => \A u \in Turns \ {t} : turn[u] \notin Appending
      BY <3>2
    <3>6. AppendInv'
      BY <3>1, <3>2, <3>3, <3>5
    <3>7. LossHasCause'
      BY <3>1, <3>2, <3>4, <3>5
    <3>8. QED  BY <3>6, <3>7
  <2>3. QED  BY <2>1, <2>2
<1>3. ASSUME NEW t \in Turns, WriteDaily(t) PROVE AppendInv' /\ LossHasCause'
  <2>1. /\ turn[t] = "truncated" /\ turn' = [turn EXCEPT ![t] = "ended"]
        /\ daily' = Append(base[t], t) /\ written' = written \cup {t}
        /\ UNCHANGED <<overlapped, unlinked, interrupted>>
        /\ base' = [base EXCEPT ![t] = <<>>]
    BY <1>3 DEF WriteDaily, NewContent
  <2>2. Entries(daily)' = Entries(base[t]) \cup {t}
    <3>1. Entries(Append(base[t], t)) = Entries(base[t]) \cup {t}
      BY AppendedEntries
    <3>2. Entries(daily') = Entries(base[t]) \cup {t}
      BY <2>1, <3>1
    <3>3. QED  BY <3>2 DEF Entries
  <2>3. ~overlapped => At(Appending)' = {}
    BY <2>1
  <2>4. QED  BY <2>1, <2>2, <2>3
<1>7. ASSUME NEW t \in Turns, WriteFails(t) PROVE AppendInv' /\ LossHasCause'
  <2>1. interrupted' /\ overlapped' = overlapped
    BY <1>7 DEF WriteFails
  <2>2. turn[t] = "truncated" /\ turn' = [turn EXCEPT ![t] = "ended"]
    BY <1>7 DEF WriteFails
  <2>3. QED  BY <2>1, <2>2
<1>4. CASE Crash
  BY <1>4 DEF Crash, Waiting
<1>5. ASSUME AppendsUntouched PROVE AppendInv' /\ LossHasCause'
  BY <1>5 DEF AppendsUntouched, Entries
<1>6. QED
  BY <1>1, <1>2, <1>3, <1>4, <1>5, <1>7, OtherStepsAppendNothing DEF AppendStep

\* What a step leaves as it is if it takes no part in a consolidation.
FactsUntouched ==
  /\ UNCHANGED <<daily, base, known, raced, uninformed, interrupted, unlinked>>
  /\ \A t \in Turns : turn'[t] # turn[t] =>
       turn[t] \notin Pending /\ turn'[t] \notin Pending

\* Only the steps of a consolidation or a crash touch what is known.
LEMMA OtherStepsConsolidateNothing ==
  ASSUME TypeOK, [Next]_vars, ~Crash,
         ~\E t \in Turns : LoadExisting(t) \/ NothingNew(t) \/ TimeOut(t) \/ AppendStep(t)
  PROVE  FactsUntouched
<1> USE DEF TypeOK, FactsUntouched, Pending, contentVars, historyVars, sessionVars
<1>1. ASSUME NEW t \in Turns,
             Prepare(t) \/ ClearSessionsFails(t) \/ PrepareFails(t) \/ StartTurn(t)
               \/ SpawnFails(t) \/ EndTurn(t) \/ FailTurn(t)
      PROVE  FactsUntouched
  <2>1. CASE Prepare(t)
    BY <2>1 DEF Prepare, LookForReset, ClearSessions, Link
  <2>2. CASE ClearSessionsFails(t)
    BY <2>2 DEF ClearSessionsFails
  <2>3. CASE PrepareFails(t)
    BY <2>3 DEF PrepareFails
  <2>4. CASE StartTurn(t) \/ SpawnFails(t) \/ EndTurn(t) \/ FailTurn(t)
    BY <2>4 DEF StartTurn, SpawnFails, EndTurn, FailTurn
  <2>5. QED  BY <1>1, <2>1, <2>2, <2>3, <2>4
<1>2. CASE Beat \/ BeginReset \/ ResetStep
  BY <1>2 DEF Beat, BeginReset, ResetStep
<1>3. CASE UNCHANGED vars
  BY <1>3 DEF vars
<1>4. QED  BY <1>1, <1>2, <1>3 DEF Next, Start

\* All entries of a file that fits the prompt are in it, but for headings.
LEMMA ShortFilesAreKnown ==
  ASSUME TypeOK, Len(daily) <= KnownCap
  PROVE  ExistingMemory = Entries(daily) \ Headed
<1> DEFINE Listed == {i \in DOMAIN daily : daily[i] \notin Headed}
<1>1. DOMAIN daily = 1 .. Len(daily) /\ Len(daily) \in Nat /\ KnownCap \in Nat
  BY MemoryAssumption DEF TypeOK
<1>2. ASSUME NEW j \in Listed
      PROVE  Cardinality(Listed \cap 1 .. j) <= KnownCap
  <2>1. /\ IsFiniteSet(1 .. Len(daily))
        /\ Cardinality(1 .. Len(daily)) = Len(daily)
    <3>1. 1 \in Int /\ Len(daily) \in Int
      BY <1>1
    <3>2. /\ IsFiniteSet(1 .. Len(daily))
          /\ Cardinality(1 .. Len(daily)) =
               IF 1 > Len(daily) THEN 0 ELSE Len(daily) - 1 + 1
      BY ONLY <3>1, FS_Interval
    <3>3. QED  BY <1>1, <3>2
  <2>2. Listed \cap 1 .. j \subseteq 1 .. Len(daily)
    BY <1>1
  <2>3. /\ IsFiniteSet(Listed \cap 1 .. j)
        /\ Cardinality(Listed \cap 1 .. j) <= Cardinality(1 .. Len(daily))
    BY <2>1, <2>2, FS_Subset
  <2>4. Cardinality(Listed \cap 1 .. j) \in Nat
    BY <2>3, FS_CardinalityType
  <2>5. QED  BY <1>1, <2>1, <2>3, <2>4
<1>3. {j \in Listed : Cardinality(Listed \cap 1 .. j) <= KnownCap} = Listed
  BY <1>2
<1>4. ExistingMemory = {daily[i] : i \in Listed}
  BY <1>3 DEF ExistingMemory
<1>5. QED  BY <1>4 DEF Entries

\* A file stays without repeated facts if the entry that is appended says
\* nothing that the prompt has told of.
LEMMA AppendedFacts ==
  ASSUME NEW file \in Seq(Turns), NEW t \in Turns, DistinctFacts(file),
         \A e \in Entries(file) \ Headed : FactOf[e] # FactOf[t]
  PROVE  DistinctFacts(Append(file, t))
<1> SUFFICES ASSUME NEW i \in DOMAIN Append(file, t), NEW j \in DOMAIN Append(file, t),
                    i < j, FactOf[Append(file, t)[i]] = FactOf[Append(file, t)[j]]
             PROVE  Append(file, t)[i] \in Headed
  BY DEF DistinctFacts
<1>1. /\ DOMAIN Append(file, t) = 1 .. Len(file) + 1 /\ DOMAIN file = 1 .. Len(file)
      /\ Len(file) \in Nat
  OBVIOUS
<1>2. i \in DOMAIN file /\ Append(file, t)[i] = file[i]
  BY <1>1
<1>3. CASE j \in DOMAIN file
  <2>1. Append(file, t)[j] = file[j]
    BY <1>1, <1>3
  <2>2. QED  BY <1>2, <1>3, <2>1 DEF DistinctFacts
<1>4. CASE j \notin DOMAIN file
  <2>1. Append(file, t)[j] = t
    BY <1>1, <1>4
  <2>2. file[i] \in Entries(file)
    BY <1>2 DEF Entries
  <2>3. QED  BY <1>2, <2>1, <2>2
<1>5. QED  BY <1>3, <1>4

\* Each step keeps the invariant of the facts.
LEMMA FactInvStep ==
  ASSUME TypeOK, FactInv, DuplicateHasCause, [Next]_vars
  PROVE  FactInv' /\ DuplicateHasCause'
<1> DEFINE Clean == ~raced /\ ~interrupted /\ ~uninformed /\ ~unlinked
<1> USE DEF TypeOK, At, Pending, Appending, DuplicateHasCause
<1>1. ASSUME NEW t \in Turns, LoadExisting(t) PROVE FactInv' /\ DuplicateHasCause'
  <2>1. /\ turn' = [turn EXCEPT ![t] = "asking"] /\ turn[t] = "spawned"
        /\ UNCHANGED <<daily, base, interrupted, unlinked>>
    BY <1>1 DEF LoadExisting
  <2>2. /\ ~raced' => ~raced /\ At(Pending) = {}
        /\ Clean' => Clean /\ known'[t] = ExistingMemory
    <3>1. ~raced' => ~raced /\ At(Pending) = {}
      BY <1>1 DEF LoadExisting
    <3>2. \/ uninformed' = uninformed /\ known' = [known EXCEPT ![t] = ExistingMemory]
          \/ uninformed'
      BY <1>1 DEF LoadExisting
    <3>3. QED  BY <2>1, <3>1, <3>2
  <2>3. ExistingMemory' = ExistingMemory
    BY <2>1 DEF ExistingMemory
  <2>4. \A u \in Turns : ~raced' /\ turn'[u] \in Pending => u = t
    BY <2>1, <2>2
  <2>5. FactInv'
    BY <2>1, <2>2, <2>3, <2>4 DEF FactInv
  <2>6. QED  BY <2>1, <2>2, <2>5 DEF DistinctFacts
<1>2. ASSUME NEW t \in Turns, NothingNew(t) \/ TimeOut(t)
      PROVE  FactInv' /\ DuplicateHasCause'
  <2>1. /\ turn' = [turn EXCEPT ![t] = "ended"] /\ known' = [known EXCEPT ![t] = {}]
        /\ UNCHANGED <<daily, base, raced, uninformed, interrupted, unlinked>>
    BY <1>2 DEF NothingNew, TimeOut, historyVars
  <2>2. ExistingMemory' = ExistingMemory
    BY <2>1 DEF ExistingMemory
  <2>3. FactInv'
    BY <2>1, <2>2 DEF FactInv
  <2>4. QED  BY <2>1, <2>3 DEF DistinctFacts
<1>3. ASSUME NEW t \in Turns, ReadDaily(t) PROVE FactInv' /\ DuplicateHasCause'
  <2>1. /\ turn' = [turn EXCEPT ![t] = "read"] /\ turn[t] = "asking"
        /\ UNCHANGED <<daily, raced, uninformed, interrupted>>
        /\ \A e \in known[t] : FactOf[e] # FactOf[t]
    BY <1>3 DEF ReadDaily
  <2>2. Clean' => Clean /\ base'[t] = daily
    BY <1>3 DEF ReadDaily
  <2>3. ~raced => \A u \in Turns : turn'[u] \in Pending => u = t
    BY <2>1 DEF FactInv
  <2>4. Clean /\ Len(daily) <= KnownCap => known[t] = Entries(daily) \ Headed
    BY <2>1, ShortFilesAreKnown DEF FactInv
  <2>5. Clean /\ Len(daily) <= KnownCap => DistinctFacts(daily)
    OBVIOUS
  <2>6. Clean' /\ Len(base'[t]) <= KnownCap =>
          /\ DistinctFacts(base'[t])
          /\ \A e \in Entries(base'[t]) \ Headed : FactOf[e] # FactOf[t]
    BY <2>1, <2>2, <2>4, <2>5
  <2>7. FactInv'
    BY <2>1, <2>3, <2>6 DEF FactInv
  <2>8. QED  BY <2>1, <2>2, <2>7 DEF DistinctFacts
<1>4. ASSUME NEW t \in Turns, Truncate(t) PROVE FactInv' /\ DuplicateHasCause'
  <2>1. /\ turn[t] = "read" /\ turn'[t] \in {"truncated", "ended"}
        /\ \A u \in Turns \ {t} : turn'[u] = turn[u] /\ base'[u] = base[u]
        /\ UNCHANGED <<known, raced, uninformed, interrupted, unlinked>>
    BY <1>4 DEF Truncate, historyVars
  <2>2. turn'[t] = "truncated" => base'[t] = base[t] /\ daily' = <<>>
    BY <1>4 DEF Truncate
  <2>3. turn'[t] = "ended" => daily' = daily
    BY <1>4 DEF Truncate
  <2>4. ~raced => \A u \in Turns : turn[u] \in Pending => u = t
    BY <2>1 DEF FactInv
  <2>5. FactInv'
    <3>1. \A u \in Turns : turn'[u] \in Pending => turn[u] \in Pending
      BY <2>1
    <3>2. ~raced => \A u \in Turns : turn'[u] # "asking"
      BY <2>1, <2>4
    <3>3. \A u \in Turns : turn'[u] \in Appending => turn[u] \in Appending /\ base'[u] = base[u]
      BY <2>1, <2>2
    <3>4. QED  BY <2>1, <3>1, <3>2, <3>3 DEF FactInv
  <2>6. daily' = <<>> => DistinctFacts(daily)'
    BY DEF DistinctFacts
  <2>7. daily' = daily => DistinctFacts(daily)' = DistinctFacts(daily)
    BY DEF DistinctFacts
  <2>8. QED  BY <2>1, <2>2, <2>3, <2>5, <2>6, <2>7
<1>5. ASSUME NEW t \in Turns, WriteDaily(t) PROVE FactInv' /\ DuplicateHasCause'
  <2>1. /\ turn[t] = "truncated" /\ turn' = [turn EXCEPT ![t] = "ended"]
        /\ daily' = Append(base[t], t) /\ base' = [base EXCEPT ![t] = <<>>]
        /\ UNCHANGED <<known, raced, uninformed, interrupted, unlinked>>
    BY <1>5 DEF WriteDaily, NewContent
  <2>2. ~raced => \A u \in Turns : turn'[u] \notin Pending
    BY <2>1 DEF FactInv
  <2>3. FactInv'
    BY <2>1, <2>2 DEF FactInv
  <2>5. Len(daily') = Len(base[t]) + 1 /\ Len(base[t]) \in Nat /\ KnownCap \in Nat
    BY <2>1, MemoryAssumption
  <2>6. Clean /\ Len(daily') <= KnownCap =>
          /\ DistinctFacts(base[t])
          /\ \A e \in Entries(base[t]) \ Headed : FactOf[e] # FactOf[t]
    BY <2>1, <2>5 DEF FactInv
  <2>7. Clean /\ Len(daily') <= KnownCap => DistinctFacts(daily')
    BY <2>1, <2>6, AppendedFacts
  <2>8. DuplicateHasCause'
    BY <2>1, <2>7 DEF DistinctFacts
  <2>9. QED  BY <2>3, <2>8
<1>9. ASSUME NEW t \in Turns, WriteFails(t) PROVE FactInv' /\ DuplicateHasCause'
  <2>1. interrupted' /\ raced' = raced
    BY <1>9 DEF WriteFails
  <2>2. turn[t] = "truncated" /\ turn' = [turn EXCEPT ![t] = "ended"]
    BY <1>9 DEF WriteFails
  <2>3. QED  BY <2>1, <2>2 DEF FactInv
<1>6. CASE Crash
  <2>1. /\ daily' = daily /\ UNCHANGED <<raced, uninformed, unlinked>>
        /\ \A u \in Turns : turn'[u] \notin Pending
        /\ ~interrupted' => ~interrupted
    BY <1>6 DEF Crash, Waiting
  <2>2. FactInv'
    BY <2>1 DEF FactInv
  <2>3. QED  BY <2>1, <2>2 DEF DistinctFacts
<1>7. ASSUME FactsUntouched PROVE FactInv' /\ DuplicateHasCause'
  <2>1. ExistingMemory' = ExistingMemory
    BY <1>7 DEF FactsUntouched, ExistingMemory
  <2>2. FactInv'
    BY <1>7, <2>1 DEF FactsUntouched, FactInv
  <2>3. QED  BY <1>7, <2>2 DEF FactsUntouched, DistinctFacts
<1>8. QED
  BY <1>1, <1>2, <1>3, <1>4, <1>5, <1>6, <1>7, <1>9, OtherStepsConsolidateNothing
     DEF AppendStep

\* Each step keeps the whole invariant.
LEMMA Inductive == ASSUME IInv, [Next]_vars PROVE IInv'
BY TypeStep, ConversationStep, AppendInvStep, FactInvStep DEF IInv

\* The inductive invariant of turns, resets, consolidations and daily.md holds
\* in every reachable state.
THEOREM Invariance == Spec => []IInv
<1>1. Init => IInv
  BY InitIInv
<1>2. IInv /\ [Next]_vars => IInv'
  BY Inductive
<1>3. QED  BY <1>1, <1>2, PTL DEF Spec

\* Every variable stays within its type, and the lock belongs to the turn that
\* runs.
THEOREM TypeCorrect == Spec => []TypeOK
<1>1. IInv => TypeOK
  BY DEF IInv
<1>2. QED  BY <1>1, Invariance, PTL

\* An entry of daily.md disappears for the named causes only.
THEOREM EntriesAreKept == Spec => []LossHasCause
<1>1. IInv => LossHasCause
  BY DEF IInv
<1>2. QED  BY <1>1, Invariance, PTL

\* A fact is recorded twice for the named causes only.
THEOREM FactsAreRecordedOnce == Spec => []DuplicateHasCause
<1>1. IInv => DuplicateHasCause
  BY DEF IInv
<1>2. QED  BY <1>1, Invariance, PTL

\* A turn that looked for the reset after its end, and starts, does so with a
\* fresh conversation, or the store was made to know the session in between, or is
\* about to be cleared.
LEMMA StartAfterReset ==
  ASSUME IInv, [Next]_vars, NEW t \in Turns,
         turn[t] = "prepared", turn'[t] = "running", ~fresh', stale
  PROVE  t \in early \/ doubt # {} \/ At({"clearing"}) # {}
<1> USE DEF IInv, TypeOK, contentVars, historyVars, sessionVars
<1>1. StartTurn(t)
  <2>1. \A u \in Turns : Prepare(u) \/ ClearSessionsFails(u) \/ PrepareFails(u)
                          => turn'[t] # "running"
    BY DEF Prepare, LookForReset, ClearSessions, Link, ClearSessionsFails, PrepareFails
  <2>2. \A u \in Turns : StartTurn(u) => u = t
    BY DEF StartTurn
  <2>3. \A u \in Turns : SpawnFails(u) \/ EndTurn(u) \/ FailTurn(u) => turn'[t] # "running"
    BY DEF SpawnFails, EndTurn, FailTurn
  <2>4. \A u \in Turns : LoadExisting(u) \/ NothingNew(u) \/ TimeOut(u) \/ AppendStep(u)
                          => turn'[t] # "running"
    BY DEF LoadExisting, NothingNew, TimeOut, AppendStep, ReadDaily, Truncate, WriteDaily,
       WriteFails
  <2>5. Beat \/ BeginReset \/ ResetStep \/ Crash \/ UNCHANGED vars => turn'[t] # "running"
    BY DEF Beat, BeginReset, ResetStep, Crash, vars
  <2>6. QED  BY <2>1, <2>2, <2>3, <2>4, <2>5 DEF Next, Start
<1>2. session /\ ~fresh
  BY <1>1 DEF StartTurn, ConversationInv
<1>3. QED  BY <1>2 DEF ConversationInv, Continued, At, Waiting

\* No turn continues a conversation from before a reset it has looked for.
THEOREM ResetsAreHonoured == Spec => FreshAfterReset
<1>1. IInv /\ [Next]_vars =>
        [\A t \in Turns :
           turn[t] = "prepared" /\ turn'[t] = "running" /\ ~fresh' /\ stale =>
             t \in early \/ doubt # {} \/ At({"clearing"}) # {}]_vars
  BY StartAfterReset
<1>2. QED  BY <1>1, Invariance, PTL DEF Spec, FreshAfterReset

-----------------------------------------------------------------------------
(* Heartbeat.                                                              *)

\* A set of numbers that is not empty has a least element.
LEMMA LeastNumber ==
  ASSUME NEW T, T \subseteq Nat, T # {}
  PROVE  \E x \in T : \A y \in T : x <= y
<1> DEFINE R == {ss \in Nat \X Nat : ss[1] < ss[2]}
<1>1. IsWellFoundedOn(R, Nat)
  BY NatLessThanWellFounded DEF OpToRel
<1>2. \A x, y \in Nat : <<y, x>> \in R <=> y < x
  OBVIOUS
<1> HIDE DEF R
<1>3. PICK x \in T : \A y \in T : ~(<<y, x>> \in R)
  BY <1>1, WFMin
<1>4. ASSUME NEW y \in T PROVE x <= y
  <2>1. x \in Nat /\ y \in Nat /\ ~(y < x)
    BY <1>2, <1>3
  <2>2. QED  BY <2>1
<1>5. QED  BY <1>4

\* Somebody takes part, and the loop has a shortest interval to sleep for.
LEMMA AgentFacts ==
  /\ Agents # {} /\ None \notin Agents /\ Loop \in Runs
  /\ Every \in [Agents -> Nat \ {0}] /\ Interval \in Nat
<1> USE HeartbeatAssumption
<1>1. Agents # {} /\ None \notin Agents
  BY DEF Agents
<1>2. Every \in [Agents -> Nat \ {0}] /\ Loop \in Runs
  BY DEF Runs
<1>3. CASE Own = {}
  BY <1>1, <1>2, <1>3 DEF Interval
<1>4. CASE Own # {}
  <2> DEFINE T == {Every[a] : a \in Own}
  <2>1. T \subseteq Nat /\ T # {}
    <3>1. Own \subseteq Agents
      BY <1>4 DEF Agents
    <3>2. \A a \in Own : Every[a] \in Nat
      BY <1>2, <3>1
    <3>3. QED  BY <1>4, <3>2
  <2>2. \E x \in T : \A y \in T : x <= y
    <3> HIDE DEF T
    <3>1. QED  BY <2>1, LeastNumber
  <2>3. Interval = CHOOSE x \in T : \A y \in T : x =< y
    BY <1>4 DEF Interval, Min
  <2>4. Interval \in T
    <3> HIDE DEF T
    <3>1. QED  BY <2>2, <2>3
  <2>5. QED  BY <1>1, <1>2, <2>1, <2>4
<1>5. QED  BY <1>3, <1>4

\* The invariant holds when the loop starts.
LEMMA HeartbeatStarts == ASSUME HeartbeatInit PROVE HeartbeatInv
<1> USE HeartbeatAssumption, AgentFacts DEF HeartbeatInit, Idle, NoSession, Unheard
<1>1. HeartbeatTypeOK
  <2>1. /\ enabled \in BOOLEAN /\ changed \in BOOLEAN
        /\ at \in {"top", "off", "sleeping", "cycle"} /\ dueNow \subseteq Agents
    OBVIOUS
  <2>6. sleep \in 0..Interval
    OBVIOUS
  <2>2. /\ due \in [Agents -> Nat] /\ since \in [Agents -> Nat]
        /\ \A a \in Agents : due[a] <= Every[a] /\ since[a] <= Every[a]
    OBVIOUS
  <2>3. job \in [Runs -> [agent : Agents \cup {None},
                         step : {"idle", "running", "decided", "told"},
                         output : Replies \cup {None}, tell : BOOLEAN]]
    OBVIOUS
  <2>4. /\ main \in [Agents -> [open : BOOLEAN, channel : BOOLEAN,
                                last : Replies \cup {None}, age : 0..Window]]
        /\ heard \in [Agents -> [output : Replies \cup {None}, age : 0..(Window - 1)]]
        /\ excused \in [Agents -> BOOLEAN]
    OBVIOUS
  <2>5. QED  BY <2>1, <2>2, <2>3, <2>4, <2>6 DEF HeartbeatTypeOK
<1>2. JobInv /\ DueInv /\ AloneInv
  BY DEF JobInv, DueInv, AloneInv
<1>3. KnownInv /\ DecidedInv
  BY DEF KnownInv, DecidedInv
<1>4. QED  BY <1>1, <1>2, <1>3 DEF HeartbeatInv

\* The loop between two runs, and settings that are saved: no run moves.
LEMMA LoopKeepsInv ==
  ASSUME HeartbeatInv, Change \/ LoopStep \/ UNCHANGED beatVars
  PROVE  HeartbeatInv'
<1> USE HeartbeatAssumption, AgentFacts DEF HeartbeatInv
<1>1. UNCHANGED <<job, main, heard, excused, due, since>>
  BY DEF Change, LoopStep, Top, Wake, Cycle, CycleEnds, beatVars, mainVars
<1>2. dueNow' = dueNow \/ dueNow' = {a \in Agents : due[a] = 0}
  BY DEF Change, LoopStep, Top, Wake, Cycle, CycleEnds, beatVars
<1>3. /\ enabled' \in BOOLEAN /\ changed' \in BOOLEAN /\ sleep' \in 0..Interval
      /\ at' \in {"top", "off", "sleeping", "cycle"}
  <2> USE DEF HeartbeatTypeOK
  <2>1. CASE Change
    BY <2>1 DEF Change
  <2>2. CASE Top
    <3>1. enabled' \in BOOLEAN /\ changed' \in BOOLEAN
      BY <2>2 DEF Top
    <3>2. sleep' \in 0..Interval /\ at' \in {"top", "off", "sleeping", "cycle"}
      BY <2>2 DEF Top
    <3>3. QED  BY <3>1, <3>2
  <2>3. CASE Wake \/ Cycle \/ CycleEnds \/ UNCHANGED beatVars
    BY <2>3 DEF Wake, Cycle, CycleEnds, beatVars
  <2>4. QED  BY <2>1, <2>2, <2>3 DEF LoopStep
<1>4. HeartbeatTypeOK'
  BY <1>1, <1>2, <1>3 DEF HeartbeatTypeOK
<1>5. JobInv' /\ AloneInv' /\ KnownInv' /\ DecidedInv'
  BY <1>1 DEF JobInv, AloneInv, KnownInv, Telling, DecidedInv
<1>6. DueInv'
  BY <1>1, <1>2 DEF DueInv, HeartbeatTypeOK
<1>7. QED  BY <1>4, <1>5, <1>6

\* However a run of an agent ended, its next one is planned.
LEMMA AdvancePlans ==
  ASSUME HeartbeatInv, NEW p \in Runs, NEW a \in Agents, NEW answer,
         Advance(p, a, answer)
  PROVE  /\ DueInv'
         /\ dueNow' \subseteq Agents
         /\ due' \in [Agents -> Nat] /\ since' \in [Agents -> Nat]
         /\ \A b \in Agents : due'[b] <= Every[b] /\ since'[b] <= Every[b]
<1> USE HeartbeatAssumption, AgentFacts DEF HeartbeatInv, HeartbeatTypeOK, DueInv
<1>1. CASE p = Loop
  <2>1. /\ due' = [due EXCEPT ![a] = Every[a]]
        /\ since' = [since EXCEPT ![a] = 0]
        /\ dueNow' = dueNow \ {a}
    BY <1>1 DEF Advance
  <2>2. QED  BY <2>1
<1>2. CASE p # Loop
  BY <1>2 DEF Advance
<1>3. QED  BY <1>1, <1>2

\* A run starts: if another one of the agent is under way, that is the excuse.
LEMMA BeginKeepsInv ==
  ASSUME HeartbeatInv, NEW p \in Runs, NEW a \in Agents, Begin(p, a)
  PROVE  HeartbeatInv'
<1> USE HeartbeatAssumption, AgentFacts DEF HeartbeatInv
<1>1. /\ job[p] = Idle
      /\ job' = [job EXCEPT ![p] = [Idle EXCEPT !.agent = a, !.step = "running"]]
      /\ job' \in [Runs -> [agent : Agents \cup {None},
                            step : {"idle", "running", "decided", "told"},
                            output : Replies \cup {None}, tell : BOOLEAN]]
  BY DEF Begin, HeartbeatTypeOK, Idle
<1>2. /\ job'[p].agent = a /\ job'[p].step = "running" /\ ~job'[p].tell
      /\ \A q \in Runs : q # p => job'[q] = job[q]
  BY <1>1 DEF HeartbeatTypeOK, Idle
<1>3. /\ UNCHANGED <<enabled, changed, at, sleep, dueNow, due, heard, since>>
      /\ excused' = [excused EXCEPT ![a] = @ \/ \E q \in Runs : job[q].agent = a]
      /\ main' \in [Agents -> [open : BOOLEAN, channel : BOOLEAN,
                               last : Replies \cup {None}, age : 0..Window]]
      /\ \A b \in Agents : /\ main'[b].last = main[b].last
                           /\ main'[b].age = main[b].age
                           /\ main[b].open => main'[b].open
  <2>1. CASE a \in Isolated
    BY <2>1 DEF Begin, HeartbeatTypeOK, loopVars
  <2>2. CASE a \notin Isolated
    <3>1. main' = [main EXCEPT ![a].open = TRUE]
      BY <2>2 DEF Begin
    <3>2. /\ main' \in [Agents -> [open : BOOLEAN, channel : BOOLEAN,
                                   last : Replies \cup {None}, age : 0..Window]]
          /\ \A b \in Agents : b # a => main'[b] = main[b]
          /\ main'[a].last = main[a].last /\ main'[a].age = main[a].age
          /\ main'[a].open
      <4>1. main[a] \in [open : BOOLEAN, channel : BOOLEAN,
                         last : Replies \cup {None}, age : 0..Window]
        BY DEF HeartbeatTypeOK
      <4>2. [main[a] EXCEPT !.open = TRUE] \in
              [open : BOOLEAN, channel : BOOLEAN, last : Replies \cup {None}, age : 0..Window]
        BY <4>1
      <4>3. main' = [main EXCEPT ![a] = [main[a] EXCEPT !.open = TRUE]]
        BY <3>1
      <4>4. main \in [Agents -> [open : BOOLEAN, channel : BOOLEAN,
                                last : Replies \cup {None}, age : 0..Window]]
        BY DEF HeartbeatTypeOK
      <4>5. QED  BY <4>1, <4>2, <4>3, <4>4
    <3>3. QED  BY <3>2 DEF Begin, loopVars
  <2>3. QED  BY <2>1, <2>2
<1>4. excused' \in [Agents -> BOOLEAN]
  BY <1>3 DEF HeartbeatTypeOK
<1>5. HeartbeatTypeOK'
  BY <1>1, <1>3, <1>4 DEF HeartbeatTypeOK
<1>6. JobInv' /\ DueInv'
  BY <1>2, <1>3 DEF JobInv, DueInv
<1>7. \A b \in Agents : ~excused'[b] =>
        ~excused[b] /\ (b = a => \A q \in Runs : job[q].agent # a)
  BY <1>3 DEF HeartbeatTypeOK
<1>8. AloneInv'
  BY <1>2, <1>7 DEF AloneInv
<1>9. KnownInv'
  <2>1. \A b \in Agents : ~Telling(b)' => ~Telling(b)
    BY <1>1, <1>2 DEF Telling, Idle
  <2>2. QED  BY <1>3, <1>7, <2>1 DEF KnownInv
<1>10. DecidedInv'
  <2>1. \A q \in Runs : job'[q].step = "decided" => q # p /\ job'[q] = job[q]
    BY <1>2
  <2>2. \A q \in Runs : job[q].step = "decided" => job[q].agent \in Agents
    BY DEF JobInv, Idle
  <2>3. QED  BY <1>3, <1>7, <2>1, <2>2 DEF DecidedInv
<1>11. QED  BY <1>5, <1>6, <1>8, <1>9, <1>10

\* A skipped beat leaves the invariant alone.
LEMMA SkipKeepsInv ==
  ASSUME HeartbeatInv, NEW a \in Agents, Skip(a)
  PROVE  HeartbeatInv'
<1> USE HeartbeatAssumption, AgentFacts DEF HeartbeatInv
<1>1. UNCHANGED <<enabled, changed, at, sleep, job, main, heard, excused>>
  BY DEF Skip, mainVars
<1>2. /\ DueInv' /\ dueNow' \subseteq Agents
      /\ due' \in [Agents -> Nat] /\ since' \in [Agents -> Nat]
      /\ \A b \in Agents : due'[b] <= Every[b] /\ since'[b] <= Every[b]
  BY AdvancePlans DEF Skip
<1>3. HeartbeatTypeOK'
  BY <1>1, <1>2 DEF HeartbeatTypeOK
<1>4. JobInv' /\ AloneInv' /\ KnownInv' /\ DecidedInv'
  BY <1>1 DEF JobInv, AloneInv, KnownInv, Telling, DecidedInv
<1>5. QED  BY <1>2, <1>3, <1>4

\* A run that is under way is of an agent.
LEMMA UnderWay ==
  ASSUME HeartbeatInv, NEW p \in Runs, job[p].step # "idle"
  PROVE  job[p].agent \in Agents /\ job[p].agent # None
  BY AgentFacts DEF HeartbeatInv, JobInv, Idle

\* The output is compared with the main session, and the main session of an
\* agent without an excuse knows what was heard last.
LEMMA DecideKeepsInv ==
  ASSUME HeartbeatInv, NEW p \in Runs, Decide(p)
  PROVE  HeartbeatInv'
<1> USE HeartbeatAssumption, AgentFacts DEF HeartbeatInv
<1> DEFINE a == job[p].agent
<1>1. a \in Agents /\ job[p].step = "running"
  BY UnderWay DEF Decide
<1>2. PICK output \in Answers[a] \ {Error} :
        job' = [job EXCEPT
          ![p].step = "decided", ![p].output = output,
          ![p].tell = /\ Normalized(output) \in Texts
                      /\ ~IsDuplicate(a, output) /\ HasTarget(a)]
  BY DEF Decide
<1>3. output \in Replies
  BY <1>1
<1>4. /\ job'[p].agent = a /\ job'[p].step = "decided" /\ job'[p].output = output
      /\ job'[p].tell => ~IsDuplicate(a, output)
      /\ \A q \in Runs : q # p => job'[q] = job[q]
      /\ job' \in [Runs -> [agent : Agents \cup {None},
                            step : {"idle", "running", "decided", "told"},
                            output : Replies \cup {None}, tell : BOOLEAN]]
  <2> DEFINE tell == Normalized(output) \in Texts /\ ~IsDuplicate(a, output) /\ HasTarget(a)
  <2>1. tell \in BOOLEAN /\ (tell => ~IsDuplicate(a, output))
    OBVIOUS
  <2>2. job' = [job EXCEPT ![p].step = "decided", ![p].output = output,
                           ![p].tell = tell]
    BY <1>2
  <2> HIDE DEF tell
  <2>3. /\ job'[p].agent = a /\ job'[p].step = "decided" /\ job'[p].output = output
        /\ job'[p].tell = tell
        /\ \A q \in Runs : q # p => job'[q] = job[q]
    BY <2>2 DEF HeartbeatTypeOK
  <2>4. job' \in [Runs -> [agent : Agents \cup {None},
                          step : {"idle", "running", "decided", "told"},
                          output : Replies \cup {None}, tell : BOOLEAN]]
    <3>1. job[p] \in [agent : Agents \cup {None},
                      step : {"idle", "running", "decided", "told"},
                      output : Replies \cup {None}, tell : BOOLEAN]
      BY DEF HeartbeatTypeOK
    <3>2. job' = [job EXCEPT ![p] = [job[p] EXCEPT !.step = "decided", !.output = output,
                                                   !.tell = tell]]
      BY <2>2
    <3>3. [job[p] EXCEPT !.step = "decided", !.output = output, !.tell = tell]
            \in [agent : Agents \cup {None},
                 step : {"idle", "running", "decided", "told"},
                 output : Replies \cup {None}, tell : BOOLEAN]
      BY <1>3, <2>1, <3>1
    <3>4. QED  BY <3>2, <3>3 DEF HeartbeatTypeOK
  <2>5. QED  BY <2>1, <2>3, <2>4
<1>5. UNCHANGED <<enabled, changed, at, sleep, dueNow, due, main, heard, excused, since>>
  BY DEF Decide, loopVars, mainVars
<1>6. HeartbeatTypeOK'
  BY <1>4, <1>5 DEF HeartbeatTypeOK
<1>7. JobInv' /\ DueInv'
  BY <1>1, <1>4, <1>5 DEF JobInv, DueInv
<1>8. AloneInv'
  BY <1>4, <1>5 DEF AloneInv
<1>9. KnownInv'
  <2>1. \A b \in Agents : Telling(b)' <=> Telling(b)
    BY <1>1, <1>4 DEF Telling
  <2>2. QED  BY <1>5, <2>1 DEF KnownInv
<1>10. DecidedInv'
  <2>1. SUFFICES ASSUME job'[p].tell, ~excused[a], heard[a].output = output
                 PROVE  FALSE
    <3>1. \A q \in Runs : q # p =>
            (job'[q].step = "decided" /\ job'[q].tell =>
               excused[job'[q].agent] \/ heard[job'[q].agent].output # job'[q].output)
      BY <1>4 DEF DecidedInv
    <3>2. job'[p].tell => excused[a] \/ heard[a].output # output
      OBVIOUS
    <3>3. QED  BY <1>4, <1>5, <3>1, <3>2 DEF DecidedInv
  <2>2. ~Telling(a)
    BY <1>1, <2>1 DEF AloneInv, Telling
  <2>3. output # None /\ ~IsDuplicate(a, output)
    BY <1>3, <1>4, <2>1
  <2>4. main[a].open /\ main[a].last = output /\ main[a].age <= heard[a].age
    BY <1>1, <2>1, <2>2, <2>3 DEF KnownInv
  <2>5. main[a].age \in 0..Window /\ heard[a].age \in 0..(Window - 1)
    BY <1>1 DEF HeartbeatTypeOK
  <2>6. main[a].age < Window
    BY <2>4, <2>5
  <2>7. QED  BY <2>3, <2>4, <2>6 DEF IsDuplicate
<1>11. QED  BY <1>6, <1>7, <1>8, <1>9, <1>10

\* A run that failed told nothing.
LEMMA RunFailsKeepsInv ==
  ASSUME HeartbeatInv, NEW p \in Runs, RunFails(p)
  PROVE  HeartbeatInv'
<1> USE HeartbeatAssumption, AgentFacts DEF HeartbeatInv
<1> DEFINE a == job[p].agent
<1>1. a \in Agents /\ job[p].step = "running"
  BY UnderWay DEF RunFails
<1>2. /\ job'[p] = Idle
      /\ \A q \in Runs : q # p => job'[q] = job[q]
      /\ job' \in [Runs -> [agent : Agents \cup {None},
                            step : {"idle", "running", "decided", "told"},
                            output : Replies \cup {None}, tell : BOOLEAN]]
  BY DEF RunFails, HeartbeatTypeOK, Idle
<1>3. UNCHANGED <<enabled, changed, at, sleep, main, heard, excused>>
  BY DEF RunFails, mainVars
<1>4. /\ DueInv' /\ dueNow' \subseteq Agents
      /\ due' \in [Agents -> Nat] /\ since' \in [Agents -> Nat]
      /\ \A b \in Agents : due'[b] <= Every[b] /\ since'[b] <= Every[b]
  BY <1>1, AdvancePlans DEF RunFails
<1>5. HeartbeatTypeOK'
  BY <1>2, <1>3, <1>4 DEF HeartbeatTypeOK
<1>6. JobInv' /\ AloneInv' /\ DecidedInv'
  <2>1. JobInv'
    BY <1>2 DEF JobInv
  <2>2. AloneInv'
    BY <1>2, <1>3 DEF AloneInv, Idle
  <2>3. \A q \in Runs : job'[q].step = "decided" => job'[q] = job[q]
    BY <1>2 DEF Idle
  <2>4. DecidedInv'
    BY <1>3, <2>3 DEF DecidedInv
  <2>5. QED  BY <2>1, <2>2, <2>4
<1>7. KnownInv'
  <2>1. \A b \in Agents : Telling(b)' <=> Telling(b)
    BY <1>1, <1>2 DEF Telling, Idle
  <2>2. QED  BY <1>3, <2>1 DEF KnownInv
<1>8. QED  BY <1>4, <1>5, <1>6, <1>7

\* A delivered output keeps the invariant, and so does one that got nowhere.
LEMMA TellKeepsInv ==
  ASSUME HeartbeatInv, NEW p \in Runs, Tell(p) \/ DeliveryFails(p)
  PROVE  HeartbeatInv'
<1> USE HeartbeatAssumption, AgentFacts DEF HeartbeatInv
<1> DEFINE a == job[p].agent
<1>1. a \in Agents /\ job[p].step = "decided"
  BY UnderWay DEF Tell, DeliveryFails
<1>2. /\ job'[p].agent = a /\ job'[p].step = "told"
      /\ job'[p].tell = job[p].tell /\ job'[p].output = job[p].output
      /\ \A q \in Runs : q # p => job'[q] = job[q]
      /\ job' \in [Runs -> [agent : Agents \cup {None},
                            step : {"idle", "running", "decided", "told"},
                            output : Replies \cup {None}, tell : BOOLEAN]]
  <2>1. job' = [job EXCEPT ![p] = [job[p] EXCEPT !.step = "told"]]
    BY DEF Tell, DeliveryFails
  <2>2. job[p] \in [agent : Agents \cup {None},
                    step : {"idle", "running", "decided", "told"},
                    output : Replies \cup {None}, tell : BOOLEAN]
    BY DEF HeartbeatTypeOK
  <2>3. QED  BY <2>1, <2>2 DEF HeartbeatTypeOK
<1>3. /\ UNCHANGED <<enabled, changed, at, sleep, dueNow, due, main, excused, since>>
      /\ \A b \in Agents : b # a => heard'[b] = heard[b]
  BY <1>1 DEF Tell, DeliveryFails, HeartbeatTypeOK, loopVars, mainVars
<1>4. heard' \in [Agents -> [output : Replies \cup {None}, age : 0..(Window - 1)]]
  <2> DEFINE r == [output |-> job[p].output, age |-> 0]
  <2>1. r \in [output : Replies \cup {None}, age : 0..(Window - 1)]
    BY DEF HeartbeatTypeOK
  <2>2. heard' = heard \/ heard' = [heard EXCEPT ![a] = r]
    BY DEF Tell, DeliveryFails, mainVars
  <2> HIDE DEF r
  <2>3. QED  BY <1>1, <2>1, <2>2 DEF HeartbeatTypeOK
<1>5. HeartbeatTypeOK'
  BY <1>2, <1>3, <1>4 DEF HeartbeatTypeOK
<1>6. JobInv' /\ DueInv' /\ AloneInv'
  <2>1. JobInv'
    BY <1>1, <1>2 DEF JobInv
  <2>2. DueInv'
    BY <1>3 DEF DueInv
  <2>3. AloneInv'
    BY <1>2, <1>3 DEF AloneInv
  <2>4. QED  BY <2>1, <2>2, <2>3
<1>7. KnownInv'
  <2>1. \A b \in Agents : b # a => (Telling(b)' <=> Telling(b))
    BY <1>1, <1>2 DEF Telling
  <2>2. \A b \in Agents : b = a => Telling(b)'
    BY <1>2 DEF Telling
  <2>3. ASSUME NEW b \in Agents, ~excused'[b], heard'[b].output # None, ~Telling(b)'
        PROVE  /\ main'[b].open /\ main'[b].last = heard'[b].output
               /\ main'[b].age <= heard'[b].age
    <3>1. b # a /\ heard'[b] = heard[b] /\ ~Telling(b)
      BY <1>3, <2>1, <2>2, <2>3
    <3>2. QED  BY <1>3, <2>3, <3>1 DEF KnownInv
  <2>4. QED  BY <2>3 DEF KnownInv
<1>8. DecidedInv'
  <2>1. SUFFICES ASSUME NEW q \in Runs, job'[q].step = "decided", job'[q].tell,
                        ~excused[job'[q].agent]
                 PROVE  heard'[job'[q].agent] = heard[job'[q].agent] /\ job'[q] = job[q]
    BY <1>3 DEF DecidedInv
  <2>2. q # p /\ job'[q] = job[q]
    BY <1>2, <2>1
  <2>3. job[q].agent \in Agents
    BY <2>1, <2>2, UnderWay
  <2>4. job[q].agent # a
    BY <1>1, <2>1, <2>2 DEF AloneInv
  <2>5. QED  BY <1>3, <2>2, <2>3, <2>4
<1>9. QED  BY <1>5, <1>6, <1>7, <1>8

\* What an output leaves in the session record.
LEMMA RefreshedSession ==
  ASSUME NEW output \in Replies \cup {None},
         NEW s \in [open : BOOLEAN, channel : BOOLEAN,
                   last : Replies \cup {None}, age : 0..Window]
  PROVE  LET r == [s EXCEPT !.last = output, !.age = 0] IN
         /\ r \in [open : BOOLEAN, channel : BOOLEAN,
                   last : Replies \cup {None}, age : 0..Window]
         /\ r.open = s.open /\ r.last = output /\ r.age = 0
<1>1. 0 \in 0..Window
  BY HeartbeatAssumption
<1>2. QED  BY <1>1

\* The main session learns what was said; a run that was not alone, found no
\* main session or could not be recorded leaves the excuse.
LEMMA UpdateKeepsInv ==
  ASSUME HeartbeatInv, NEW p \in Runs, Update(p) \/ UpdateFails(p)
  PROVE  HeartbeatInv'
<1> USE HeartbeatAssumption, AgentFacts DEF HeartbeatInv
<1> DEFINE a == job[p].agent
           output == job[p].output
<1>1. a \in Agents /\ job[p].step = "told"
  BY UnderWay DEF Update, UpdateFails, Conclude
<1>2. /\ job'[p] = Idle
      /\ \A q \in Runs : q # p => job'[q] = job[q]
      /\ job' \in [Runs -> [agent : Agents \cup {None},
                            step : {"idle", "running", "decided", "told"},
                            output : Replies \cup {None}, tell : BOOLEAN]]
  <2>1. job' = [job EXCEPT ![p] = Idle]
    BY DEF Update, UpdateFails, Conclude
  <2>2. QED  BY <2>1 DEF HeartbeatTypeOK, Idle
<1>3. /\ UNCHANGED <<enabled, changed, at, sleep>>
      /\ Advance(p, a, output)
  BY DEF Update, UpdateFails, Conclude
<1>4. /\ DueInv' /\ dueNow' \subseteq Agents
      /\ due' \in [Agents -> Nat] /\ since' \in [Agents -> Nat]
      /\ \A b \in Agents : due'[b] <= Every[b] /\ since'[b] <= Every[b]
  BY <1>1, <1>3, AdvancePlans
<1>5. /\ main' \in [Agents -> [open : BOOLEAN, channel : BOOLEAN,
                               last : Replies \cup {None}, age : 0..Window]]
      /\ \A b \in Agents : b # a => main'[b] = main[b]
      /\ Update(p) /\ main[a].open =>
           main'[a].open /\ main'[a].last = output /\ main'[a].age = 0
  <2>1. main[a] \in [open : BOOLEAN, channel : BOOLEAN,
                     last : Replies \cup {None}, age : 0..Window]
    BY <1>1 DEF HeartbeatTypeOK
  <2>2. CASE UNCHANGED main /\ ~(Update(p) /\ main[a].open)
    BY <2>2 DEF HeartbeatTypeOK
  <2>3. CASE Update(p) /\ main[a].open
    <3> DEFINE r == [main[a] EXCEPT !.last = output, !.age = 0]
    <3>1. main' = [main EXCEPT ![a] = r]
      BY <2>3 DEF Update
    <3>2. output \in Replies \cup {None}
      BY DEF HeartbeatTypeOK
    <3>3. /\ r \in [open : BOOLEAN, channel : BOOLEAN,
                    last : Replies \cup {None}, age : 0..Window]
          /\ r.open = main[a].open /\ r.last = output /\ r.age = 0
      BY <2>1, <3>2, RefreshedSession
    <3> HIDE DEF r, output
    <3>4. QED  BY <1>1, <2>3, <3>1, <3>3 DEF HeartbeatTypeOK
  <2>4. QED  BY <2>2, <2>3 DEF Update, UpdateFails
<1>6. /\ heard' \in [Agents -> [output : Replies \cup {None}, age : 0..(Window - 1)]]
      /\ \A b \in Agents : b # a => heard'[b] = heard[b]
      /\ heard'[a].output # None => heard'[a].output = output
  <2> DEFINE r == IF Alike(heard[a].output, output)
                  THEN [heard[a] EXCEPT !.output = output] ELSE Unheard
  <2>1. heard' = [heard EXCEPT ![a] = r]
    BY DEF Update, UpdateFails, Conclude
  <2>2. /\ r \in [output : Replies \cup {None}, age : 0..(Window - 1)]
        /\ r.output # None => r.output = output
    <3>1. output \in Replies \cup {None}
      BY DEF HeartbeatTypeOK
    <3>2. heard[a] \in [output : Replies \cup {None}, age : 0..(Window - 1)]
      BY <1>1 DEF HeartbeatTypeOK
    <3>3. /\ Unheard \in [output : Replies \cup {None}, age : 0..(Window - 1)]
          /\ Unheard.output = None
      BY DEF Unheard
    <3> HIDE DEF output
    <3>4. QED  BY <3>1, <3>2, <3>3
  <2> HIDE DEF r, output
  <2>3. QED  BY <1>1, <2>1, <2>2 DEF HeartbeatTypeOK
<1>7. /\ excused' \in [Agents -> BOOLEAN]
      /\ \A b \in Agents : b # a => excused'[b] = excused[b]
      /\ ~excused'[a] => Update(p) /\ main[a].open /\ Alone(p)
  <2>1. CASE Update(p)
    BY <1>1, <2>1 DEF Update, HeartbeatTypeOK
  <2>2. CASE UpdateFails(p)
    BY <1>1, <2>2 DEF UpdateFails, HeartbeatTypeOK
  <2>3. QED  BY <2>1, <2>2
<1>8. HeartbeatTypeOK'
  BY <1>2, <1>3, <1>4, <1>5, <1>6, <1>7 DEF HeartbeatTypeOK
<1>9. JobInv'
  BY <1>2 DEF JobInv, Idle
<1>10. ~excused'[a] => \A q \in Runs : job'[q].agent # a
  BY <1>1, <1>2, <1>7 DEF Alone, Idle
<1>11. AloneInv'
  <2>1. SUFFICES ASSUME NEW b \in Agents, NEW q \in Runs, NEW r \in Runs, ~excused'[b],
                        job'[q].agent = b, job'[r].agent = b
                 PROVE  q = r
    BY DEF AloneInv
  <2>2. b # a /\ job'[q] = job[q] /\ job'[r] = job[r]
    BY <1>2, <1>10, <2>1 DEF Idle
  <2>3. QED  BY <1>7, <2>1, <2>2 DEF AloneInv
<1>12. KnownInv'
  <2>1. SUFFICES ASSUME NEW b \in Agents, ~excused'[b], heard'[b].output # None, ~Telling(b)'
                 PROVE  /\ main'[b].open /\ main'[b].last = heard'[b].output
                        /\ main'[b].age <= heard'[b].age
    BY DEF KnownInv
  <2>2. CASE b = a
    <3>1. /\ main'[a].open /\ main'[a].last = output /\ main'[a].age = 0
          /\ heard'[a].output = output
      BY <1>5, <1>6, <1>7, <2>1, <2>2
    <3>2. heard'[a].age \in Nat
      BY <1>1, <1>6
    <3>3. QED  BY <2>2, <3>1, <3>2
  <2>3. CASE b # a
    <3>1. Telling(b)' <=> Telling(b)
      BY <1>2, <2>3 DEF Telling, Idle
    <3>2. QED  BY <1>5, <1>6, <1>7, <2>1, <2>3, <3>1 DEF KnownInv
  <2>4. QED  BY <2>2, <2>3
<1>13. DecidedInv'
  <2>1. SUFFICES ASSUME NEW q \in Runs, job'[q].step = "decided", job'[q].tell,
                        ~excused'[job'[q].agent]
                 PROVE  /\ job'[q] = job[q] /\ heard'[job[q].agent] = heard[job[q].agent]
                        /\ ~excused[job[q].agent]
    BY DEF DecidedInv
  <2>2. q # p /\ job'[q] = job[q]
    BY <1>2, <2>1 DEF Idle
  <2>3. job[q].agent \in Agents /\ job[q].agent # a
    BY <1>10, <2>1, <2>2, UnderWay
  <2>4. QED  BY <1>6, <1>7, <2>1, <2>2, <2>3
<1>14. QED  BY <1>4, <1>8, <1>9, <1>11, <1>12, <1>13

\* A person's message opens the session, a reset drops it and is the excuse.
LEMMA SessionKeepsInv ==
  ASSUME HeartbeatInv, NEW a \in Agents, Message(a) \/ Reset(a)
  PROVE  HeartbeatInv'
<1> USE HeartbeatAssumption, AgentFacts DEF HeartbeatInv
<1>1. UNCHANGED <<enabled, changed, at, sleep, dueNow, due, job, heard, since>>
  BY DEF Message, Reset, loopVars
<1>2. /\ excused' \in [Agents -> BOOLEAN]
      /\ \A b \in Agents : ~excused'[b] => ~excused[b]
      /\ Reset(a) => excused'[a]
  <2>1. CASE Message(a) /\ ~Reset(a)
    BY <2>1 DEF Message, HeartbeatTypeOK
  <2>2. CASE Reset(a)
    BY <2>2 DEF Reset, HeartbeatTypeOK
  <2>3. QED  BY <2>1, <2>2
<1>3. /\ main' \in [Agents -> [open : BOOLEAN, channel : BOOLEAN,
                               last : Replies \cup {None}, age : 0..Window]]
      /\ \A b \in Agents : b # a => main'[b] = main[b]
      /\ Message(a) => /\ main'[a].open
                       /\ main'[a].last = main[a].last /\ main'[a].age = main[a].age
  <2>1. CASE Message(a)
    <3> DEFINE r == [main[a] EXCEPT !.open = TRUE, !.channel = TRUE]
    <3>1. main' = [main EXCEPT ![a] = r]
      BY <2>1 DEF Message
    <3>2. /\ r \in [open : BOOLEAN, channel : BOOLEAN,
                    last : Replies \cup {None}, age : 0..Window]
          /\ r.open /\ r.last = main[a].last /\ r.age = main[a].age
      <4>1. main[a] \in [open : BOOLEAN, channel : BOOLEAN,
                         last : Replies \cup {None}, age : 0..Window]
        BY DEF HeartbeatTypeOK
      <4>2. QED  BY <4>1
    <3> HIDE DEF r
    <3>3. QED  BY <3>1, <3>2 DEF HeartbeatTypeOK
  <2>2. CASE Reset(a) /\ ~Message(a)
    <3>1. NoSession \in [open : BOOLEAN, channel : BOOLEAN,
                         last : Replies \cup {None}, age : 0..Window]
      BY DEF NoSession
    <3>2. QED  BY <2>2, <3>1 DEF Reset, HeartbeatTypeOK
  <2>3. QED  BY <2>1, <2>2
<1>4. HeartbeatTypeOK'
  BY <1>1, <1>2, <1>3 DEF HeartbeatTypeOK
<1>5. JobInv' /\ DueInv'
  BY <1>1 DEF JobInv, DueInv
<1>6. AloneInv'
  BY <1>1, <1>2 DEF AloneInv
<1>7. KnownInv'
  <2>1. ASSUME NEW b \in Agents, ~excused'[b], heard'[b].output # None, ~Telling(b)'
        PROVE  /\ main'[b].open /\ main'[b].last = heard'[b].output
               /\ main'[b].age <= heard'[b].age
    <3>1. ~excused[b] /\ heard'[b] = heard[b] /\ ~Telling(b) /\ (b = a => Message(a))
      BY <1>1, <1>2, <2>1 DEF Telling
    <3>2. QED  BY <1>3, <2>1, <3>1 DEF KnownInv
  <2>2. QED  BY <2>1 DEF KnownInv
<1>8. DecidedInv'
  <2>1. \A q \in Runs : job[q].step = "decided" => job[q].agent \in Agents
    BY UnderWay
  <2>2. QED  BY <1>1, <1>2, <2>1 DEF DecidedInv
<1>9. QED  BY <1>4, <1>5, <1>6, <1>7, <1>8

\* Time does not make the record of an alert older than what was heard.
LEMMA OlderGrows ==
  ASSUME NEW m \in 0..Window, NEW n \in 0..(Window - 1), m <= n
  PROVE  /\ m <= n + 1 /\ Older(m) <= n + 1
  BY HeartbeatAssumption DEF Older

\* Time passes only while nobody is between its answer and the record of it.
LEMMA TickKeepsInv ==
  ASSUME HeartbeatInv, Tick
  PROVE  HeartbeatInv'
<1> USE AgentFacts DEF HeartbeatInv
<1>1. UNCHANGED <<enabled, changed, at, dueNow, job, excused>>
  BY DEF Tick
<1>2. \A p \in Runs : job[p].step \in {"idle", "running"}
  BY DEF Tick
<1>3. sleep' \in 0..Interval
  BY DEF Tick, Sooner, HeartbeatTypeOK
<1>4. /\ due' \in [Agents -> Nat] /\ since' \in [Agents -> Nat]
      /\ \A b \in Agents : due'[b] <= Every[b] /\ since'[b] <= Every[b]
      /\ \A b \in Agents : due'[b] + since'[b] = Every[b]
      /\ \A b \in Agents : due[b] = 0 => due'[b] = 0
  BY DEF Tick, Sooner, HeartbeatTypeOK, DueInv
<1>5. ASSUME NEW b \in Agents
      PROVE  /\ main'[b] \in [open : BOOLEAN, channel : BOOLEAN,
                              last : Replies \cup {None}, age : 0..Window]
             /\ main'[b].open = main[b].open /\ main'[b].last = main[b].last
             /\ main'[b].age \in {main[b].age, Older(main[b].age)}
  <2>1. main[b] \in [open : BOOLEAN, channel : BOOLEAN,
                     last : Replies \cup {None}, age : 0..Window]
    BY DEF HeartbeatTypeOK
  <2>2. Older(main[b].age) \in 0..Window
    BY <2>1, HeartbeatAssumption DEF Older
  <2>3. main'[b] = IF Compared(b) THEN [main[b] EXCEPT !.age = Older(main[b].age)]
                   ELSE main[b]
    BY DEF Tick
  <2>4. QED  BY <2>1, <2>2, <2>3
<1>6. ASSUME NEW b \in Agents
      PROVE  /\ heard'[b] \in [output : Replies \cup {None}, age : 0..(Window - 1)]
             /\ heard'[b].output # None =>
                  /\ heard'[b].output = heard[b].output
                  /\ heard'[b].age = heard[b].age + 1
  <2>1. heard[b] \in [output : Replies \cup {None}, age : 0..(Window - 1)]
    BY DEF HeartbeatTypeOK
  <2>2. /\ Unheard \in [output : Replies \cup {None}, age : 0..(Window - 1)]
        /\ Unheard.output = None
    BY HeartbeatAssumption DEF Unheard
  <2>3. heard'[b] = IF heard[b].output = None \/ heard[b].age + 1 = Window THEN Unheard
                    ELSE [heard[b] EXCEPT !.age = heard[b].age + 1]
    BY DEF Tick
  <2>4. heard[b].age + 1 # Window => heard[b].age + 1 \in 0..(Window - 1)
    BY <2>1, HeartbeatAssumption
  <2>5. QED  BY <2>1, <2>2, <2>3, <2>4
<1>7. HeartbeatTypeOK'
  <2>1. main' \in [Agents -> [open : BOOLEAN, channel : BOOLEAN,
                              last : Replies \cup {None}, age : 0..Window]]
    BY <1>5 DEF Tick
  <2>2. heard' \in [Agents -> [output : Replies \cup {None}, age : 0..(Window - 1)]]
    BY <1>6 DEF Tick
  <2>3. QED  BY <1>1, <1>3, <1>4, <2>1, <2>2 DEF HeartbeatTypeOK
<1>8. JobInv' /\ DueInv' /\ AloneInv'
  BY <1>1, <1>4 DEF JobInv, DueInv, AloneInv
<1>9. DecidedInv'
  BY <1>1, <1>2 DEF DecidedInv
<1>10. KnownInv'
  <2>1. ASSUME NEW b \in Agents, ~excused'[b], heard'[b].output # None, ~Telling(b)'
        PROVE  /\ main'[b].open /\ main'[b].last = heard'[b].output
               /\ main'[b].age <= heard'[b].age
    <3>1. /\ ~excused[b] /\ heard[b].output # None /\ ~Telling(b)
          /\ heard'[b].output = heard[b].output /\ heard'[b].age = heard[b].age + 1
      BY <1>1, <1>6, <2>1 DEF Telling
    <3>2. main[b].open /\ main[b].last = heard[b].output /\ main[b].age <= heard[b].age
      BY <3>1 DEF KnownInv
    <3>3. main[b].age \in 0..Window /\ heard[b].age \in 0..(Window - 1)
      BY DEF HeartbeatTypeOK
    <3>4. main'[b].age <= heard[b].age + 1
      BY <1>5, <3>2, <3>3, OlderGrows
    <3>5. QED  BY <1>5, <3>1, <3>2, <3>4
  <2>2. QED  BY <2>1 DEF KnownInv
<1>11. QED  BY <1>7, <1>8, <1>9, <1>10

\* Every step keeps the invariant.
LEMMA HeartbeatStep == ASSUME HeartbeatInv, [HeartbeatNext]_beatVars PROVE HeartbeatInv'
<1>1. CASE Change \/ LoopStep \/ UNCHANGED beatVars
  BY <1>1, LoopKeepsInv
<1>2. ASSUME NEW a \in Agents, Begin(Loop, a) \/ Skip(a) PROVE HeartbeatInv'
  BY <1>2, AgentFacts, BeginKeepsInv, SkipKeepsInv
<1>3. ASSUME NEW p \in Manual, NEW a \in Agents, Begin(p, a) PROVE HeartbeatInv'
  BY <1>3, BeginKeepsInv DEF Runs
<1>4. ASSUME NEW p \in Runs, RunStep(p) PROVE HeartbeatInv'
  BY <1>4, DecideKeepsInv, RunFailsKeepsInv, TellKeepsInv, UpdateKeepsInv DEF RunStep
<1>5. ASSUME NEW a \in Agents, Message(a) \/ Reset(a) PROVE HeartbeatInv'
  BY <1>5, SessionKeepsInv
<1>6. CASE Tick
  BY <1>6, TickKeepsInv
<1>7. QED  BY <1>1, <1>2, <1>3, <1>4, <1>5, <1>6 DEF HeartbeatNext, CycleStep

\* The schedule agrees with its history, an agent without an excuse has one run
\* at most, and its main session knows what was heard last.
THEOREM HeartbeatInvariance == HeartbeatSpec => []HeartbeatInv
<1>1. HeartbeatInit => HeartbeatInv
  BY HeartbeatStarts
<1>2. HeartbeatInv /\ [HeartbeatNext]_beatVars => HeartbeatInv'
  BY HeartbeatStep
<1>3. QED  BY <1>1, <1>2, PTL DEF HeartbeatSpec

\* Only the loop starts its own run, and it starts what is due.
LEMMA ScheduledRunIsDue ==
  ASSUME HeartbeatInv, [HeartbeatNext]_beatVars, NEW a \in Agents,
         job[Loop].agent # a, job'[Loop].agent = a
  PROVE  since[a] = Every[a]
<1> USE AgentFacts DEF HeartbeatInv
<1>1. job[Loop] # job'[Loop] /\ a # None
  OBVIOUS
<1>2. UNCHANGED job => job[Loop] = job'[Loop]
  OBVIOUS
<1>3. \A b \in Agents : Begin(Loop, b) => b = a /\ b \in dueNow
  BY DEF Begin, HeartbeatTypeOK, Idle
<1>4. \A p \in Manual, b \in Agents : ~Begin(p, b)
  BY HeartbeatAssumption, <1>1 DEF Begin, HeartbeatTypeOK
<1>5. ASSUME NEW p \in Runs, RunStep(p) PROVE FALSE
  <2>1. job'[Loop].agent \in {job[Loop].agent, None}
    <3>1. CASE Decide(p)
      <4>1. \E output, tell : job' = [job EXCEPT ![p].step = "decided",
                                      ![p].output = output, ![p].tell = tell]
        BY <3>1 DEF Decide
      <4>2. QED  BY <4>1 DEF HeartbeatTypeOK
    <3>2. CASE RunFails(p) \/ Update(p) \/ UpdateFails(p)
      <4>1. job' = [job EXCEPT ![p] = Idle]
        BY <3>2 DEF RunFails, Update, UpdateFails, Conclude
      <4>2. QED  BY <4>1 DEF HeartbeatTypeOK, Idle
    <3>3. CASE Tell(p) \/ DeliveryFails(p)
      <4>1. job' = [job EXCEPT ![p].step = "told"]
        BY <3>3 DEF Tell, DeliveryFails
      <4>2. QED  BY <4>1 DEF HeartbeatTypeOK
    <3>4. QED  BY <1>5, <3>1, <3>2, <3>3 DEF RunStep
  <2>2. QED  BY <1>1, <2>1
<1>6. ~(Change \/ LoopStep \/ UNCHANGED beatVars)
  BY <1>1, <1>2 DEF Change, LoopStep, Top, Wake, Cycle, CycleEnds, beatVars
<1>7. \A b \in Agents : ~Skip(b) /\ ~Message(b) /\ ~Reset(b)
  BY <1>1, <1>2 DEF Skip, Message, Reset
<1>8. ~Tick
  BY <1>1, <1>2 DEF Tick
<1>9. a \in dueNow
  BY <1>3, <1>4, <1>5, <1>6, <1>7, <1>8 DEF HeartbeatNext, CycleStep
<1>10. due[a] = 0 /\ due[a] + since[a] = Every[a] /\ since[a] \in Nat
  BY <1>9 DEF DueInv, HeartbeatTypeOK
<1>11. QED  BY <1>10

\* Whatever fails, the loop never runs an agent before its interval is over.
THEOREM RunsAreSpaced == HeartbeatSpec => ScheduledRunsSpaced
<1>1. HeartbeatInv /\ [HeartbeatNext]_beatVars =>
        [\A a \in Agents :
           job[Loop].agent # a /\ job'[Loop].agent = a => since[a] = Every[a]]_beatVars
  BY ScheduledRunIsDue
<1>2. QED
  BY <1>1, HeartbeatInvariance, PTL DEF HeartbeatSpec, ScheduledRunsSpaced

\* Nobody is told the same alert twice within the window without a cause.
THEOREM AlertsAreNotRepeated == HeartbeatSpec => RepeatsHaveCause
<1>1. HeartbeatInv =>
        \A p \in Runs :
          job[p].step = "decided" /\ job'[p].step = "told" /\ job[p].tell =>
            LET a == job[p].agent IN
            Alike(heard[a].output, job[p].output) =>
              heard[a].output # job[p].output \/ excused[a]
  BY DEF HeartbeatInv, DecidedInv
<1>2. QED
  BY <1>1, HeartbeatInvariance, PTL DEF HeartbeatSpec, RepeatsHaveCause
=============================================================================
