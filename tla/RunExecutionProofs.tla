------------------------- MODULE RunExecutionProofs -------------------------
(***************************************************************************)
(* Proofs about RunExecution for any number of runs and every size of the  *)
(* pipes, the channel and the buffer: type correctness, the inductive      *)
(* invariant, and the five safety properties that its run checks.          *)
(*                                                                         *)
(* A step of a run changes nothing of another run, except that it may      *)
(* evict its events (Frame); so each part of the invariant is shown for    *)
(* one run q and a step of a run r, with q # r by Frame and q = r action   *)
(* by action.                                                              *)
(***************************************************************************)
EXTENDS RunExecution, WellFoundedInduction, FiniteSetTheorems, SequenceTheorems, TLAPS

\* What Append does to a sequence.
LEMMA Appending ==
  ASSUME NEW S, NEW s \in Seq(S), NEW x \in S
  PROVE  /\ Append(s, x) \in Seq(S) /\ Append(s, x) # <<>>
         /\ Len(s) \in Nat /\ Len(Append(s, x)) = Len(s) + 1
         /\ \A i \in 1 .. Len(s) : Append(s, x)[i] = s[i]
         /\ Append(s, x)[Len(s) + 1] = x
BY AppendProperties, LenProperties

\* What Head and Tail of a sequence are.
LEMMA Taking ==
  ASSUME NEW S, NEW s \in Seq(S), s # <<>>
  PROVE  /\ Len(s) \in Nat \ {0}
         /\ Head(s) = s[1] /\ Head(s) \in S
         /\ Tail(s) \in Seq(S) /\ Len(Tail(s)) = Len(s) - 1
         /\ \A i \in 1 .. Len(s) - 1 : Tail(s)[i] = s[i + 1]
BY HeadTailProperties, LenProperties

\* A step of Next for the run r.
RunStep(r) == TaskStep(r) \/ ChildStep(r) \/ ReaderStep(r) \/ Forward(r)

\* A step of one run changes nothing of another, except that mark_completed may
\* evict its events.
LEMMA Frame ==
  ASSUME Shaped, NEW r \in Runs, RunStep(r), NEW q \in Runs \ {r}
  PROVE  /\ task'[q] = task[q] /\ provider'[q] = provider[q]
         /\ outcome'[q] = outcome[q] /\ recorded'[q] = recorded[q]
         /\ child'[q] = child[q] /\ stdout'[q] = stdout[q]
         /\ stderr'[q] = stderr[q] /\ reader'[q] = reader[q]
         /\ lines'[q] = lines[q] /\ said'[q] = said[q] /\ chan'[q] = chan[q]
         /\ count'[q] = count[q] /\ answer'[q] = answer[q]
         /\ buffer'[q] \in {buffer[q], <<>>}
         /\ buffer'[q] # buffer[q]
                  => task[r] = "marking" /\ Head(Append(completed, r)) = q
<1> USE DEF Shaped, taskVars, childVars, readerVars, bufferVars
<1>1. CASE Start(r)
  BY <1>1 DEF Start
<1>2. CASE StartFails(r)
  BY <1>2 DEF StartFails
<1>3. CASE Finish(r)
  BY <1>3 DEF Finish
<1>4. CASE TimeOut(r)
  BY <1>4 DEF TimeOut
<1>5. CASE RecordEnd(r)
  BY <1>5 DEF RecordEnd, Drained
<1>6. CASE RecordEndFails(r)
  BY <1>6 DEF RecordEndFails, Drained, Forget
<1>7. CASE MarkCompleted(r)
  BY <1>7 DEF MarkCompleted, Forget
<1>8. CASE WriteLine(r)
  BY <1>8 DEF WriteLine
<1>9. CASE WriteBlock(r)
  BY <1>9 DEF WriteBlock
<1>10. CASE Exit(r)
  BY <1>10 DEF Exit
<1>11. CASE ReadLine(r)
  BY <1>11 DEF ReadLine
<1>12. CASE ReadBlock(r)
  BY <1>12 DEF ReadBlock
<1>13. CASE Advance(r)
  BY <1>13 DEF Advance
<1>14. CASE Emit(r)
  BY <1>14 DEF Emit
<1>15. CASE Forward(r)
  BY <1>15 DEF Forward, Push
<1> QED BY <1>1, <1>2, <1>3, <1>4, <1>5, <1>6, <1>7, <1>8, <1>9, <1>10, <1>11,
     <1>12, <1>13, <1>14, <1>15 DEF RunStep, TaskStep, ChildStep, ReaderStep

\* Every step preserves PipeInv.
LEMMA PipeStep ==
  ASSUME Shaped, PipeInv, NEW r \in Runs, RunStep(r)
  PROVE  PipeInv'
<1> SUFFICES ASSUME NEW q \in Runs
             PROVE  Piped(q)'
  BY DEF PipeInv
<1>1. Piped(q)
  BY DEF PipeInv
<1>2. CASE q # r
  <2>1. buffer[q] = <<>> => buffer'[q] = <<>>
    BY <1>2, Frame
  <2> QED BY <1>1, <1>2, <2>1, Frame DEF Piped, Drained
<1>3. CASE q = r
  <2> USE <1>1, <1>3, RunAssumption DEF Piped, Shaped, Child, taskVars,
       childVars, readerVars, bufferVars, Drained
<2>1. CASE Start(r)
  BY <2>1 DEF Start
<2>2. CASE StartFails(r)
  BY <2>2 DEF StartFails
<2>3. CASE Finish(r)
  BY <2>3 DEF Finish
<2>4. CASE TimeOut(r)
  BY <2>4 DEF TimeOut
<2>5. CASE RecordEnd(r)
  BY <2>5 DEF RecordEnd, Drained
<2>6. CASE RecordEndFails(r)
  BY <2>6 DEF RecordEndFails, Drained, Forget
<2>7. CASE MarkCompleted(r)
  BY <2>7 DEF MarkCompleted, Forget
<2>8. CASE WriteLine(r)
  BY <2>8 DEF WriteLine
<2>9. CASE WriteBlock(r)
  BY <2>9 DEF WriteBlock
<2>10. CASE Exit(r)
  BY <2>10 DEF Exit
<2>11. CASE ReadLine(r)
  BY <2>11 DEF ReadLine
<2>12. CASE ReadBlock(r)
  BY <2>12 DEF ReadBlock
<2>13. CASE Advance(r)
  BY <2>13 DEF Advance
<2>14. CASE Emit(r)
  BY <2>14 DEF Emit
<2>15. CASE Forward(r)
  BY <2>15 DEF Forward, Push
<2> QED BY <2>1, <2>2, <2>3, <2>4, <2>5, <2>6, <2>7, <2>8, <2>9, <2>10, <2>11,
     <2>12, <2>13, <2>14, <2>15 DEF RunStep, TaskStep, ChildStep, ReaderStep
<1> QED BY <1>2, <1>3

\* The order of the natural numbers is well founded.
LEMMA WellFoundedLess ==
  IsWellFoundedOn({ss \in Nat \X Nat : ss[1] < ss[2]}, Nat)
BY NatLessThanWellFounded DEF OpToRel

\* A set of natural numbers that is not empty has a smallest element.
LEMMA Smallest ==
  ASSUME NEW S \in SUBSET Nat, S # {}
  PROVE  \E x \in S : \A y \in S : x <= y
<1> DEFINE R == {ss \in Nat \X Nat : ss[1] < ss[2]}
<1>1. \E x \in S : \A y \in S : ~ (<<y, x>> \in R)
  <2>1. IsWellFoundedOn(R, Nat)
    BY WellFoundedLess
  <2> HIDE DEF R
  <2> QED BY <2>1, WFMin
<1>2. \A x, y \in S : <<y, x>> \in R <=> y < x
  OBVIOUS
<1>3. PICK x \in S : \A y \in S : ~ (<<y, x>> \in R)
  BY <1>1
<1>4. ASSUME NEW y \in S
      PROVE  x <= y
  <2>1. ~ (y < x)
    BY <1>2, <1>3
  <2> QED BY <2>1
<1> QED BY <1>4

\* Max of a bounded set of natural numbers is its largest element.
LEMMA MaxOfBounded ==
  ASSUME NEW n \in Nat, NEW S \in SUBSET (0 .. n), S # {}
  PROVE  Max(S) \in S /\ \A x \in S : x <= Max(S)
<1> DEFINE T == {k \in 0 .. n : n - k \in S}
<1>1. T \in SUBSET Nat /\ T # {}
  <2>1. PICK x \in S : TRUE
    OBVIOUS
  <2>2. x \in 0 .. n /\ n - x \in 0 .. n /\ n - (n - x) = x
    OBVIOUS
  <2>3. n - x \in T
    BY <2>1, <2>2
  <2>4. T \in SUBSET Nat
    OBVIOUS
  <2> QED BY <2>3, <2>4
<1>2. PICK k \in T : \A j \in T : k <= j
  <2> HIDE DEF T
  <2> QED BY <1>1, Smallest
<1>3. \A x \in S : n - x \in T
  OBVIOUS
<1>4. n - k \in S /\ \A x \in S : n - k >= x
  BY <1>2, <1>3
<1> QED BY <1>4 DEF Max

\* The last of some positions, or Raw when there are none.
LEMMA MaxPosition ==
  ASSUME NEW S, NEW output \in Seq(S), NEW P \in SUBSET DOMAIN output
  PROVE  /\ Max({Raw} \cup P) \in {Raw} \cup P
         /\ Max({Raw} \cup P) = Raw => P = {}
<1>1. Len(output) \in Nat /\ DOMAIN output = 1 .. Len(output)
  OBVIOUS
<1>2. {Raw} \cup P \in SUBSET (0 .. Len(output))
  BY <1>1 DEF Raw
<1>3. /\ Max({Raw} \cup P) \in {Raw} \cup P
      /\ \A x \in {Raw} \cup P : x <= Max({Raw} \cup P)
  <2> DEFINE Q == {Raw} \cup P
  <2>1. Q \in SUBSET (0 .. Len(output)) /\ Q # {}
    BY <1>2
  <2> HIDE DEF Q
  <2>2. Max(Q) \in Q /\ \A x \in Q : x <= Max(Q)
    BY <1>1, <2>1, MaxOfBounded
  <2> QED BY <2>2 DEF Q
<1>4. \A x \in P : x \in Nat /\ x >= 1
  BY <1>1
<1>5. ASSUME Max({Raw} \cup P) = Raw
      PROVE  P = {}
  <2>1. \A x \in P : x <= 0
    BY <1>3, <1>5 DEF Raw
  <2> QED BY <1>4, <2>1
<1> QED BY <1>3, <1>5

\* An answer is the position of a line with an answer: the searches never return
\* a line of another kind, or one that is not there.
LEMMA AnswerIsPosition ==
  ASSUME Shaped, NEW r \in Runs
  PROVE  /\ Answer(r) \in {Raw} \cup DOMAIN said[r]
         /\ Answer(r) # Raw => said[r][Answer(r)] \in {"message", "result"}
<1> DEFINE out == said[r]
<1>1. out \in Seq(ClaudeLines)
  BY DEF Shaped
<1> HIDE DEF out
<1>2. \A saying : At(out, saying) \in SUBSET DOMAIN out
  BY DEF At
<1>3. /\ CodexText(out) \in {Raw} \cup DOMAIN out
      /\ CodexText(out) # Raw => out[CodexText(out)] \in {"message", "blank"}
  <2> DEFINE P == At(out, {"message", "blank"})
  <2>1. Max({Raw} \cup P) \in {Raw} \cup P
    <3>1. P \in SUBSET DOMAIN out
      BY <1>2
    <3> HIDE DEF P
    <3> QED BY <1>1, <3>1, MaxPosition
  <2> QED BY <2>1 DEF CodexText, At
<1>4. /\ ClaudeText(out) \in {Raw} \cup DOMAIN out
      /\ ClaudeText(out) # Raw => out[ClaudeText(out)] \in {"result", "blank"}
  <2> DEFINE P == At(out, {"result", "blank", "torn"})
  <2>1. Max({Raw} \cup P) \in {Raw} \cup P
    <3>1. P \in SUBSET DOMAIN out
      BY <1>2
    <3> HIDE DEF P
    <3> QED BY <1>1, <3>1, MaxPosition
  <2> QED BY <2>1 DEF ClaudeText, At
<1> QED BY <1>3, <1>4 DEF Answer, out


\* Every step preserves the shape of the variables.
LEMMA ShapedStep ==
  ASSUME Shaped, NEW r \in Runs, RunStep(r)
  PROVE  Shaped' 
<1>task. task \in [Runs -> {"idle", "running", "draining", "marking", "over"}]
  BY DEF Shaped
<1>provider. provider \in [Runs -> {"none", "codex", "claude"}]
  BY DEF Shaped
<1>outcome. outcome \in [Runs -> {"none", "ok", "error"}]
  BY DEF Shaped
<1>recorded. recorded \in [Runs -> {"none", "pending", "ended"}]
  BY DEF Shaped
<1>child. child \in [Runs -> Child]
  BY DEF Shaped
<1>stdout. stdout \in [Runs -> 0 .. PipeCap]
  BY DEF Shaped
<1>stderr. stderr \in [Runs -> 0 .. PipeCap]
  BY DEF Shaped
<1>reader. reader \in [Runs -> {"none", "stdout", "stderr", "wait", "emit", "done",
                     "panicked"}]
  BY DEF Shaped
<1>lines. lines \in [Runs -> Nat]
  BY DEF Shaped
<1>count. count \in [Runs -> Nat]
  BY DEF Shaped
<1>said. said \in [Runs -> Seq(ClaudeLines)]
  BY DEF Shaped
<1>chan. chan \in [Runs -> Seq(Nat)]
  BY DEF Shaped
<1>buffer. buffer \in [Runs -> Seq(Nat)]
  BY DEF Shaped
<1>completed. completed \in Seq(Runs)
  BY DEF Shaped
<1>answer. answer \in [Runs -> Nat]
  BY DEF Shaped
<1>queue. /\ Append(completed, r) \in Seq(Runs)
          /\ Tail(Append(completed, r)) \in Seq(Runs)
          /\ Head(Append(completed, r)) \in Runs
  <2>1. /\ Append(completed, r) \in Seq(Runs)
        /\ Append(completed, r) # <<>>
    BY <1>completed, Appending
  <2> QED BY <2>1, Taking
<1>1. CASE Start(r)
  <2>1. task' \in [Runs -> {"idle", "running", "draining", "marking", "over"}]
    BY <1>1, <1>task DEF Start
  <2>2. provider' \in [Runs -> {"none", "codex", "claude"}]
    BY <1>1, <1>provider, RunAssumption DEF Start
  <2>3. recorded' \in [Runs -> {"none", "pending", "ended"}]
    BY <1>1, <1>recorded DEF Start
  <2>4. reader' \in [Runs -> {"none", "stdout", "stderr", "wait", "emit", "done",
                     "panicked"}]
    BY <1>1, <1>reader DEF Start
  <2>5. child' \in [Runs -> Child]
    BY <1>1, <1>child, RunAssumption DEF Start, Child
  <2> QED BY <1>1, <2>1, <2>2, <2>3, <2>4, <2>5 DEF Shaped, Start,
        taskVars, childVars, readerVars, bufferVars
<1>2. CASE StartFails(r)
  <2>1. task' \in [Runs -> {"idle", "running", "draining", "marking", "over"}]
    BY <1>2, <1>task DEF StartFails
  <2>2. recorded' \in [Runs -> {"none", "pending", "ended"}]
    BY <1>2, <1>recorded DEF StartFails
  <2>3. outcome' \in [Runs -> {"none", "ok", "error"}]
    BY <1>2, <1>outcome DEF StartFails
  <2>4. reader' \in [Runs -> {"none", "stdout", "stderr", "wait", "emit", "done",
                     "panicked"}]
    BY <1>2, <1>reader DEF StartFails
  <2> QED BY <1>2, <2>1, <2>2, <2>3, <2>4 DEF Shaped, StartFails,
        taskVars, childVars, readerVars, bufferVars
<1>3. CASE Finish(r)
  <2>1. task' \in [Runs -> {"idle", "running", "draining", "marking", "over"}]
    BY <1>3, <1>task DEF Finish
  <2>2. outcome' \in [Runs -> {"none", "ok", "error"}]
    BY <1>3, <1>outcome DEF Finish
  <2>3. answer' \in [Runs -> Nat]
    <3>1. Answer(r) \in {Raw} \cup DOMAIN said[r]
      BY AnswerIsPosition
    <3>2. Answer(r) \in Nat
      BY <3>1, <1>said DEF Raw
    <3> QED BY <1>3, <1>answer, <3>2 DEF Finish
  <2> QED BY <1>3, <2>1, <2>2, <2>3 DEF Shaped, Finish,
        taskVars, childVars, readerVars, bufferVars
<1>4. CASE TimeOut(r)
  <2>1. task' \in [Runs -> {"idle", "running", "draining", "marking", "over"}]
    BY <1>4, <1>task DEF TimeOut
  <2>2. outcome' \in [Runs -> {"none", "ok", "error"}]
    BY <1>4, <1>outcome DEF TimeOut
  <2> QED BY <1>4, <2>1, <2>2 DEF Shaped, TimeOut,
        taskVars, childVars, readerVars, bufferVars
<1>5. CASE RecordEnd(r)
  <2>1. task' \in [Runs -> {"idle", "running", "draining", "marking", "over"}]
    BY <1>5, <1>task DEF RecordEnd
  <2>2. recorded' \in [Runs -> {"none", "pending", "ended"}]
    BY <1>5, <1>recorded DEF RecordEnd
  <2> QED BY <1>5, <2>1, <2>2 DEF Shaped, RecordEnd,
        taskVars, childVars, readerVars, bufferVars
<1>6. CASE RecordEndFails(r)
  <2>1. task' \in [Runs -> {"idle", "running", "draining", "marking", "over"}]
    BY <1>6, <1>task DEF RecordEndFails, Forget
  <2>2. lines' \in [Runs -> Nat]
    BY <1>6, <1>lines DEF RecordEndFails, Forget
  <2>3. said' \in [Runs -> Seq(ClaudeLines)]
    BY <1>6, <1>said, <1>provider DEF RecordEndFails, Forget, LinesOf,
         CodexLines, ClaudeLines
  <2>4. answer' \in [Runs -> Nat]
    BY <1>6, <1>answer DEF RecordEndFails, Forget, Raw
  <2>5. outcome' \in [Runs -> {"none", "ok", "error"}]
    BY <1>6, <1>outcome DEF RecordEndFails, Forget
  <2>6. provider' \in [Runs -> {"none", "codex", "claude"}]
    BY <1>6, <1>provider, RunAssumption DEF RecordEndFails, Forget
  <2> QED BY <1>6, <2>1, <2>2, <2>3, <2>4, <2>5, <2>6 DEF Shaped,
       RecordEndFails, Forget,
        taskVars, childVars, readerVars, bufferVars
<1>7. CASE MarkCompleted(r)
  <2>1. task' \in [Runs -> {"idle", "running", "draining", "marking", "over"}]
    BY <1>7, <1>task DEF MarkCompleted, Forget
  <2>2. lines' \in [Runs -> Nat]
    BY <1>7, <1>lines DEF MarkCompleted, Forget
  <2>3. said' \in [Runs -> Seq(ClaudeLines)]
    BY <1>7, <1>said, <1>provider DEF MarkCompleted, Forget, LinesOf,
         CodexLines, ClaudeLines
  <2>4. answer' \in [Runs -> Nat]
    BY <1>7, <1>answer DEF MarkCompleted, Forget, Raw
  <2>5. outcome' \in [Runs -> {"none", "ok", "error"}]
    BY <1>7, <1>outcome DEF MarkCompleted, Forget
  <2>6. provider' \in [Runs -> {"none", "codex", "claude"}]
    BY <1>7, <1>provider, RunAssumption DEF MarkCompleted, Forget
  <2>7. completed' \in Seq(Runs)
    BY <1>7, <1>queue DEF MarkCompleted
  <2>8. buffer' \in [Runs -> Seq(Nat)]
    <3>1. <<>> \in Seq(Nat)
      OBVIOUS
    <3> QED BY <1>7, <1>buffer, <1>queue, <3>1 DEF MarkCompleted
  <2> QED BY <1>7, <2>1, <2>2, <2>3, <2>4, <2>5, <2>6, <2>7, <2>8 DEF Shaped,
       MarkCompleted, Forget,
        taskVars, childVars, readerVars, bufferVars
<1>8. CASE WriteLine(r)
  <2>1. child' \in [Runs -> Child]
    BY <1>8, <1>child, RunAssumption DEF WriteLine, Child
  <2>2. stdout' \in [Runs -> 0 .. PipeCap]
    BY <1>8, <1>stdout, RunAssumption DEF WriteLine
  <2> QED BY <1>8, <2>1, <2>2 DEF Shaped, WriteLine,
        taskVars, childVars, readerVars, bufferVars
<1>9. CASE WriteBlock(r)
  <2>1. child' \in [Runs -> Child]
    BY <1>9, <1>child, RunAssumption DEF WriteBlock, Child
  <2>2. stderr' \in [Runs -> 0 .. PipeCap]
    BY <1>9, <1>stderr, RunAssumption DEF WriteBlock
  <2> QED BY <1>9, <2>1, <2>2 DEF Shaped, WriteBlock,
        taskVars, childVars, readerVars, bufferVars
<1>10. CASE Exit(r)
  <2>1. child' \in [Runs -> Child]
    BY <1>10, <1>child, RunAssumption DEF Exit, Child
  <2> QED BY <1>10, <2>1 DEF Shaped, Exit,
        taskVars, childVars, readerVars, bufferVars
<1>11. CASE ReadLine(r)
  <2>1. stdout' \in [Runs -> 0 .. PipeCap]
    BY <1>11, <1>stdout, RunAssumption DEF ReadLine
  <2>2. lines' \in [Runs -> Nat]
    BY <1>11, <1>lines DEF ReadLine
  <2> QED BY <1>11, <2>1, <2>2 DEF Shaped, ReadLine,
        taskVars, childVars, readerVars, bufferVars
<1>12. CASE ReadBlock(r)
  <2>1. stderr' \in [Runs -> 0 .. PipeCap]
    BY <1>12, <1>stderr, RunAssumption DEF ReadBlock
  <2> QED BY <1>12, <2>1 DEF Shaped, ReadBlock,
        taskVars, childVars, readerVars, bufferVars
<1>13. CASE Advance(r)
  <2>1. reader' \in [Runs -> {"none", "stdout", "stderr", "wait", "emit", "done",
                     "panicked"}]
    BY <1>13, <1>reader DEF Advance
  <2> QED BY <1>13, <2>1 DEF Shaped, Advance,
        taskVars, childVars, readerVars, bufferVars
<1>14. CASE Emit(r)
  <2>1. said' \in [Runs -> Seq(ClaudeLines)]
    BY <1>14, <1>said, <1>provider DEF Emit, LinesOf, CodexLines, ClaudeLines
  <2>2. chan' \in [Runs -> Seq(Nat)]
    BY <1>14, <1>chan, <1>said DEF Emit
  <2>3. reader' \in [Runs -> {"none", "stdout", "stderr", "wait", "emit", "done",
                     "panicked"}]
    BY <1>14, <1>reader DEF Emit
  <2> QED BY <1>14, <2>1, <2>2, <2>3 DEF Shaped, Emit,
        taskVars, childVars, readerVars, bufferVars
<1>15. CASE Forward(r)
  <2>1. chan' \in [Runs -> Seq(Nat)]
    BY <1>15, <1>chan, <1>said DEF Forward, Push
  <2>2. count' \in [Runs -> Nat]
    BY <1>15, <1>count DEF Forward, Push
  <2>3. buffer' \in [Runs -> Seq(Nat)]
    BY <1>15, <1>buffer, <1>completed, <1>chan DEF Forward, Push
  <2> QED BY <1>15, <2>1, <2>2, <2>3 DEF Shaped, Forward, Push,
        taskVars, childVars, readerVars, bufferVars
<1> QED BY <1>1, <1>2, <1>3, <1>4, <1>5, <1>6, <1>7, <1>8, <1>9, <1>10, <1>11,
     <1>12, <1>13, <1>14, <1>15
     DEF RunStep, TaskStep, ChildStep, ReaderStep

\* mark_completed evicts the run itself or one that is over.
LEMMA EvictedIsOver ==
  ASSUME Shaped, CompletedInv, NEW r \in Runs
  PROVE  Head(Append(completed, r)) = r \/ task[Head(Append(completed, r))] = "over"
<1>1. completed \in Seq(Runs)
  BY DEF Shaped
<1>2. Append(completed, r) \in Seq(Runs) /\ Append(completed, r) # <<>>
  BY <1>1, Appending
<1>3. Head(Append(completed, r)) = Append(completed, r)[1]
  BY <1>2, Taking
<1>4. CASE Len(completed) = 0
  BY <1>1, <1>3, <1>4, Appending
<1>5. CASE Len(completed) > 0
  <2>1. 1 \in 1 .. Len(completed)
    BY <1>1, <1>5, LenProperties
  <2>2. Append(completed, r)[1] = completed[1]
    BY <1>1, <2>1, Appending
  <2>3. DOMAIN completed = 1 .. Len(completed)
    BY <1>1, LenProperties
  <2> QED BY <1>3, <2>1, <2>2, <2>3 DEF CompletedInv
<1> QED BY <1>1, <1>4, <1>5, LenProperties

\* A run in progress keeps its events whatever another run does.
LEMMA LiveBuffer ==
  ASSUME Shaped, CompletedInv, NEW r \in Runs, RunStep(r),
         NEW q \in Runs \ {r}, Started(q)
  PROVE  buffer'[q] = buffer[q]
BY Frame, EvictedIsOver DEF Started

\* Every step preserves the bounds of TypeOK.
LEMMA RangeStep ==
  ASSUME TypeOK, PipeInv, EventInv, NEW r \in Runs, RunStep(r), NEW q \in Runs
  PROVE  InRange(q)'
<1>1. Shaped /\ InRange(q) /\ Piped(q) /\ Counted(q)
  BY DEF TypeOK, PipeInv, EventInv
<1>2. CASE q # r
  <2>1. buffer'[q] \in Seq(1 .. MaxLines[q])
    <3>1. <<>> \in Seq(1 .. MaxLines[q])
      OBVIOUS
    <3> QED BY <1>1, <1>2, <3>1, Frame DEF InRange
  <2> QED BY <1>1, <1>2, <2>1, Frame DEF InRange, LinesOf
<1>3. CASE q = r
  <2> USE <1>1, <1>3 DEF Shaped, InRange, LinesOf, taskVars, childVars,
          readerVars, bufferVars
  <2>1. MaxLines[r] \in Nat /\ Providers[r] \in SUBSET {"codex", "claude"}
    BY RunAssumption
  <2>2. <<>> \in Seq(1 .. MaxLines[r]) /\ <<>> \in Seq(CodexLines)
        /\ <<>> \in Seq(ClaudeLines)
    OBVIOUS
  <2>3. CASE Start(r)
    BY <2>1, <2>2, <2>3 DEF Start, Piped
  <2>4. CASE StartFails(r)
    BY <2>4 DEF StartFails
  <2>5. CASE Finish(r)
    BY <2>5, AnswerIsPosition DEF Finish
  <2>6. CASE TimeOut(r)
    BY <2>6 DEF TimeOut
  <2>7. CASE RecordEnd(r)
    BY <2>7 DEF RecordEnd
  <2>8. CASE RecordEndFails(r)
    BY <2>1, <2>2, <2>8 DEF RecordEndFails, Forget
  <2>9. CASE MarkCompleted(r)
    <3>1. buffer'[r] \in {buffer[r], <<>>}
      BY <2>9 DEF MarkCompleted
    <3>2. /\ lines'[r] = 0 /\ said'[r] = <<>> /\ answer'[r] = Raw
          /\ provider'[r] = "none" /\ count' = count /\ chan' = chan
      BY <2>9 DEF MarkCompleted, Forget
    <3>3. buffer'[r] \in Seq(1 .. MaxLines[r])
      BY <2>2, <3>1
    <3> QED BY <2>1, <2>2, <3>2, <3>3
  <2>10. CASE ChildStep(r)
    BY <2>10 DEF ChildStep, WriteLine, WriteBlock, Exit
  <2>11. CASE ReadLine(r)
    <3>1. lines'[r] = lines[r] + 1 /\ lines'[r] <= MaxLines[r]
      BY <2>1, <2>11 DEF ReadLine, Piped, Child
    <3> QED BY <2>1, <2>11, <3>1 DEF ReadLine
  <2>12. CASE ReadBlock(r) \/ Advance(r)
    BY <2>12 DEF ReadBlock, Advance
  <2>13. CASE Emit(r)
    <3>1. PICK line \in LinesOf(r) : said' = [said EXCEPT ![r] = Append(@, line)]
      BY <2>13 DEF Emit
    <3>2. /\ said'[r] \in Seq(LinesOf(r)) /\ Len(said'[r]) = Len(said[r]) + 1
          /\ Len(said[r]) \in Nat /\ Len(said[r]) + 1 <= lines[r]
          /\ DOMAIN said[r] \subseteq DOMAIN said'[r]
      <4>1. /\ said'[r] = Append(said[r], line)
            /\ said[r] \in Seq(LinesOf(r))
        BY <3>1
      <4> HIDE DEF LinesOf
      <4>2. /\ Append(said[r], line) \in Seq(LinesOf(r))
            /\ Len(said[r]) \in Nat
            /\ Len(Append(said[r], line)) = Len(said[r]) + 1
        BY <4>1, Appending
      <4>3. Len(said[r]) + 1 <= lines[r]
        BY <2>13 DEF Emit
      <4>4. /\ DOMAIN said[r] = 1 .. Len(said[r])
            /\ DOMAIN Append(said[r], line) = 1 .. Len(Append(said[r], line))
        BY <4>1, <4>2, LenProperties
      <4>5. DOMAIN said[r] \subseteq DOMAIN said'[r]
        BY <4>1, <4>2, <4>4
      <4> QED BY <4>1, <4>2, <4>3, <4>5
    <3>3. chan'[r] \in {chan[r], Append(chan[r], Len(said[r]) + 1)}
      BY <2>13 DEF Emit
    <3>4. chan'[r] \in Seq(1 .. MaxLines[r])
      <4>1. Len(said[r]) + 1 \in 1 .. MaxLines[r]
        BY <2>1, <3>2
      <4>2. chan[r] \in Seq(1 .. MaxLines[r])
        OBVIOUS
      <4>3. Append(chan[r], Len(said[r]) + 1) \in Seq(1 .. MaxLines[r])
        BY <4>1, <4>2, Appending
      <4> QED BY <3>3, <4>2, <4>3
    <3>5. /\ lines' = lines /\ count' = count /\ provider' = provider
          /\ buffer' = buffer /\ answer' = answer
      BY <2>13 DEF Emit
    <3> QED BY <2>1, <3>2, <3>4, <3>5
  <2>14. CASE Forward(r)
    <3>1. Started(r)
      BY <2>14 DEF Forward, Piped, Started, Drained
    <3>2. Head(chan[r]) \in 1 .. MaxLines[r] /\ Tail(chan[r]) \in Seq(1 .. MaxLines[r])
          /\ Len(chan[r]) \in Nat \ {0}
      BY <2>14, Taking DEF Forward
    <3>3. count[r] + 1 <= MaxLines[r]
      BY <2>1, <3>1, <3>2 DEF Counted
    <3>4. Push(buffer[r], Head(chan[r])) \in Seq(1 .. MaxLines[r])
      BY <3>2, Appending DEF Push
    <3>5. /\ chan'[r] = Tail(chan[r]) /\ count'[r] = count[r] + 1
          /\ buffer'[r] = Push(buffer[r], Head(chan[r]))
          /\ lines' = lines /\ said' = said /\ provider' = provider
          /\ answer' = answer
      BY <2>14 DEF Forward
    <3>6. count[r] \in Nat /\ count'[r] \in 0 .. MaxLines[r]
      BY <2>1, <3>3, <3>5
    <3> QED BY <2>1, <3>2, <3>4, <3>5, <3>6
  <2> QED BY <2>3, <2>4, <2>5, <2>6, <2>7, <2>8, <2>9, <2>10, <2>11, <2>12,
             <2>13, <2>14 DEF RunStep, TaskStep, ReaderStep
<1> QED BY <1>2, <1>3

\* Every step preserves EventInv.
LEMMA CountedStep ==
  ASSUME TypeOK, PipeInv, EventInv, CompletedInv, NEW r \in Runs, RunStep(r),
         NEW q \in Runs
  PROVE  Counted(q)'
<1>1. Shaped /\ Piped(q) /\ Counted(q)
  BY DEF TypeOK, PipeInv, EventInv
<1>2. CASE q # r
  BY <1>1, <1>2, Frame, LiveBuffer DEF Counted, Started
<1>3. CASE q = r
  <2>1. /\ Piped(r) /\ Counted(r) /\ count[r] \in Nat /\ MaxEvents \in Nat
        /\ said[r] \in Seq(ClaudeLines) /\ chan[r] \in Seq(Nat)
        /\ buffer[r] \in Seq(Nat)
    BY <1>1, <1>3, RunAssumption DEF Shaped
  <2>2. CASE Start(r) \/ StartFails(r)
    <3>1. /\ task[r] = "idle" /\ said' = said /\ chan' = chan
          /\ count' = count /\ buffer' = buffer
      BY <2>2 DEF Start, StartFails, readerVars, bufferVars
    <3>2. said[r] = <<>> /\ chan[r] = <<>> /\ count[r] = 0 /\ buffer[r] = <<>>
      BY <2>1, <3>1 DEF Piped
    <3> QED BY <1>3, <2>1, <3>1, <3>2 DEF Counted
  <2>3. CASE RecordEndFails(r) \/ MarkCompleted(r)
    BY <1>1, <1>3, <2>3 DEF RecordEndFails, MarkCompleted, Counted, Started, Shaped
  <2>4. CASE Emit(r)
    <3>1. PICK line \in LinesOf(r) : said' = [said EXCEPT ![r] = Append(@, line)]
      BY <2>4 DEF Emit
    <3>2. line \in ClaudeLines
      BY DEF LinesOf, ClaudeLines
    <3>3. said'[r] = Append(said[r], line)
      BY <1>1, <3>1 DEF Shaped
    <3>4. Len(said'[r]) = Len(said[r]) + 1 /\ Len(said[r]) \in Nat
      BY <2>1, <3>2, <3>3, Appending
    <3>5. chan'[r] \in {chan[r], Append(chan[r], Len(said[r]) + 1)}
      BY <1>1, <2>4 DEF Emit, Shaped
    <3>6. Len(chan[r]) \in Nat /\ Len(chan'[r]) \in {Len(chan[r]), Len(chan[r]) + 1}
      <4>1. Len(said[r]) + 1 \in Nat
        BY <3>4
      <4> QED BY <2>1, <3>5, <4>1, Appending, LenProperties
    <3>7. task' = task /\ count' = count /\ buffer' = buffer
      BY <2>4 DEF Emit, taskVars, bufferVars
    <3>8. Counted(r)'
      <4>1. SUFFICES ASSUME Started(r)
                     PROVE  /\ Len(chan'[r]) + count[r] <= Len(said'[r])
                            /\ Len(buffer[r]) = IF count[r] < MaxEvents
                                                  THEN count[r] ELSE MaxEvents
        BY <3>7 DEF Counted, Started
      <4> QED BY <2>1, <3>4, <3>6, <4>1 DEF Counted
    <3> QED BY <1>3, <3>8
  <2>5. CASE Forward(r)
    <3>1. /\ chan'[r] = Tail(chan[r]) /\ count'[r] = count[r] + 1
          /\ buffer'[r] = Push(buffer[r], Head(chan[r]))
          /\ said' = said /\ task' = task /\ chan[r] # <<>>
      BY <1>1, <2>5 DEF Forward, taskVars, readerVars, Shaped
    <3>2. /\ Head(chan[r]) \in Nat /\ Len(chan[r]) \in Nat
          /\ Len(Tail(chan[r])) = Len(chan[r]) - 1
      BY <2>1, <3>1, Taking
    <3>3. /\ Len(buffer[r]) \in Nat
          /\ Len(buffer'[r]) = IF Len(buffer[r]) < MaxEvents
                                 THEN Len(buffer[r]) + 1 ELSE Len(buffer[r])
      BY <2>1, <3>1, <3>2, Appending, LenProperties DEF Push
    <3>4. Counted(r)'
      <4>1. SUFFICES ASSUME Started(r)
                     PROVE  /\ Len(chan'[r]) + count'[r] <= Len(said[r])
                            /\ Len(buffer'[r]) = IF count'[r] < MaxEvents
                                                   THEN count'[r] ELSE MaxEvents
        BY <3>1 DEF Counted, Started
      <4>2. Len(said[r]) \in Nat
        BY <2>1, LenProperties
      <4> QED BY <2>1, <3>1, <3>2, <3>3, <4>1, <4>2 DEF Counted
    <3> QED BY <1>3, <3>4
  <2>6. CASE Finish(r) \/ TimeOut(r) \/ RecordEnd(r)
    BY <1>1, <1>3, <2>1, <2>6
    DEF Finish, TimeOut, RecordEnd, Counted, Started, readerVars, bufferVars
  <2>7. CASE ChildStep(r) \/ ReadLine(r) \/ ReadBlock(r) \/ Advance(r)
    BY <1>1, <1>3, <2>7
    DEF ChildStep, WriteLine, WriteBlock, Exit, ReadLine, ReadBlock, Advance,
        Counted, Started, taskVars, readerVars, bufferVars
  <2> QED BY <2>2, <2>3, <2>4, <2>5, <2>6, <2>7 DEF RunStep, TaskStep, ReaderStep
<1> QED BY <1>2, <1>3

\* A run that is over stays over, and only mark_completed changes the queue of
\* completed runs.
LEMMA EndingRun ==
  ASSUME Shaped, NEW r \in Runs, RunStep(r)
  PROVE  /\ task[r] = "over" => task'[r] = "over"
         /\ MarkCompleted(r) => task'[r] = "over"
         /\ MarkCompleted(r) \/ completed' = completed
<1>1. task \in [Runs -> {"idle", "running", "draining", "marking", "over"}]
  BY DEF Shaped
<1> USE DEF bufferVars, taskVars
<1>2. CASE Start(r) \/ StartFails(r) \/ Finish(r) \/ TimeOut(r)
  <2>1. task[r] # "over" /\ task[r] # "marking" /\ completed' = completed
    BY <1>2 DEF Start, StartFails, Finish, TimeOut
  <2> QED BY <2>1 DEF MarkCompleted
<1>3. CASE RecordEnd(r) \/ RecordEndFails(r) \/ MarkCompleted(r)
  BY <1>1, <1>3 DEF RecordEnd, RecordEndFails, MarkCompleted
<1>4. CASE ChildStep(r) \/ ReaderStep(r) \/ Forward(r)
  <2>1. task' = task /\ completed' = completed
    BY <1>4 DEF ChildStep, WriteLine, WriteBlock, Exit, ReaderStep, ReadLine,
       ReadBlock, Advance, Emit, Forward
  <2> QED BY <1>1, <2>1 DEF MarkCompleted
<1> QED BY <1>2, <1>3, <1>4 DEF RunStep, TaskStep

\* What mark_completed does to the queue of completed runs and the buffer.
LEMMA QueueAfter ==
  ASSUME Shaped, NEW r \in Runs, MarkCompleted(r)
  PROVE  /\ completed' \in Seq(Runs)
         /\ \A i \in DOMAIN completed' :
              completed'[i] = r \/
                       \E j \in DOMAIN completed : completed[j] = completed'[i]
         /\ Len(completed) <= MaxCompleted => Len(completed') <= MaxCompleted
         /\ \A j \in DOMAIN completed :
              buffer'[completed[j]] = <<>> \/
                       \E i \in DOMAIN completed' : completed'[i] = completed[j]
         /\ buffer'[r] = <<>> \/ \E i \in DOMAIN completed' : completed'[i] = r
<1> DEFINE queue == Append(completed, r)
<1>1. /\ completed \in Seq(Runs) /\ Len(completed) \in Nat
      /\ DOMAIN completed = 1 .. Len(completed) /\ MaxCompleted \in Nat
  BY LenProperties, RunAssumption DEF Shaped
<1>2. /\ queue \in Seq(Runs) /\ queue # <<>> /\ Len(queue) = Len(completed) + 1
      /\ \A i \in 1 .. Len(completed) : queue[i] = completed[i]
      /\ queue[Len(completed) + 1] = r
  BY <1>1, Appending
<1>3. /\ Head(queue) = queue[1] /\ Head(queue) \in Runs
      /\ Tail(queue) \in Seq(Runs) /\ Len(Tail(queue)) = Len(completed)
      /\ \A i \in 1 .. Len(completed) : Tail(queue)[i] = queue[i + 1]
  <2> HIDE DEF queue
  <2> QED BY <1>1, <1>2, Taking
<1>4. IF Len(queue) > MaxCompleted
        THEN completed' = Tail(queue) /\ buffer' = [buffer EXCEPT ![Head(queue)] = <<>>]
        ELSE completed' = queue /\ buffer' = buffer
  BY DEF MarkCompleted
<1> HIDE DEF queue
<1>5. CASE Len(queue) > MaxCompleted
  <2>1. completed' = Tail(queue) /\ DOMAIN completed' = 1 .. Len(completed)
    BY <1>1, <1>3, <1>4, <1>5, LenProperties
  <2>2. buffer'[Head(queue)] = <<>>
    BY <1>3, <1>4, <1>5 DEF Shaped
  <2>3. ASSUME NEW k \in 1 .. Len(completed) + 1
        PROVE  buffer'[queue[k]] = <<>> \/ \E i \in DOMAIN completed' : completed'[i] = queue[k]
    <3>1. CASE k = 1
      BY <1>3, <2>2, <3>1
    <3>2. CASE k > 1
      <4>1. k - 1 \in 1 .. Len(completed) /\ (k - 1) + 1 = k
        BY <1>1, <3>2
      <4> QED BY <1>3, <2>1, <4>1
    <3> QED BY <1>1, <3>1, <3>2
  <2>4. ASSUME NEW i \in DOMAIN completed'
        PROVE  completed'[i] = r \/ \E j \in DOMAIN completed : completed[j] = completed'[i]
    <3>1. i \in 1 .. Len(completed) /\ completed'[i] = queue[i + 1]
      BY <1>3, <2>1
    <3> QED BY <1>1, <1>2, <3>1
  <2>5. \A j \in 1 .. Len(completed) : j \in 1 .. Len(completed) + 1
    BY <1>1
  <2>6. Len(completed) + 1 \in 1 .. Len(completed) + 1
    BY <1>1
  <2>7. Len(completed') = Len(completed)
    BY <1>3, <2>1
  <2>9. \A j \in DOMAIN completed :
          buffer'[completed[j]] = <<>> \/
                   \E i \in DOMAIN completed' : completed'[i] = completed[j]
    BY <1>1, <1>2, <2>3, <2>5
  <2> QED BY <1>2, <1>3, <2>1, <2>3, <2>4, <2>6, <2>7, <2>9
<1>6. CASE ~(Len(queue) > MaxCompleted)
  <2>1. /\ completed' = queue /\ DOMAIN completed' = 1 .. Len(completed) + 1
        /\ buffer' = buffer
    BY <1>1, <1>2, <1>4, <1>6, LenProperties
  <2>2. Len(completed) + 1 \in DOMAIN completed'
           /\ DOMAIN completed \subseteq DOMAIN completed'
    BY <1>1, <2>1
  <2>3. ASSUME NEW i \in DOMAIN completed'
        PROVE  completed'[i] = r \/ \E j \in DOMAIN completed : completed[j] = completed'[i]
    <3>1. i \in 1 .. Len(completed) \/ i = Len(completed) + 1
      BY <1>1, <2>1
    <3> QED BY <1>1, <1>2, <2>1, <3>1
  <2>4. Len(completed') <= MaxCompleted
    BY <1>1, <1>2, <1>6, <2>1
  <2>5. \A j \in DOMAIN completed :
           \E i \in DOMAIN completed' : completed'[i] = completed[j]
    BY <1>1, <1>2, <2>1, <2>2
  <2>6. \E i \in DOMAIN completed' : completed'[i] = r
    BY <1>2, <2>1, <2>2
  <2> QED BY <1>2, <2>1, <2>3, <2>4, <2>5, <2>6
<1> QED BY <1>5, <1>6

\* Every step preserves CompletedInv.
LEMMA CompletedStep ==
  ASSUME Shaped, CompletedInv, NEW r \in Runs, RunStep(r)
  PROVE  CompletedInv'
<1>1. \A q \in Runs : task[q] = "over" => task'[q] = "over"
  BY Frame, EndingRun
<1>2. \A i \in DOMAIN completed : completed[i] \in Runs
  BY LenProperties DEF Shaped
<1>3. CASE completed' = completed
  BY <1>1, <1>2, <1>3 DEF CompletedInv
<1>4. CASE MarkCompleted(r)
  BY <1>1, <1>2, <1>4, QueueAfter, EndingRun DEF CompletedInv
<1> QED BY <1>3, <1>4, EndingRun

\* Every step preserves BufferIsBounded.
LEMMA BoundedStep ==
  ASSUME TypeOK, PipeInv, CompletedInv, BufferIsBounded, NEW r \in Runs, RunStep(r)
  PROVE  BufferIsBounded'
<1>1. Shaped
  BY DEF TypeOK
<1>2. Len(completed') <= MaxCompleted
  BY <1>1, EndingRun, QueueAfter DEF BufferIsBounded
<1>3. ASSUME NEW q \in Runs, buffer'[q] # <<>>
      PROVE  \/ Started(q)'
             \/ recorded'[q] = "pending"
             \/ \E i \in DOMAIN completed' : completed'[i] = q
  <2>1. CASE q # r
    <3>1. /\ task'[q] = task[q] /\ recorded'[q] = recorded[q]
          /\ buffer[q] # <<>>
      BY <1>1, <1>3, <2>1, Frame
    <3>2. \/ Started(q) \/ recorded[q] = "pending"
          \/ \E i \in DOMAIN completed : completed[i] = q
      BY <3>1 DEF BufferIsBounded
    <3>3. CASE \E i \in DOMAIN completed : completed[i] = q
      BY <1>1, <1>3, <3>3, EndingRun, QueueAfter
    <3> QED BY <3>1, <3>2, <3>3 DEF Started
  <2>2. CASE q = r
    <3>1. CASE MarkCompleted(r)
      BY <1>1, <1>3, <2>2, <3>1, QueueAfter
    <3>2. CASE RecordEndFails(r)
      BY <1>1, <1>3, <2>2, <3>2 DEF RecordEndFails, PipeInv, Piped
    <3>3. CASE Start(r) \/ StartFails(r) \/ Finish(r) \/ TimeOut(r) \/ RecordEnd(r)
      BY <1>1, <1>3, <2>2, <3>3 DEF Start, StartFails, Finish, TimeOut,
         RecordEnd, Started, Shaped
    <3>4. CASE ChildStep(r) \/ ReaderStep(r)
      <4>1. /\ buffer' = buffer /\ completed' = completed /\ task' = task
            /\ recorded' = recorded
        BY <3>4 DEF ChildStep, WriteLine, WriteBlock, Exit, ReaderStep,
           ReadLine, ReadBlock, Advance, Emit, bufferVars, taskVars
      <4> QED BY <1>3, <2>2, <4>1 DEF BufferIsBounded, Started
    <3>5. CASE Forward(r)
      BY <1>1, <2>2, <3>5 DEF Forward, PipeInv, Piped, Drained, Started,
         taskVars, Shaped
    <3> QED BY <3>1, <3>2, <3>3, <3>4, <3>5 DEF RunStep, TaskStep
  <2> QED BY <2>1, <2>2
<1> QED BY <1>2, <1>3 DEF BufferIsBounded

\* Every step preserves AnswerInv.
LEMMA AnsweredStep ==
  ASSUME Shaped, PipeInv, AnswerInv, NEW r \in Runs, RunStep(r), NEW q \in Runs
  PROVE  Answered(q)'
<1>1. Answered(q) /\ Piped(q)
  BY DEF AnswerInv, PipeInv
<1>2. said'[q] = said[q] /\ provider'[q] = provider[q] => Answer(q)' = Answer(q)
  BY DEF Answer
<1>3. CASE q # r
  BY <1>1, <1>2, <1>3, Frame DEF Answered
<1>4. CASE q = r
  <2> USE <1>1, <1>2, <1>4 DEF Shaped, Answered, taskVars, readerVars
  <2>1. CASE Start(r)
    <3>1. PICK cli \in Providers[r] : provider' = [provider EXCEPT ![r] = cli]
      BY <2>1 DEF Start
    <3>2. provider'[r] # "none"
      BY <3>1, RunAssumption
    <3>3. /\ task[r] = "idle" /\ outcome' = outcome /\ answer' = answer
          /\ task'[r] = "running"
      BY <2>1 DEF Start
    <3> QED BY <3>2, <3>3
  <2>2. CASE StartFails(r)
    BY <2>2 DEF StartFails, Piped
  <2>3. CASE Finish(r)
    <3>1. answer'[r] = IF reader[r] = "done" THEN Answer(r) ELSE answer[r]
      BY <2>3 DEF Finish
    <3> QED BY <2>3, <3>1 DEF Finish
  <2>4. CASE TimeOut(r)
    BY <2>4 DEF TimeOut
  <2>5. CASE RecordEnd(r)
    BY <2>5 DEF RecordEnd
  <2>6. CASE RecordEndFails(r) \/ MarkCompleted(r)
    BY <2>6 DEF RecordEndFails, MarkCompleted, Forget
  <2>7. CASE ChildStep(r) \/ Forward(r)
    BY <2>7 DEF ChildStep, WriteLine, WriteBlock, Exit, Forward
  <2>8. CASE ReaderStep(r)
    BY <2>8 DEF ReaderStep, ReadLine, ReadBlock, Advance, Emit
  <2> QED BY <2>1, <2>2, <2>3, <2>4, <2>5, <2>6, <2>7, <2>8 DEF RunStep, TaskStep
<1> QED BY <1>3, <1>4

\* The lines that are events are finitely many.
LEMMA ShownIsFinite ==
  ASSUME Shaped, NEW r \in Runs
  PROVE  /\ Shown(r) \subseteq 1 .. Len(said[r]) /\ Len(said[r]) \in Nat
         /\ IsFiniteSet(Shown(r)) /\ Cardinality(Shown(r)) \in Nat
<1>1. Len(said[r]) \in Nat /\ DOMAIN said[r] = 1 .. Len(said[r])
  BY LenProperties DEF Shaped
<1>2. Shown(r) \subseteq 1 .. Len(said[r])
  BY <1>1 DEF Shown
<1>3. IsFiniteSet(1 .. Len(said[r]))
  BY <1>1, FS_Interval
<1> QED BY <1>1, <1>2, <1>3, FS_Subset, FS_CardinalityType

\* A line that is an event adds one to them.
LEMMA ShownAfterEmit ==
  ASSUME Shaped, NEW r \in Runs, NEW line \in ClaudeLines,
         said' = [said EXCEPT ![r] = Append(@, line)], provider' = provider
  PROVE  Shown(r)' = IF Shows(r, line) THEN Shown(r) \cup {Len(said[r]) + 1}
                                       ELSE Shown(r)
<1> DEFINE n == Len(said[r]) + 1
<1>1. /\ said'[r] = Append(said[r], line) /\ Len(said[r]) \in Nat
      /\ DOMAIN said[r] = 1 .. Len(said[r]) /\ DOMAIN said'[r] = 1 .. n
      /\ \A i \in 1 .. Len(said[r]) : said'[r][i] = said[r][i]
      /\ said'[r][n] = line
  <2>1. said[r] \in Seq(ClaudeLines) /\ said'[r] = Append(said[r], line)
    BY DEF Shaped
  <2> QED BY <2>1, Appending, LenProperties
<1>2. Shown(r)' = {i \in 1 .. n : Shows(r, said'[r][i])}
  BY <1>1 DEF Shown, Shows, EventOf
<1>3. 1 .. n = (1 .. Len(said[r])) \cup {n}
  BY <1>1
<1> QED BY <1>1, <1>2, <1>3 DEF Shown

\* Every step preserves NoBurstInv.
LEMMA KeptStep ==
  ASSUME TypeOK, PipeInv, EventInv, CompletedInv, NoBurstInv,
         NEW r \in Runs, RunStep(r), NEW q \in Runs
  PROVE  Kept(q)'
<1>1. Shaped /\ Piped(q) /\ Counted(q) /\ Kept(q)
  BY DEF TypeOK, PipeInv, EventInv, NoBurstInv
<1>2. said'[q] = said[q] /\ provider'[q] = provider[q] => Shown(q)' = Shown(q)
  BY DEF Shown, Shows, EventOf
<1>3. CASE q # r
  BY <1>1, <1>2, <1>3, Frame, LiveBuffer DEF Kept, Started
<1>4. CASE q = r
  <2>1. /\ Piped(r) /\ Counted(r) /\ Kept(r) /\ count[r] \in Nat
        /\ said[r] \in Seq(ClaudeLines) /\ chan[r] \in Seq(Nat)
        /\ buffer[r] \in Seq(Nat) /\ ChanCap \in Nat /\ MaxEvents \in Nat
    BY <1>1, <1>4, RunAssumption DEF Shaped
  <2>2. CASE Start(r) \/ StartFails(r)
    <3>1. task[r] = "idle" /\ said' = said /\ chan' = chan /\ count' = count
      BY <2>2 DEF Start, StartFails, readerVars
    <3>2. said'[r] = <<>> /\ chan'[r] = <<>> /\ count'[r] = 0
      BY <2>1, <3>1 DEF Piped
    <3>3. Shown(r)' = {}
      <4>1. DOMAIN said'[r] = {}
        BY <3>2
      <4> QED BY <4>1 DEF Shown
    <3>4. Cardinality(Shown(r)') = 0
      BY <3>3, FS_EmptySet
    <3> QED BY <1>4, <3>2, <3>3, <3>4 DEF Kept
  <2>3. CASE RecordEndFails(r) \/ MarkCompleted(r)
    BY <1>1, <1>4, <2>3 DEF RecordEndFails, MarkCompleted, Kept, Started, Shaped
  <2>4. CASE Finish(r) \/ TimeOut(r) \/ RecordEnd(r)
    <3>1. /\ said' = said /\ provider' = provider /\ chan' = chan
          /\ count' = count /\ buffer' = buffer
      BY <2>4 DEF Finish, TimeOut, RecordEnd, readerVars, bufferVars
    <3>2. Started(r)
      BY <2>4 DEF Finish, TimeOut, RecordEnd, Started
    <3> QED BY <1>2, <1>4, <2>1, <3>1, <3>2 DEF Kept
  <2>5. CASE ChildStep(r) \/ ReadLine(r) \/ ReadBlock(r) \/ Advance(r)
    BY <1>1, <1>2, <1>4, <2>5
    DEF ChildStep, WriteLine, WriteBlock, Exit, ReadLine, ReadBlock, Advance,
        Kept, Started, taskVars, readerVars, bufferVars
  <2>6. CASE Emit(r)
    <3> DEFINE n == Len(said[r]) + 1
    <3>1. PICK line \in LinesOf(r) :
            /\ said' = [said EXCEPT ![r] = Append(@, line)]
            /\ chan' = [chan EXCEPT ![r] =
                          IF Shows(r, line) /\ Len(@) < ChanCap THEN Append(@, n)
                                                               ELSE @]
      BY <2>6 DEF Emit
    <3>2. line \in ClaudeLines
      BY DEF LinesOf, ClaudeLines
    <3>3. task' = task /\ count' = count /\ buffer' = buffer /\ provider' = provider
      BY <2>6 DEF Emit, taskVars, bufferVars
    <3>4. Shown(r)' = IF Shows(r, line) THEN Shown(r) \cup {n} ELSE Shown(r)
      BY <1>1, <3>1, <3>2, <3>3, ShownAfterEmit
    <3>5. chan'[r] = IF Shows(r, line) /\ Len(chan[r]) < ChanCap
                       THEN Append(chan[r], n) ELSE chan[r]
      BY <1>1, <3>1 DEF Shaped
    <3>6. CASE ~Shows(r, line)
      BY <1>4, <2>1, <3>3, <3>4, <3>5, <3>6 DEF Kept, Started
    <3>7. CASE Shows(r, line)
      <4>1. /\ Len(said[r]) \in Nat /\ IsFiniteSet(Shown(r)) /\ n \notin Shown(r)
            /\ Cardinality(Shown(r)) \in Nat
        BY <1>1, ShownIsFinite
      <4>2. Cardinality(Shown(r) \cup {n}) = Cardinality(Shown(r)) + 1
        BY <4>1, FS_AddElement
      <4>3. SUFFICES ASSUME Started(r), Cardinality(Shown(r)) + 1 <= ChanCap
                     PROVE  /\ Len(chan'[r]) + count[r] = Cardinality(Shown(r)) + 1
                            /\ Cardinality(Shown(r)) + 1 <= MaxEvents =>
                                 \A e \in Shown(r) \cup {n} :
                                   \/ \E i \in DOMAIN chan'[r] : chan'[r][i] = e
                                   \/ \E i \in DOMAIN buffer[r] : buffer[r][i] = e
        BY <1>4, <3>3, <3>4, <3>7, <4>2 DEF Kept, Started
      <4>4. Len(chan[r]) + count[r] = Cardinality(Shown(r)) /\ Len(chan[r]) \in Nat
        BY <2>1, <4>1, <4>3, LenProperties DEF Kept
      <4>5. chan'[r] = Append(chan[r], n)
        BY <2>1, <3>5, <3>7, <4>1, <4>3, <4>4
      <4>6. /\ Len(chan'[r]) = Len(chan[r]) + 1 /\ chan'[r] \in Seq(Nat)
            /\ \A i \in 1 .. Len(chan[r]) : chan'[r][i] = chan[r][i]
            /\ chan'[r][Len(chan[r]) + 1] = n
        BY <2>1, <4>1, <4>5, Appending
      <4>7. /\ DOMAIN chan[r] = 1 .. Len(chan[r])
            /\ DOMAIN chan'[r] = 1 .. Len(chan[r]) + 1
        BY <2>1, <4>6, LenProperties
      <4>8. ASSUME Cardinality(Shown(r)) + 1 <= MaxEvents,
                   NEW e \in Shown(r) \cup {n}
            PROVE  \/ \E i \in DOMAIN chan'[r] : chan'[r][i] = e
                   \/ \E i \in DOMAIN buffer[r] : buffer[r][i] = e
        <5>1. CASE e = n
          <6>1. Len(chan[r]) + 1 \in DOMAIN chan'[r]
            BY <4>4, <4>7
          <6> QED BY <4>6, <5>1, <6>1
        <5>2. CASE e \in Shown(r)
          <6>1. \/ \E i \in DOMAIN chan[r] : chan[r][i] = e
                \/ \E i \in DOMAIN buffer[r] : buffer[r][i] = e
            BY <2>1, <4>1, <4>3, <4>8, <5>2 DEF Kept
          <6>2. \A i \in DOMAIN chan[r] : i \in DOMAIN chan'[r]
                   /\ chan'[r][i] = chan[r][i]
            BY <4>4, <4>6, <4>7
          <6> QED BY <6>1, <6>2
        <5> QED BY <4>8, <5>1, <5>2
      <4>9. Len(chan'[r]) + count[r] = Cardinality(Shown(r)) + 1
        <5> HIDE DEF n
        <5> QED BY <2>1, <4>1, <4>4, <4>6
      <4> QED BY <4>8, <4>9
    <3> QED BY <3>6, <3>7
  <2>7. CASE Forward(r)
    <3>1. /\ chan'[r] = Tail(chan[r]) /\ count'[r] = count[r] + 1
          /\ buffer'[r] = Push(buffer[r], Head(chan[r]))
          /\ said' = said /\ task' = task /\ provider' = provider /\ chan[r] # <<>>
      BY <1>1, <2>7 DEF Forward, taskVars, readerVars, Shaped
    <3>2. /\ Head(chan[r]) \in Nat /\ Len(chan[r]) \in Nat \ {0}
          /\ Head(chan[r]) = chan[r][1]
          /\ Len(Tail(chan[r])) = Len(chan[r]) - 1
          /\ Tail(chan[r]) \in Seq(Nat)
          /\ \A i \in 1 .. Len(chan[r]) - 1 : Tail(chan[r])[i] = chan[r][i + 1]
      BY <2>1, <3>1, Taking
    <3>3. Shown(r)' = Shown(r) /\ Cardinality(Shown(r)) \in Nat
      BY <1>1, <1>2, <1>4, <3>1, ShownIsFinite
    <3>4. SUFFICES ASSUME Started(r), Cardinality(Shown(r)) <= ChanCap
                   PROVE  /\ Len(Tail(chan[r])) + count[r] + 1 = Cardinality(Shown(r))
                          /\ Cardinality(Shown(r)) <= MaxEvents =>
                               \A e \in Shown(r) :
                                 \/
                                          \E i \in DOMAIN Tail(chan[r]) : Tail(chan[r])[i] = e
                                 \/ \E i \in DOMAIN buffer'[r] : buffer'[r][i] = e
      <4>1. Started(r)' <=> Started(r)
        BY <3>1 DEF Started
      <4>2. count[r] \in Nat /\ Len(Tail(chan[r])) \in Nat
        BY <2>1, <3>2
      <4> QED BY <1>4, <3>1, <3>3, <4>1, <4>2 DEF Kept
    <3>5. Len(chan[r]) + count[r] = Cardinality(Shown(r))
      BY <2>1, <3>4 DEF Kept
    <3>6. ASSUME Cardinality(Shown(r)) <= MaxEvents, NEW e \in Shown(r)
          PROVE  \/ \E i \in DOMAIN Tail(chan[r]) : Tail(chan[r])[i] = e
                 \/ \E i \in DOMAIN buffer'[r] : buffer'[r][i] = e
      <4>1. Len(buffer[r]) = count[r] /\ count[r] < MaxEvents
        BY <2>1, <3>2, <3>3, <3>4, <3>5, <3>6 DEF Counted
      <4>2. buffer'[r] = Append(buffer[r], Head(chan[r]))
        BY <3>1, <4>1 DEF Push
      <4>3. /\ buffer'[r] \in Seq(Nat) /\ Len(buffer'[r]) = Len(buffer[r]) + 1
            /\ \A i \in 1 .. Len(buffer[r]) : buffer'[r][i] = buffer[r][i]
            /\ buffer'[r][Len(buffer[r]) + 1] = chan[r][1]
        BY <2>1, <3>2, <4>2, Appending
      <4>4. /\ DOMAIN buffer[r] = 1 .. Len(buffer[r])
            /\ DOMAIN buffer'[r] = 1 .. Len(buffer[r]) + 1
            /\ DOMAIN chan[r] = 1 .. Len(chan[r])
            /\ DOMAIN Tail(chan[r]) = 1 .. Len(chan[r]) - 1
        BY <2>1, <3>2, <4>3, LenProperties
      <4>5. CASE \E i \in DOMAIN buffer[r] : buffer[r][i] = e
        <5>1. \A i \in DOMAIN buffer[r] : i \in DOMAIN buffer'[r]
                 /\ buffer'[r][i] = buffer[r][i]
          <6>1. Len(buffer[r]) \in Nat
            BY <2>1, LenProperties
          <6> QED BY <4>3, <4>4, <6>1
        <5> QED BY <4>5, <5>1
      <4>6. ASSUME NEW i \in DOMAIN chan[r], chan[r][i] = e
            PROVE  \/ \E j \in DOMAIN Tail(chan[r]) : Tail(chan[r])[j] = e
                   \/ \E j \in DOMAIN buffer'[r] : buffer'[r][j] = e
        <5>1. CASE i = 1
          <6>1. Len(buffer[r]) + 1 \in DOMAIN buffer'[r]
            BY <2>1, <4>1, <4>4
          <6> QED BY <4>3, <4>6, <5>1, <6>1
        <5>2. CASE i > 1
          <6>1. i - 1 \in DOMAIN Tail(chan[r]) /\ (i - 1) + 1 = i
            BY <3>2, <4>4, <5>2
          <6> QED BY <3>2, <4>4, <4>6, <6>1
        <5> QED BY <3>2, <4>4, <5>1, <5>2
      <4> QED BY <2>1, <3>4, <3>6, <4>5, <4>6 DEF Kept
    <3>7. Len(Tail(chan[r])) + count[r] + 1 = Cardinality(Shown(r))
      <4> DEFINE rest == Tail(chan[r])
      <4>1. Len(rest) = Len(chan[r]) - 1
        BY <3>2
      <4> HIDE DEF rest
      <4>2. Len(rest) + count[r] + 1 = Cardinality(Shown(r))
        <5>1. \A l, t, c, k \in Int :
                t = l - 1 /\ l + c = k => t + c + 1 = k
          OBVIOUS
        <5>2. /\ Len(chan[r]) \in Int /\ Len(rest) \in Int
              /\ count[r] \in Int /\ Cardinality(Shown(r)) \in Int
          BY <2>1, <3>2, <3>3, <4>1
        <5> QED BY <3>5, <4>1, <5>1, <5>2
      <4> QED BY <4>2 DEF rest
    <3> QED BY <3>6, <3>7
  <2> QED BY <2>2, <2>3, <2>4, <2>5, <2>6, <2>7 DEF RunStep, TaskStep, ReaderStep
<1> QED BY <1>3, <1>4

-----------------------------------------------------------------------------

\* The inductive invariant holds in the initial states.
LEMMA InitInv ==
  ASSUME Init
  PROVE  IInv
<1> USE RunAssumption DEF Init, Raw
<1>1. Shaped
  <2>1. <<>> \in Seq(ClaudeLines) /\ <<>> \in Seq(Nat) /\ <<>> \in Seq(Runs)
    OBVIOUS
  <2>2. child \in [Runs -> Child]
    BY DEF Child
  <2> QED BY <2>1, <2>2 DEF Shaped
<1>2. ASSUME NEW r \in Runs
      PROVE  InRange(r)
  <2>1. <<>> \in Seq(LinesOf(r)) /\ <<>> \in Seq(1 .. MaxLines[r]) /\ Len(<<>>) = 0
    OBVIOUS
  <2>2. MaxLines[r] \in Nat
    OBVIOUS
  <2> QED BY <2>1, <2>2 DEF InRange
<1>3. PipeInv
  BY DEF PipeInv, Piped
<1>4. EventInv /\ NoBurstInv
  BY DEF EventInv, Counted, NoBurstInv, Kept, Started
<1>5. CompletedInv /\ BufferIsBounded
  <2>1. completed = <<>> /\ Len(completed) = 0 /\ DOMAIN completed = {}
    OBVIOUS
  <2>2. \A r \in Runs : buffer[r] = <<>>
    OBVIOUS
  <2>3. MaxCompleted \in Nat
    OBVIOUS
  <2>4. CompletedInv
    BY <2>1 DEF CompletedInv
  <2>5. BufferIsBounded
    BY <2>1, <2>2, <2>3 DEF BufferIsBounded
  <2> QED BY <2>4, <2>5
<1>6. AnswerInv
  BY DEF AnswerInv, Answered
<1> QED BY <1>1, <1>2, <1>3, <1>4, <1>5, <1>6 DEF IInv, TypeOK

\* Every step preserves the inductive invariant.
LEMMA StepInv ==
  ASSUME IInv, NEW r \in Runs, RunStep(r)
  PROVE  IInv'
<1> USE DEF IInv, TypeOK
<1>1. TypeOK'
  BY ShapedStep, RangeStep
<1>2. PipeInv'
  BY PipeStep
<1>3. EventInv' /\ NoBurstInv'
  BY CountedStep, KeptStep DEF EventInv, NoBurstInv
<1>4. CompletedInv' /\ BufferIsBounded'
  BY CompletedStep, BoundedStep
<1>5. AnswerInv'
  BY AnsweredStep DEF AnswerInv
<1> QED BY <1>1, <1>2, <1>3, <1>4, <1>5

\* The inductive invariant holds in every reachable state.
THEOREM Invariance == Spec => []IInv
<1>1. IInv /\ UNCHANGED vars => IInv'
  <2> SUFFICES ASSUME IInv, UNCHANGED vars
               PROVE  IInv'
    OBVIOUS
  <2>0. /\ task' = task /\ provider' = provider /\ outcome' = outcome
        /\ recorded' = recorded /\ answer' = answer /\ child' = child
        /\ stdout' = stdout /\ stderr' = stderr /\ reader' = reader
        /\ lines' = lines /\ said' = said /\ chan' = chan /\ count' = count
        /\ buffer' = buffer /\ completed' = completed
    BY DEF vars, taskVars, childVars, readerVars, bufferVars
  <2>1. TypeOK'
    BY <2>0 DEF IInv, TypeOK, Shaped, InRange, LinesOf
  <2>2. PipeInv' /\ EventInv' /\ CompletedInv' /\ BufferIsBounded'
    BY <2>0 DEF IInv, PipeInv, Piped, Drained, EventInv, Counted, Started,
       CompletedInv, BufferIsBounded
  <2>3. NoBurstInv'
    <3>1. ASSUME NEW r \in Runs
          PROVE  Shown(r)' = Shown(r)
      BY <2>0 DEF Shown, Shows, EventOf
    <3> QED BY <2>0, <3>1 DEF IInv, NoBurstInv, Kept, Started
  <2>4. AnswerInv'
    <3>1. ASSUME NEW r \in Runs
          PROVE  Answer(r)' = Answer(r)
      BY <2>0 DEF Answer
    <3> QED BY <2>0, <3>1 DEF IInv, AnswerInv, Answered
  <2> QED BY <2>1, <2>2, <2>3, <2>4 DEF IInv
<1>2. IInv /\ Next => IInv'
  BY StepInv DEF Next, RunStep
<1> QED BY <1>1, <1>2, InitInv, PTL DEF Spec

\* Type correctness: every variable stays in its type and no run has more lines,
\* events or counts than its child wrote.
THEOREM TypeCorrect == Spec => []TypeOK
<1>1. IInv => TypeOK
  BY DEF IInv
<1> QED BY <1>1, Invariance, PTL

\* RunEventBuffer holds the events of runs in progress, of the last max_completed
\* runs and of runs whose end could not be recorded, and of no other run.
THEOREM BufferStaysBounded == Spec => []BufferIsBounded
<1>1. IInv => BufferIsBounded
  BY DEF IInv
<1> QED BY <1>1, Invariance, PTL

\* The event_count that run_single_task records counts every event, unless they
\* did not fit the channel.
THEOREM CountsAreExact == Spec => []CountMissesBurstsOnly
<1>1. IInv => CountMissesBurstsOnly
  <2> SUFFICES ASSUME IInv, NEW r \in Runs, task[r] = "marking",
                      Cardinality(Shown(r)) <= ChanCap
               PROVE  count[r] = Cardinality(Shown(r))
    BY DEF CountMissesBurstsOnly
  <2>1. Len(chan[r]) + count[r] = Cardinality(Shown(r)) /\ count[r] \in Nat
    BY DEF IInv, TypeOK, Shaped, NoBurstInv, Kept, Started
  <2>2. chan[r] = <<>>
    BY DEF IInv, PipeInv, Piped, Drained
  <2> QED BY <2>1, <2>2
<1> QED BY <1>1, Invariance, PTL

\* A user gets raw output only when the output has no complete answer, or has a
\* torn or empty one.
THEOREM RawRepliesHaveACause == Spec => []RawReplyHasCause
<1>1. IInv => RawReplyHasCause
  <2> SUFFICES ASSUME IInv, NEW r \in Runs, outcome[r] = "ok", answer[r] = Raw,
                      At(said[r], {"torn", "blank"}) = {}
               PROVE  \/ provider[r] = "codex" /\ At(said[r], {"message"}) = {}
                      \/ provider[r] = "claude" /\ At(said[r], {"result"}) = {}
    BY DEF RawReplyHasCause
  <2> DEFINE out == said[r]
  <2>1. /\ out \in Seq(ClaudeLines) /\ Answer(r) = Raw
        /\ provider[r] \in {"codex", "claude"}
    BY DEF IInv, TypeOK, Shaped, AnswerInv, Answered
  <2>2. \A i \in DOMAIN out : out[i] \notin {"torn", "blank"}
    BY DEF At
  <2>3. CASE provider[r] = "codex"
    <3> DEFINE P == At(out, {"message", "blank"})
    <3>1. P \in SUBSET DOMAIN out
      BY DEF At
    <3>2. Max({Raw} \cup P) \in {Raw} \cup P /\ (Max({Raw} \cup P) = Raw => P = {})
      <4> HIDE DEF P, out
      <4> QED BY <2>1, <3>1, MaxPosition
    <3>3. CodexText(out) = Max({Raw} \cup P)
      BY <2>2 DEF CodexText, At
    <3>4. Answer(r) = CodexText(out)
      BY <2>2, <2>3, <3>1, <3>2, <3>3 DEF Answer
    <3>5. P = {}
      BY <2>1, <3>2, <3>3, <3>4
    <3> QED BY <2>3, <3>5 DEF At
  <2>4. CASE provider[r] = "claude"
    <3> DEFINE P == At(out, {"result", "blank", "torn"})
    <3>1. P \in SUBSET DOMAIN out
      BY DEF At
    <3>2. Max({Raw} \cup P) \in {Raw} \cup P /\ (Max({Raw} \cup P) = Raw => P = {})
      <4> HIDE DEF P, out
      <4> QED BY <2>1, <3>1, MaxPosition
    <3>3. ClaudeText(out) = Max({Raw} \cup P)
      BY <2>2, <3>1, <3>2 DEF ClaudeText
    <3>4. Answer(r) = ClaudeText(out)
      BY <2>2, <2>4, <3>1, <3>2, <3>3 DEF Answer
    <3>5. P = {}
      BY <2>1, <3>2, <3>3, <3>4
    <3> QED BY <2>4, <3>5 DEF At
  <2> QED BY <2>1, <2>3, <2>4
<1> QED BY <1>1, Invariance, PTL

\* An answer of codex is among the texts that Office shows, and of one of claude
\* its usage and every message before it, unless the channel or the buffer was
\* too small.
THEOREM AnswersAreShown == Spec => []AnswerIsShown
<1>1. IInv => AnswerIsShown
  <2> SUFFICES ASSUME IInv, NEW r \in Runs, task[r] = "marking",
                      outcome[r] = "ok", answer[r] # Raw,
                      Cardinality(Shown(r)) <= ChanCap,
                      Cardinality(Shown(r)) <= MaxEvents
               PROVE  LET events == {buffer[r][i] : i \in DOMAIN buffer[r]}
                          texts == {e \in events : EventOf(r, said[r][e]) = "text"}
                      IN  IF provider[r] = "codex" THEN answer[r] \in texts
                          ELSE /\ answer[r] \in events
                               /\ At(said[r], {"message"}) \subseteq texts
    BY DEF AnswerIsShown
  <2> DEFINE events == {buffer[r][i] : i \in DOMAIN buffer[r]}
  <2>1. /\ answer[r] \in DOMAIN said[r]
        /\ said[r][answer[r]] \in {"message", "result"}
    BY AnswerIsPosition DEF IInv, TypeOK, AnswerInv, Answered
  <2>2. provider[r] = "codex" => said[r][answer[r]] # "result"
    <3>1. said[r] \in Seq(LinesOf(r))
      BY DEF IInv, TypeOK, InRange
    <3>2. said[r][answer[r]] \in LinesOf(r)
      BY <2>1, <3>1
    <3> QED BY <3>2 DEF LinesOf, CodexLines
  <2>3. chan[r] = <<>>
    BY DEF IInv, PipeInv, Piped, Drained
  <2>4. Shown(r) \subseteq events
    BY <2>3 DEF IInv, NoBurstInv, Kept, Started
  <2>5. CASE provider[r] = "codex"
    <3>1. EventOf(r, said[r][answer[r]]) = "text"
      BY <2>1, <2>2, <2>5 DEF EventOf, CodexEvent
    <3> QED BY <2>1, <2>4, <2>5, <3>1 DEF Shown, Shows
  <2>6. CASE provider[r] # "codex"
    <3>1. EventOf(r, said[r][answer[r]]) # "none"
      BY <2>1, <2>6 DEF EventOf, ClaudeEvent
    <3>2. ASSUME NEW e \in At(said[r], {"message"})
          PROVE  e \in DOMAIN said[r] /\ EventOf(r, said[r][e]) = "text"
      BY <2>6 DEF At, EventOf, ClaudeEvent
    <3> QED BY <2>1, <2>4, <2>6, <3>1, <3>2 DEF Shown, Shows
  <2> QED BY <2>5, <2>6
<1> QED BY <1>1, Invariance, PTL

\* A run in progress does not go back to idle, and only the forwarder and
\* mark_completed touch its events.
LEMMA StartedStays ==
  ASSUME Shaped, NEW r \in Runs, RunStep(r), Started(r)
  PROVE  /\ task'[r] # "idle"
         /\ Forward(r) \/ MarkCompleted(r) \/ buffer' = buffer
<1>1. task \in [Runs -> {"idle", "running", "draining", "marking", "over"}]
  BY DEF Shaped
<1>2. CASE TaskStep(r)
  BY <1>1, <1>2 DEF TaskStep, Start, StartFails, Finish, TimeOut, RecordEnd,
     RecordEndFails, MarkCompleted, bufferVars
<1>3. CASE ChildStep(r) \/ ReaderStep(r) \/ Forward(r)
  <2>1. task' = task /\ (Forward(r) \/ buffer' = buffer)
    BY <1>3 DEF ChildStep, WriteLine, WriteBlock, Exit, ReaderStep, ReadLine,
       ReadBlock, Advance, Emit, Forward, taskVars, bufferVars
  <2> QED BY <2>1 DEF Started
<1> QED BY <1>2, <1>3 DEF RunStep

\* RunEventBuffer::push keeps the events that are there.
LEMMA PushKeeps ==
  ASSUME NEW events \in Seq(Nat), NEW e \in Nat
  PROVE  SubSeq(Push(events, e), 1, Len(events)) = events
BY DEF Push

\* While a run is in progress its buffer holds the first events that were
\* forwarded, and none that Office was given is lost or moved.
THEOREM LiveEventsStay == Spec => LiveEventsAreKept
<1>1. ASSUME IInv, IInv', [Next]_vars, NEW q \in Runs, Started(q), task'[q] # "over"
      PROVE  /\ SubSeq(buffer'[q], 1, Len(buffer[q])) = buffer[q]
             /\ Len(buffer'[q]) =
                      IF count'[q] < MaxEvents THEN count'[q] ELSE MaxEvents
  <2>1. /\ Shaped /\ CompletedInv /\ Counted(q)
        /\ buffer[q] \in Seq(Nat) /\ chan[q] \in Seq(Nat)
    BY <1>1 DEF IInv, TypeOK, Shaped, EventInv
  <2>2. SubSeq(buffer[q], 1, Len(buffer[q])) = buffer[q]
    BY <2>1
  <2>3. CASE UNCHANGED vars
    BY <1>1, <2>1, <2>2, <2>3 DEF vars, bufferVars, Counted
  <2>4. ASSUME NEW r \in Runs, RunStep(r)
        PROVE  /\ SubSeq(buffer'[q], 1, Len(buffer[q])) = buffer[q]
               /\ Len(buffer'[q]) =
                        IF count'[q] < MaxEvents THEN count'[q] ELSE MaxEvents
    <3>1. CASE q # r
      <4>1. buffer'[q] = buffer[q] /\ count'[q] = count[q]
        BY <1>1, <2>1, <2>4, <3>1, Frame, LiveBuffer
      <4> QED BY <1>1, <2>1, <2>2, <4>1 DEF Counted
    <3>2. CASE q = r
      <4>1. Started(q)'
        <5>1. task'[r] # "idle"
          BY <1>1, <2>1, <2>4, <3>2, StartedStays
        <5> QED BY <1>1, <3>2, <5>1 DEF Started
      <4>2. Counted(q)'
        BY <1>1 DEF IInv, EventInv
      <4>3. CASE Forward(r)
        <5>1. buffer'[r] = Push(buffer[r], Head(chan[r])) /\ chan[r] # <<>>
          BY <2>1, <4>3 DEF Forward, Shaped
        <5>2. Head(chan[r]) \in Nat
          BY <2>1, <3>2, <5>1, Taking
        <5> QED BY <2>1, <3>2, <4>1, <4>2, <5>1, <5>2, PushKeeps DEF Counted
      <4>4. CASE ~Forward(r)
        <5>1. buffer'[r] = buffer[r]
          BY <1>1, <2>1, <2>4, <3>2, <4>4, StartedStays, EndingRun
        <5> QED BY <2>2, <3>2, <4>1, <4>2, <5>1 DEF Counted
      <4> QED BY <4>3, <4>4
    <3> QED BY <3>1, <3>2
  <2> QED BY <1>1, <2>3, <2>4 DEF Next, RunStep
<1>2. IInv /\ IInv' /\ [Next]_vars =>
        [\A r \in Runs :
           Started(r) /\ task'[r] # "over" =>
             /\ SubSeq(buffer'[r], 1, Len(buffer[r])) = buffer[r]
             /\ Len(buffer'[r]) =
                  IF count'[r] < MaxEvents THEN count'[r] ELSE MaxEvents]_vars
  BY <1>1
<1> QED BY <1>2, Invariance, PTL DEF Spec, LiveEventsAreKept
=============================================================================
