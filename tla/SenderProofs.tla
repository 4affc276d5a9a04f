----------------------------- MODULE SenderProofs -----------------------------
(***************************************************************************)
(* Proofs about what a sender of a channel meets: who may write, for any   *)
(* number of messages, operators, codes and failed attempts (SenderAccess),*)
(* and which agent answers, for any binding rules, agents and senders and  *)
(* any number of messages, hand-offs and retries (Conversation).           *)
(***************************************************************************)
EXTENDS SenderAccess, Conversation, WellFoundedInduction, TLAPS

-----------------------------------------------------------------------------
(* SenderAccess.                                                            *)

\* The initial record, with nothing in flight, satisfies the invariant.
LEMMA InitIInv == ASSUME Init PROVE IInv
<1>1. TypeOK
  <2> USE AccessAssumption DEF Init, NoCode, Plain, Wrong, Codes
  <2>1. entry \in [status : {"none", "pending", "approved", "rejected"},
                  code : {NoCode} \cup Codes, attempts : Nat,
                  lock : {"none", "locked", "over"}]
    OBVIOUS
  <2>2. /\ expired \subseteq 1 .. generated /\ told \subseteq 1 .. generated
        /\ generated \in 0 .. MaxCodes
    OBVIOUS
  <2>3. /\ step \in [Msgs -> {"idle", "arrived", "unapproved", "issue", "notify",
                            "ended"}]
        /\ \A m \in Msgs : step[m] = "notify" => fresh[m] # NoCode
        /\ desk \in [Operators -> {"idle", "found", "approved", "ended"}]
    OBVIOUS
  <2>4. text \in [Msgs -> {Plain, Wrong} \cup Codes]
    OBVIOUS
  <2>5. fresh \in [Msgs -> 0 .. generated]
    OBVIOUS
  <2>6. QED  BY <2>1, <2>2, <2>3, <2>4, <2>5 DEF TypeOK
<1>2. GuessesBounded /\ DeskInv /\ PairInv
  BY AccessAssumption DEF Init, GuessesBounded, DeskInv, PairInv
<1>3. QED
  BY <1>1, <1>2 DEF IInv

\* Each step keeps the types, and the code of a handler that is about to
\* notify is a generated one.
LEMMA TypeStep == ASSUME IInv, [Next]_vars PROVE TypeOK'
<1> USE AccessAssumption DEF IInv, TypeOK, GuessesBounded, NoCode, Wrong, Plain, Codes, Goto
<1>1. CASE CodeExpires
  BY <1>1 DEF CodeExpires, handlerVars
<1>2. CASE LockoutPasses
  BY <1>2 DEF LockoutPasses, handlerVars
<1>3. ASSUME NEW m \in Msgs, Arrive(m) PROVE TypeOK'
  BY <1>3 DEF Arrive
<1>4. ASSUME NEW m \in Msgs, CheckAccess(m) PROVE TypeOK'
  BY <1>4 DEF CheckAccess
<1>5. ASSUME NEW m \in Msgs, Register(m) PROVE TypeOK'
  BY <1>5 DEF Register, Reregistered
<1>6. ASSUME NEW m \in Msgs, VerifyRefused(m) PROVE TypeOK'
  BY <1>6 DEF VerifyRefused
<1>7. ASSUME NEW m \in Msgs, VerifyExpired(m) PROVE TypeOK'
  BY <1>7 DEF VerifyExpired
<1>8. ASSUME NEW m \in Msgs, VerifyCompared(m) PROVE TypeOK'
  <2>1. entry.lock \in {"none", "over"}
    BY <1>8 DEF VerifyCompared, Verifiable
  <2>2. CASE text[m] = entry.code
    BY <1>8, <2>2 DEF VerifyCompared
  <2> DEFINE Entries == [status : {"none", "pending", "approved", "rejected"},
                         code : {NoCode} \cup Codes,
                         attempts : Nat,
                         lock : {"none", "locked", "over"}]
             old == Unlocked(entry)
  <2>3. old \in Entries
    <3>1. CASE entry.lock = "over"
      BY <3>1 DEF Unlocked
    <3>2. CASE entry.lock # "over"
      BY <3>2 DEF Unlocked
    <3>3. QED  BY <3>1, <3>2
  <2>4. CASE text[m] # entry.code
    <3>1. entry' = CountFailure(old)
      BY <1>8, <2>4 DEF VerifyCompared
    <3> HIDE DEF old
    <3>2. old.attempts + 1 \in Nat
      BY <2>3
    <3>3. CountFailure(old) \in Entries
      BY <2>3, <3>2 DEF CountFailure
    <3>4. QED  BY <1>8, <3>1, <3>3 DEF VerifyCompared
  <2>5. QED  BY <2>1, <2>2, <2>4
<1>9. ASSUME NEW m \in Msgs, IssueCode(m) PROVE TypeOK'
  BY <1>9 DEF IssueCode
<1>10. ASSUME NEW m \in Msgs, NotifySender(m) PROVE TypeOK'
  <2>1. fresh[m] \in 1 .. generated
    BY <1>10 DEF NotifySender
  <2>2. told' \subseteq 1 .. generated /\ generated' = generated
    BY <1>10, <2>1 DEF NotifySender
  <2>3. step' \in [Msgs -> {"idle", "arrived", "unapproved", "issue", "notify",
                           "ended"}]
    BY <1>10 DEF NotifySender
  <2>4. \A n \in Msgs : step'[n] = "notify" => step[n] = "notify"
    BY <1>10 DEF NotifySender
  <2>5. QED  BY <1>10, <2>2, <2>3, <2>4 DEF NotifySender
<1>11. ASSUME NEW m \in Msgs, HandlerFails(m) PROVE TypeOK'
  BY <1>11 DEF HandlerFails
<1>12. ASSUME NEW o \in Operators, FindByCode(o) PROVE TypeOK'
  BY <1>12 DEF FindByCode, handlerVars
<1>13. ASSUME NEW o \in Operators, ApproveFound(o) PROVE TypeOK'
  BY <1>13 DEF ApproveFound, handlerVars
<1>14. ASSUME NEW o \in Operators, ClearCode(o) PROVE TypeOK'
  BY <1>14 DEF ClearCode, handlerVars
<1>15. ASSUME NEW o \in Operators, RequestFails(o) PROVE TypeOK'
  BY <1>15 DEF RequestFails, handlerVars
<1>16. CASE Approve
  BY <1>16 DEF Approve, handlerVars
<1>17. CASE Reject
  BY <1>17 DEF Reject, handlerVars
<1>18. CASE UNCHANGED vars
  BY <1>18 DEF vars, handlerVars
<1>19. QED
  BY <1>1, <1>2, <1>3, <1>4, <1>5, <1>6, <1>7, <1>8, <1>9, <1>10, <1>11,
     <1>12, <1>13, <1>14, <1>15, <1>16, <1>17, <1>18 DEF Next, Verify

\* Of the steps that touch the record only a comparison counts an attempt.
LEMMA GuessesStep == ASSUME IInv, [Next]_vars PROVE GuessesBounded'
<1> USE AccessAssumption DEF IInv, TypeOK, GuessesBounded
<1>1. CASE LockoutPasses
  BY <1>1 DEF LockoutPasses
<1>2. ASSUME NEW m \in Msgs, Register(m) PROVE GuessesBounded'
  BY <1>2 DEF Register, Reregistered
<1>3. ASSUME NEW m \in Msgs, VerifyCompared(m) PROVE GuessesBounded'
  <2>1. CASE text[m] = entry.code
    BY <1>3, <2>1 DEF VerifyCompared
  <2>2. CASE text[m] # entry.code /\ entry.lock = "over"
    BY <1>3, <2>2 DEF VerifyCompared, CountFailure, Unlocked
  <2>3. CASE text[m] # entry.code /\ entry.lock = "none"
    BY <1>3, <2>3 DEF VerifyCompared, CountFailure, Unlocked
  <2>4. entry.lock \in {"none", "over"}
    BY <1>3 DEF VerifyCompared, Verifiable
  <2>5. QED  BY <2>1, <2>2, <2>3, <2>4
<1>4. ASSUME NEW m \in Msgs, IssueCode(m) PROVE GuessesBounded'
  BY <1>4 DEF IssueCode
<1>5. ASSUME NEW o \in Operators, ApproveFound(o) \/ ClearCode(o)
      PROVE GuessesBounded'
  BY <1>5 DEF ApproveFound, ClearCode
<1>6. CASE Approve \/ Reject
  BY <1>6 DEF Approve, Reject
<1>7. CASE UNCHANGED entry
  BY <1>7
<1>8. QED
  BY <1>1, <1>2, <1>3, <1>4, <1>5, <1>6, <1>7
  DEF Next, Verify, vars, CodeExpires, Arrive, CheckAccess, VerifyRefused,
      VerifyExpired, NotifySender, HandlerFails, FindByCode, RequestFails

\* A status other than approved comes from Register, for an unapproved
\* sender, or from Reject.
LEMMA DeskStep == ASSUME IInv, [Next]_vars PROVE DeskInv'
<1> USE DEF IInv, TypeOK, DeskInv
<1>1. ASSUME NEW m \in Msgs, Register(m) PROVE DeskInv'
  BY <1>1 DEF Register, Reregistered
<1>2. ASSUME NEW m \in Msgs, VerifyCompared(m) PROVE DeskInv'
  BY <1>2 DEF VerifyCompared, CountFailure, Unlocked
<1>3. ASSUME NEW m \in Msgs, IssueCode(m) PROVE DeskInv'
  BY <1>3 DEF IssueCode
<1>4. ASSUME NEW o \in Operators, FindByCode(o) PROVE DeskInv'
  BY <1>4 DEF FindByCode
<1>5. ASSUME NEW o \in Operators, ApproveFound(o) PROVE DeskInv'
  BY <1>5 DEF ApproveFound
<1>6. ASSUME NEW o \in Operators, ClearCode(o) PROVE DeskInv'
  BY <1>6 DEF ClearCode
<1>7. ASSUME NEW o \in Operators, RequestFails(o) PROVE DeskInv'
  BY <1>7 DEF RequestFails
<1>8. CASE LockoutPasses \/ Approve \/ Reject
  BY <1>8 DEF LockoutPasses, Approve, Reject
<1>9. CASE UNCHANGED <<entry, desk, rejections>>
  BY <1>9
<1>10. QED
  BY <1>1, <1>2, <1>3, <1>4, <1>5, <1>6, <1>7, <1>8, <1>9
  DEF Next, Verify, vars, CodeExpires, Arrive, CheckAccess, VerifyRefused,
      VerifyExpired, NotifySender, HandlerFails

\* Whoever takes the code away either holds its successor or has approved
\* the sender.
LEMMA PairStep == ASSUME IInv, [Next]_vars PROVE PairInv'
<1> USE DEF IInv, TypeOK, DeskInv, PairInv, Goto
<1>1. ASSUME NEW m \in Msgs, Arrive(m) \/ CheckAccess(m) PROVE PairInv'
  BY <1>1 DEF Arrive, CheckAccess
<1>2. ASSUME NEW m \in Msgs, Register(m) PROVE PairInv'
  BY <1>2 DEF Register, Reregistered
<1>3. ASSUME NEW m \in Msgs, VerifyRefused(m) \/ VerifyExpired(m) PROVE PairInv'
  BY <1>3 DEF VerifyRefused, VerifyExpired, Verifiable
<1>4. ASSUME NEW m \in Msgs, VerifyCompared(m) PROVE PairInv'
  BY <1>4 DEF VerifyCompared, Verifiable, CountFailure, Unlocked
<1>5. ASSUME NEW m \in Msgs, IssueCode(m) PROVE PairInv'
  BY <1>5 DEF IssueCode
<1>6. ASSUME NEW m \in Msgs, NotifySender(m) PROVE PairInv'
  BY <1>6 DEF NotifySender
<1>7. ASSUME NEW m \in Msgs, HandlerFails(m) PROVE PairInv'
  BY <1>7 DEF HandlerFails
<1>8. ASSUME NEW o \in Operators, ApproveFound(o) PROVE PairInv'
  BY <1>8 DEF ApproveFound
<1>9. ASSUME NEW o \in Operators, ClearCode(o) PROVE PairInv'
  BY <1>9 DEF ClearCode
<1>10. ASSUME NEW o \in Operators, FindByCode(o) \/ RequestFails(o)
       PROVE PairInv'
  BY <1>10 DEF FindByCode, RequestFails, handlerVars
<1>11. CASE CodeExpires \/ LockoutPasses \/ Approve \/ Reject
  BY <1>11 DEF CodeExpires, LockoutPasses, Approve, Reject, handlerVars
<1>12. CASE UNCHANGED vars
  BY <1>12 DEF vars, handlerVars
<1>13. QED
  BY <1>1, <1>2, <1>3, <1>4, <1>5, <1>6, <1>7, <1>8, <1>9, <1>10, <1>11,
     <1>12 DEF Next, Verify

\* The inductive invariant holds in every reachable state.
THEOREM Invariance == Spec => []IInv
<1>1. Init => IInv
  BY InitIInv
<1>2. IInv /\ [Next]_vars => IInv'
  BY TypeStep, GuessesStep, DeskStep, PairStep DEF IInv
<1>3. QED
  BY <1>1, <1>2, PTL DEF Spec

\* Failed attempts never exceed max_failed_attempts and the limit locks, in
\* verify_pairing_code under any interleaving of handlers.
THEOREM GuessesAreBounded == Spec => []GuessesBounded
<1>1. IInv => GuessesBounded
  BY DEF IInv
<1>2. QED
  BY <1>1, Invariance, PTL

\* A pending sender at rest has been sent the stored code, unless a call
\* failed or an operator had rejected the sender.
THEOREM PendingSendersCanPair == Spec => []PendingCanPair
<1>1. IInv => PendingCanPair
  BY DEF IInv, PairInv, PendingCanPair, Resting
<1>2. QED
  BY <1>1, Invariance, PTL

\* No step but a rejection takes an approval back.
THEOREM ApprovalsAreKept == Spec => ApprovalIsKept
<1> DEFINE Kept == entry.status = "approved" /\ entry'.status # "approved"
                     => entry'.status = "rejected"
<1>1. IInv /\ [Next]_vars => [Kept]_vars
  <2> SUFFICES ASSUME IInv, Next PROVE Kept
    OBVIOUS
  <2> USE DEF IInv, TypeOK
  <2>1. ASSUME NEW m \in Msgs, Register(m) PROVE Kept
    BY <2>1 DEF Register, Reregistered
  <2>2. ASSUME NEW m \in Msgs, VerifyCompared(m) PROVE Kept
    BY <2>2 DEF VerifyCompared, CountFailure, Unlocked
  <2>3. ASSUME NEW m \in Msgs, IssueCode(m) PROVE Kept
    BY <2>3 DEF IssueCode
  <2>4. ASSUME NEW o \in Operators, ApproveFound(o) \/ ClearCode(o) PROVE Kept
    BY <2>4 DEF ApproveFound, ClearCode
  <2>5. CASE LockoutPasses \/ Approve \/ Reject
    BY <2>5 DEF LockoutPasses, Approve, Reject
  <2>6. CASE UNCHANGED entry
    BY <2>6
  <2>7. QED
    BY <2>1, <2>2, <2>3, <2>4, <2>5, <2>6
    DEF Next, Verify, CodeExpires, Arrive, CheckAccess, VerifyRefused,
        VerifyExpired, NotifySender, HandlerFails, FindByCode, RequestFails
<1>2. QED
  BY <1>1, Invariance, PTL DEF Spec, ApprovalIsKept

-----------------------------------------------------------------------------
(* Conversation: the loop over the binding rules finds the first of those   *)
(* with the highest score, for any rules.                                   *)

\* A set of numbers that is not empty has a least element.
LEMMA LeastNumber ==
  ASSUME NEW T, T \subseteq Nat, T # {}
  PROVE  \E x \in T : \A y \in T : x <= y
<1> DEFINE R == {ss \in Nat \X Nat : ss[1] < ss[2]}
<1>1. IsWellFoundedOn(R, Nat)
  BY NatLessThanWellFounded DEF OpToRel
<1>2. \A x, y \in Nat : <<y, x>> \in R <=> y < x
  OBVIOUS
<1> HIDE DEF R
<1>3. PICK x \in T : \A y \in T : ~(<<y, x>> \in R)
  BY <1>1, WFMin
<1>4. ASSUME NEW y \in T PROVE x <= y
  <2>1. x \in Nat /\ y \in Nat /\ ~(y < x)
    BY <1>2, <1>3
  <2>2. QED  BY <2>1
<1>5. QED  BY <1>4

\* One round of the loop, and what the loop has computed after n rounds.
Round(s, i, best) == IF Better(s, i, best) THEN i ELSE best
IsBest(s, n, f) ==
  f = [i \in 0..n |-> IF i = 0 THEN 0 ELSE Round(s, i, f[i - 1])]

\* The loop runs to its end: there is such a function for every n.
LEMMA LoopRuns ==
  ASSUME NEW s, NEW n \in Nat
  PROVE  \E f : IsBest(s, n, f)
<1> DEFINE T == {k \in Nat : ~\E f : IsBest(s, k, f)}
<1>1. SUFFICES ASSUME T # {} PROVE FALSE
  OBVIOUS
<1>2. PICK k \in T : \A j \in T : k <= j
  <2> HIDE DEF T
  <2>1. T \subseteq Nat
    BY DEF T
  <2>2. QED  BY <1>1, <2>1, LeastNumber
<1>3. k # 0
  <2>1. IsBest(s, 0, [i \in 0..0 |-> 0])
    BY DEF IsBest
  <2>2. QED  BY <1>2, <2>1
<1>4. PICK f : IsBest(s, k - 1, f)
  BY <1>2, <1>3
<1> DEFINE g == [i \in 0..k |-> IF i < k THEN f[i] ELSE Round(s, k, f[k - 1])]
<1>5. ASSUME NEW i \in 0..k
      PROVE  g[i] = IF i = 0 THEN 0 ELSE Round(s, i, g[i - 1])
  <2>1. k \in Nat /\ k - 1 \in Nat
    BY <1>2, <1>3
  <2>2. CASE i < k
    <3>1. i \in 0..(k - 1) /\ g[i] = f[i] /\ (i # 0 => g[i - 1] = f[i - 1])
      BY <2>1, <2>2
    <3>2. f[i] = IF i = 0 THEN 0 ELSE Round(s, i, f[i - 1])
      BY <1>4, <3>1 DEF IsBest
    <3>3. QED  BY <3>1, <3>2
  <2>3. CASE i = k
    <3>1. g[i] = Round(s, k, f[k - 1]) /\ g[k - 1] = f[k - 1]
      BY <2>1, <2>3
    <3>2. QED  BY <1>3, <2>3, <3>1
  <2>4. QED  BY <2>1, <2>2, <2>3
<1>6. g = [i \in 0..k |-> g[i]]
  OBVIOUS
<1> HIDE DEF g
<1>7. IsBest(s, k, g)
  BY <1>5, <1>6 DEF IsBest
<1>8. QED  BY <1>2, <1>7

\* BestUpTo satisfies its own recursion.
LEMMA BestUpToRule ==
  ASSUME NEW s
  PROVE  IsBest(s, Len(Bindings), BestUpTo(s))
<1>1. Len(Bindings) \in Nat
  BY ConversationAssumption
<1>2. PICK f : IsBest(s, Len(Bindings), f)
  BY <1>1, LoopRuns
<1>3. BestUpTo(s) = CHOOSE best : IsBest(s, Len(Bindings), best)
  BY DEF BestUpTo, IsBest, Round
<1>4. QED  BY <1>2, <1>3

\* A score is a number.
LEMMA ScoreIsNat == ASSUME NEW i \in DOMAIN Bindings PROVE Score(Bindings[i]) \in Nat
  BY DEF Score, Worth

\* After i rounds the loop holds the first of the best among the first i rules.
FirstBest(s, i, best) ==
  LET matching == {j \in 1..i : s \in Bindings[j].peers} IN
  IF best = 0 THEN matching = {}
  ELSE /\ best \in matching
       /\ \A j \in matching :
            /\ Score(Bindings[j]) <= Score(Bindings[best])
            /\ j < best => Score(Bindings[j]) < Score(Bindings[best])

\* One round keeps the first of the best among the rules seen so far.
LEMMA LoopKeepsFirstBest ==
  ASSUME NEW s, NEW i \in DOMAIN Bindings, NEW best, FirstBest(s, i - 1, best)
  PROVE  FirstBest(s, i, Round(s, i, best))
<1>1. i \in Nat \ {0} /\ DOMAIN Bindings = 1..Len(Bindings) /\ Len(Bindings) \in Nat
  BY ConversationAssumption
<1> DEFINE score(j) == Score(Bindings[j])
           fits(j) == s \in Bindings[j].peers
<1>2. \A j \in 1..i : score(j) \in Nat
  BY <1>1, ScoreIsNat
<1>3. \A j \in 1..i : j = i \/ j \in 1..(i - 1)
  BY <1>1
<1>4. CASE best = 0
  <2>1. \A j \in 1..(i - 1) : ~fits(j)
    BY <1>4 DEF FirstBest
  <2>2. CASE fits(i)
    <3>1. Round(s, i, best) = i
      BY <1>4, <2>2 DEF Round, Better
    <3>2. \A j \in 1..i : fits(j) => j = i
      BY <1>3, <2>1
    <3>3. i \in 1..i /\ i # 0 /\ score(i) <= score(i)
      BY <1>1, <1>2
    <3>4. QED  BY <2>2, <3>1, <3>2, <3>3, <1>1 DEF FirstBest
  <2>3. CASE ~fits(i)
    <3>1. Round(s, i, best) = 0
      BY <1>4, <2>3 DEF Round, Better
    <3>2. QED  BY <1>3, <2>1, <2>3, <3>1 DEF FirstBest
  <2>4. QED  BY <2>2, <2>3
<1>5. CASE best # 0
  <2>1. /\ best \in 1..(i - 1) /\ fits(best)
        /\ \A j \in 1..(i - 1) : fits(j) =>
             score(j) <= score(best) /\ (j < best => score(j) < score(best))
    BY <1>5 DEF FirstBest
  <2>2. best \in 1..i /\ best < i
    BY <1>1, <2>1
  <2>3. CASE Better(s, i, best)
    <3>1. Round(s, i, best) = i /\ fits(i) /\ score(i) > score(best)
      BY <1>5, <2>3 DEF Round, Better
    <3>2. \A j \in 1..i : fits(j) =>
             score(j) <= score(i) /\ (j < i => score(j) < score(i))
      <4>1. SUFFICES ASSUME NEW j \in 1..(i - 1), fits(j) PROVE score(j) < score(i)
        BY <1>1, <1>2, <1>3
      <4>2. score(j) <= score(best) /\ score(i) > score(best)
        BY <2>1, <3>1, <4>1
      <4>3. score(j) \in Nat /\ score(i) \in Nat /\ score(best) \in Nat
        BY <1>1, <1>2, <2>2
      <4> HIDE DEF score
      <4>4. QED  BY <4>2, <4>3
    <3>3. i \in 1..i /\ i # 0
      BY <1>1
    <3>4. QED  BY <3>1, <3>2, <3>3 DEF FirstBest
  <2>4. CASE ~Better(s, i, best)
    <3>1. Round(s, i, best) = best /\ (fits(i) => ~(score(i) > score(best)))
      BY <1>5, <2>4 DEF Round, Better
    <3>2. fits(i) => score(i) <= score(best) /\ ~(i < best)
      <4>1. score(i) \in Nat /\ score(best) \in Nat
        BY <1>1, <1>2, <2>2
      <4>2. best \in Nat /\ i \in Nat /\ ~(i < best)
        BY <1>1, <2>2
      <4> HIDE DEF score
      <4>3. QED  BY <3>1, <4>1, <4>2
    <3>3. QED  BY <1>3, <1>5, <2>1, <2>2, <3>1, <3>2 DEF FirstBest
  <2>5. QED  BY <2>3, <2>4
<1>6. QED  BY <1>4, <1>5

\* After n rounds the loop holds the first of the best of n rules.
LEMMA LoopFindsFirstBest ==
  ASSUME NEW s
  PROVE  FirstBest(s, Len(Bindings), BestUpTo(s)[Len(Bindings)])
<1> DEFINE n == Len(Bindings)
           f == BestUpTo(s)
           T == {k \in 0..n : ~FirstBest(s, k, f[k])}
<1>1. n \in Nat /\ DOMAIN Bindings = 1..n
  BY ConversationAssumption
<1>2. /\ f[0] = 0
      /\ \A k \in 1..n : f[k] = Round(s, k, f[k - 1])
  <2> HIDE DEF f
  <2>1. f = [i \in 0..n |-> IF i = 0 THEN 0 ELSE Round(s, i, f[i - 1])]
    BY BestUpToRule DEF IsBest, f
  <2> HIDE DEF n
  <2>2. \A i \in 0..n : f[i] = IF i = 0 THEN 0 ELSE Round(s, i, f[i - 1])
    BY <2>1
  <2>3. QED  BY <1>1, <2>2
<1> HIDE DEF f
<1>3. FirstBest(s, 0, f[0])
  BY <1>2 DEF FirstBest
<1>4. SUFFICES ASSUME T # {} PROVE FALSE
  BY <1>1 DEF f
<1>5. PICK k \in T : \A j \in T : k <= j
  <2>1. T \subseteq Nat
    BY <1>1
  <2> HIDE DEF T
  <2>2. QED  BY <1>4, <2>1, LeastNumber
<1>6. k \in 1..n /\ k - 1 \in 0..n /\ k - 1 < k
  BY <1>1, <1>3, <1>5
<1>7. FirstBest(s, k - 1, f[k - 1])
  BY <1>1, <1>5, <1>6
<1>8. FirstBest(s, k, f[k])
  BY <1>1, <1>2, <1>6, <1>7, LoopKeepsFirstBest
<1>9. QED  BY <1>5, <1>8

\* resolve_binding returns the first of the best rules, for any list of rules.
THEOREM BindingsResolveToTheBest ==
  \A s : ResolveBinding(s) = BestBinding(s)
<1> SUFFICES ASSUME NEW s PROVE ResolveBinding(s) = BestBinding(s)
  OBVIOUS
<1> DEFINE n == Len(Bindings)
           best == BestUpTo(s)[n]
           matching == {i \in DOMAIN Bindings : s \in Bindings[i].peers}
           top == {i \in matching : \A j \in matching :
                     Score(Bindings[j]) <= Score(Bindings[i])}
<1>1. n \in Nat /\ DOMAIN Bindings = 1..n
  BY ConversationAssumption
<1>2. FirstBest(s, n, best)
  BY LoopFindsFirstBest
<1> HIDE DEF best
<1>3. ResolveBinding(s) = IF best = 0 THEN Fallback ELSE Bindings[best].agent
  BY DEF ResolveBinding, best
<1>4. BestBinding(s) = IF top = {} THEN Fallback ELSE Bindings[Min(top)].agent
  BY DEF BestBinding
<1>5. CASE best = 0
  <2>1. top = {}
    BY <1>1, <1>2, <1>5 DEF FirstBest
  <2>2. QED  BY <1>3, <1>4, <1>5, <2>1
<1>6. CASE best # 0
  <2>1. /\ best \in matching
        /\ \A j \in matching : /\ Score(Bindings[j]) <= Score(Bindings[best])
                               /\ j < best => Score(Bindings[j]) < Score(Bindings[best])
    BY <1>1, <1>2, <1>6 DEF FirstBest
  <2>2. \A j \in matching : j \in Nat /\ Score(Bindings[j]) \in Nat
    BY <1>1, ScoreIsNat
  <2>3. best \in top
    BY <2>1
  <2>4. ASSUME NEW j \in top PROVE j \in Nat /\ best <= j
    <3>1. j \in matching /\ Score(Bindings[best]) <= Score(Bindings[j])
      BY <2>1
    <3>2. ~(j < best)
      <4> DEFINE x == Score(Bindings[best])
                 y == Score(Bindings[j])
      <4>1. x \in Nat /\ y \in Nat /\ x <= y /\ (j < best => y < x)
        BY <2>1, <2>2, <3>1
      <4> HIDE DEF x, y
      <4>2. QED  BY <4>1
    <3>3. QED  BY <2>1, <2>2, <3>1, <3>2
  <2> HIDE DEF top, matching
  <2>5. Min(top) = best
    <3>1. \A x \in top : (\A y \in top : x =< y) => x = best
      <4>1. SUFFICES ASSUME NEW x \in top, \A y \in top : x =< y PROVE x = best
        OBVIOUS
      <4>2. x \in Nat /\ best \in Nat /\ best <= x /\ x <= best
        BY <2>3, <2>4, <4>1
      <4>3. QED  BY <4>2
    <3>2. best \in top /\ \A y \in top : best =< y
      BY <2>3, <2>4
    <3>3. QED  BY <3>1, <3>2 DEF Min
  <2>6. QED  BY <1>3, <1>4, <1>6, <2>3, <2>5
<1>7. QED  BY <1>5, <1>6

-----------------------------------------------------------------------------
(* Conversation: bags.                                                      *)

LEMMA TakenCopies ==
  ASSUME NEW b, IsABag(b), NEW T
  PROVE  LET B == b (-) SetToBag(T) IN
         /\ IsABag(B)
         /\ \A e : e \in DOMAIN B <=> e \in DOMAIN b /\ (e \in T => b[e] > 1)
         /\ \A e \in DOMAIN B : B[e] = IF e \in T THEN b[e] - 1 ELSE b[e]
<1> DEFINE copies == [e \in DOMAIN b |-> IF e \in T THEN b[e] - 1 ELSE b[e]]
           left == [e \in {d \in DOMAIN copies : copies[d] > 0} |-> copies[e]]
<1>1. b (-) SetToBag(T) = left
  BY DEF (-), SetToBag
<1>2. \A e \in DOMAIN b : b[e] \in Nat /\ b[e] > 0
  BY DEF IsABag
<1>3. \A e : e \in DOMAIN left <=> e \in DOMAIN b /\ (e \in T => b[e] > 1)
  BY <1>2
<1>4. \A e \in DOMAIN left : left[e] = IF e \in T THEN b[e] - 1 ELSE b[e]
  OBVIOUS
<1>5. IsABag(left)
  <2>1. \A e \in DOMAIN left : left[e] \in Nat /\ left[e] > 0
    BY <1>2, <1>3, <1>4
  <2>2. left = [e \in DOMAIN left |-> left[e]]
    OBVIOUS
  <2> HIDE DEF left
  <2>3. QED  BY <2>1, <2>2 DEF IsABag
<1>6. QED  BY <1>1, <1>3, <1>4, <1>5

\* One more copy of each member of T.
LEMMA AddedCopies ==
  ASSUME NEW b, IsABag(b), NEW T
  PROVE  LET B == b (+) SetToBag(T) IN
         /\ IsABag(B)
         /\ DOMAIN B = DOMAIN b \cup T
         /\ \A e \in DOMAIN b : B[e] = IF e \in T THEN b[e] + 1 ELSE b[e]
         /\ \A e \in T : e \notin DOMAIN b => B[e] = 1
<1> DEFINE B == [e \in DOMAIN b \cup T |-> (IF e \in DOMAIN b THEN b[e] ELSE 0)
                                            + (IF e \in T THEN 1 ELSE 0)]
<1>1. b (+) SetToBag(T) = B
  BY DEF (+), SetToBag
<1>2. \A e \in DOMAIN b : b[e] \in Nat /\ b[e] > 0
  BY DEF IsABag
<1>3. \A e \in DOMAIN b : B[e] = IF e \in T THEN b[e] + 1 ELSE b[e]
  BY <1>2
<1>4. \A e \in T : e \notin DOMAIN b => B[e] = 1
  OBVIOUS
<1>5. DOMAIN B = DOMAIN b \cup T
  OBVIOUS
<1>6. IsABag(B)
  <2>1. \A e \in DOMAIN B : B[e] \in Nat /\ B[e] > 0
    BY <1>2, <1>3, <1>4, <1>5
  <2>2. B = [e \in DOMAIN B |-> B[e]]
    OBVIOUS
  <2> HIDE DEF B
  <2>3. QED  BY <2>1, <2>2 DEF IsABag
<1>7. QED  BY <1>1, <1>3, <1>4, <1>5, <1>6

\* Two sets of messages added, one after the other.
LEMMA AddedTwice ==
  ASSUME NEW b, IsABag(b), NEW H, NEW P
  PROVE  LET D == b (+) SetToBag(H) (+) SetToBag(P) IN
         /\ IsABag(D)
         /\ DOMAIN D = DOMAIN b \cup H \cup P
         /\ \A e \in DOMAIN b : e \notin H \cup P => D[e] = b[e]
<1> DEFINE C == b (+) SetToBag(H)
           D == C (+) SetToBag(P)
<1>1. /\ IsABag(C)
      /\ DOMAIN C = DOMAIN b \cup H
      /\ \A e \in DOMAIN b : C[e] = IF e \in H THEN b[e] + 1 ELSE b[e]
      /\ \A e \in H : e \notin DOMAIN b => C[e] = 1
  BY AddedCopies
<1> HIDE DEF C
<1>2. /\ IsABag(D)
      /\ DOMAIN D = DOMAIN C \cup P
      /\ \A e \in DOMAIN C : D[e] = IF e \in P THEN C[e] + 1 ELSE C[e]
      /\ \A e \in P : e \notin DOMAIN C => D[e] = 1
  BY <1>1, AddedCopies
<1> HIDE DEF D
<1>3. /\ IsABag(D)
      /\ DOMAIN D = DOMAIN b \cup H \cup P
      /\ \A e \in DOMAIN b : e \notin H \cup P => D[e] = b[e]
  BY <1>1, <1>2
<1>4. QED  BY <1>3 DEF C, D

\* A mention names an agent of the configuration.
LEMMA NamedIsAgent ==
  ASSUME NEW m, m.mention \in Agents \cup {Team, None}
  PROVE  Named(m) \in Agents \cup {Default} /\ (Explicit(m) => Named(m) \in Agents)
  BY ConversationAssumption DEF Named, Explicit

\* A route ends at an agent of the configuration.
LEMMA ConfiguredIsAgent == ASSUME NEW a PROVE Configured(a) \in Agents
  BY ConversationAssumption DEF Configured

\* Routing chooses one, whatever comes first,
LEMMA RouteFromIsAgent ==
  ASSUME NEW m \in Message, NEW first \in Agents \cup {Default}
  PROVE  RouteFrom(m, first) \in Agents
<1>1. Configured(ResolveBinding(m.sender)) \in Agents
  BY ConfiguredIsAgent
<1>2. m.forced \in Agents \cup {None}
  BY DEF Message
<1>3. QED  BY <1>1, <1>2 DEF RouteFrom

\* affinity, bindings and address taken together.
LEMMA RouteIsAgent ==
  ASSUME NEW m \in Message, affinity \in [Senders -> Agents \cup {None}],
         ~m.room => m.sender \in Senders
  PROVE  RouteOf(m) \in Agents
<1>1. Named(m) \in Agents \cup {Default}
  BY NamedIsAgent DEF Message
<1> DEFINE first == IF Asks(m) /\ affinity[m.sender] # None
                    THEN affinity[m.sender] ELSE Named(m)
<1>2. first \in Agents \cup {Default}
  BY <1>1 DEF Asks
<1> HIDE DEF first
<1>3. RouteFrom(m, first) \in Agents
  BY <1>2, RouteFromIsAgent
<1>4. QED  BY <1>3 DEF RouteOf, first

-----------------------------------------------------------------------------
(* Conversation: one message takes a step.                                  *)

\* RightAgentRuns for one message.
Right(m) == m.step # "queued" =>
  /\ m.forced # None => m.agent = m.forced
  /\ m.forced = None /\ Explicit(m) => m.agent = Named(m)
  /\ m.want # None /\ m.tries = 0 => m.agent = m.want \/ m.unread

\* One copy of m goes, the messages `after` come for it, and it leaves `new`.
Moved(m, after, new) ==
  /\ m \in DOMAIN open
  /\ IsABag(open')
  /\ \A e \in DOMAIN open' : e \in DOMAIN open \/ e \in after \/ e \in new
  /\ \A e \in DOMAIN open : e # m => e \in DOMAIN open'
  /\ open[m] = 1 /\ m \notin after /\ m \notin new => m \notin DOMAIN open'
  /\ \A e \in DOMAIN open : e # m /\ e \notin after /\ e \notin new => open'[e] = open[e]
  /\ \A e \in after : e \notin DOMAIN open /\ e \notin new => open'[e] = 1

\* m at a later step: it is not queued for the first time any more.
LaterForm(m, n) ==
  /\ n \in Message /\ Right(n)
  /\ n.sender = m.sender /\ n.room = m.room /\ n.mention = m.mention
  /\ n.forced = m.forced /\ n.want = m.want
  /\ n # m
  /\ IF n.step = "queued" THEN n.tries # 0 ELSE n.agent \in Agents

\* An addressed message of an agent or on behalf of the sender of m.
CausedBy(m, x) ==
  /\ x \in Message
  /\ x.mention = None /\ x.forced # None /\ x.want = None /\ x.step = "queued"
  /\ x.room <=> x.sender \in Agents
  /\ x.sender = m.sender \/ x.sender \in Agents

MovedRight(m, after, new) ==
  /\ Moved(m, after, new)
  /\ \A n \in after : LaterForm(m, n)
  /\ \A x, y \in after : x = y
  /\ \A x \in new : CausedBy(m, x)
  /\ \A s \in Senders : s # m.sender => affinity'[s] = affinity[s] /\ chosen'[s] = chosen[s]
  /\ \A s \in Senders : chosen[s] = Team => chosen'[s] = Team

\* A move keeps the open messages typed,
LEMMA MoveIsTyped ==
  ASSUME ConversationInv, NEW m, NEW after, NEW new, MovedRight(m, after, new)
  PROVE  IsABag(open') /\ BagToSet(open') \subseteq Message
  BY DEF MovedRight, Moved, LaterForm, CausedBy, ConversationInv, ConversationTypeOK, BagToSet

\* keeps internal messages addressed, and addressed ones without a mention,
LEMMA MoveKeepsAddress ==
  ASSUME ConversationInv, NEW m, NEW after, NEW new, MovedRight(m, after, new)
  PROVE  AddressInv'
<1>1. SUFFICES ASSUME NEW e \in DOMAIN open'
               PROVE  /\ e.room <=> e.sender \in Agents
                      /\ e.room => e.forced # None
                      /\ e.forced # None => e.mention = None
                      /\ e.step # "queued" => e.agent \in Agents
  BY DEF AddressInv, BagToSet
<1>2. CASE e \in DOMAIN open
  BY <1>2 DEF ConversationInv, AddressInv, BagToSet
<1>3. CASE e \in after
  <2>1. /\ m.room <=> m.sender \in Agents
        /\ m.room => m.forced # None
        /\ m.forced # None => m.mention = None
    BY DEF MovedRight, Moved, ConversationInv, AddressInv, BagToSet
  <2>2. LaterForm(m, e)
    BY <1>3 DEF MovedRight
  <2>3. QED  BY <2>1, <2>2 DEF LaterForm
<1>4. CASE e \in new
  BY <1>4 DEF MovedRight, CausedBy
<1>5. QED  BY <1>1, <1>2, <1>3, <1>4 DEF MovedRight, Moved

\* and keeps the right agent for every message past its routing.
LEMMA MoveKeepsRight ==
  ASSUME ConversationInv, NEW m, NEW after, NEW new, MovedRight(m, after, new)
  PROVE  RightAgentRuns'
<1>1. SUFFICES ASSUME NEW e \in DOMAIN open' PROVE Right(e)
  BY DEF RightAgentRuns, Right, Explicit, Named, BagToSet
<1>2. CASE e \in DOMAIN open
  BY <1>2 DEF ConversationInv, RightAgentRuns, Right, BagToSet
<1>3. CASE e \in after
  BY <1>3 DEF MovedRight, LaterForm
<1>4. CASE e \in new
  BY <1>4 DEF MovedRight, CausedBy, Right
<1>5. QED  BY <1>2, <1>3, <1>4 DEF MovedRight, Moved

\* A message somebody in particular ought to answer has its sender to itself.
LEMMA MoveKeepsWant ==
  ASSUME ConversationInv, NEW m, NEW after, NEW new, MovedRight(m, after, new)
  PROVE  WantInv'
<1> USE DEF BagToSet
<1>1. SUFFICES ASSUME NEW e \in DOMAIN open', e.step = "queued", e.want # None,
                      e.tries = 0
               PROVE  e.forced = None /\ Single(e)' /\ RouteOf(e)' = e.want
  BY DEF WantInv
<1>2. e \notin after /\ e \notin new
  BY <1>1 DEF MovedRight, LaterForm, CausedBy
<1>3. e \in DOMAIN open
  BY <1>2 DEF MovedRight, Moved
<1>4. /\ e.forced = None /\ open[e] = 1 /\ RouteOf(e) = e.want
      /\ \A n \in DOMAIN open : n.sender = e.sender => n = e
  BY <1>1, <1>3 DEF ConversationInv, WantInv, Single
<1>5. e # m
  BY <1>1, <1>2, <1>4 DEF MovedRight, Moved
<1>6. m \in DOMAIN open /\ m.sender # e.sender
  BY <1>4, <1>5 DEF MovedRight, Moved
<1>7. ~e.room /\ e.sender \in Senders /\ e.sender \notin Agents
  <2>1. e \in Message /\ ~e.room
    BY <1>3, <1>4 DEF ConversationInv, ConversationTypeOK, AddressInv
  <2>2. QED
    BY <1>3, <2>1 DEF ConversationInv, AddressInv, Message
<1>8. Single(e)'
  <2>1. open'[e] = 1
    BY <1>2, <1>3, <1>4, <1>5 DEF MovedRight, Moved
  <2>2. ASSUME NEW n \in DOMAIN open', n.sender = e.sender PROVE n = e
    <3>1. n \notin after /\ n \notin new
      BY <1>6, <1>7, <2>2 DEF MovedRight, LaterForm, CausedBy
    <3>2. QED  BY <1>4, <2>2, <3>1 DEF MovedRight, Moved
  <2>3. QED  BY <2>1, <2>2 DEF Single
<1>9. RouteOf(e)' = RouteOf(e)
  <2>1. affinity'[e.sender] = affinity[e.sender]
    BY <1>6, <1>7 DEF MovedRight
  <2>2. QED  BY <2>1 DEF RouteOf
<1>10. QED  BY <1>4, <1>8, <1>9

\* A mention of s: open, by s itself, and fresh before its first routing.
LEMMA MentionsAreOf ==
  ASSUME NEW s, NEW e, e \in Mentions(s)
  PROVE  /\ e \in DOMAIN open /\ e.sender = s /\ ~e.room /\ Explicit(e)
         /\ e \in Fresh(s) <=> e.step = "queued" /\ e.tries = 0
  BY DEF Mentions, Fresh, BagToSet

\* As long as they did not race, the mentions of a sender stay one at most.
LEMMA MoveKeepsMentions ==
  ASSUME ConversationInv, NEW m, NEW after, NEW new, MovedRight(m, after, new),
         NEW s \in Senders, chosen[s] # Team
  PROVE  /\ \A x, y \in Mentions(s)' : x = y /\ open'[x] = 1
         /\ Fresh(s)' = Fresh(s) \ {m}
<1> USE DEF BagToSet
<1>1. \A x, y \in Mentions(s) : x = y /\ open[x] = 1
  BY DEF ConversationInv, ChosenInv
<1>2. \A e \in new : ~Explicit(e)
  BY ConversationAssumption DEF MovedRight, CausedBy, Explicit, Named
<1>3. m \in DOMAIN open /\ \A n \in after : LaterForm(m, n) /\ n # m
  BY DEF MovedRight, Moved, LaterForm
<1>4. ASSUME NEW n \in after
      PROVE  /\ n.sender = m.sender /\ n.room = m.room
             /\ Explicit(n) <=> Explicit(m)
  BY <1>3 DEF LaterForm, Explicit, Named
<1>5. ASSUME NEW e, e \in Mentions(s)'
      PROVE  /\ e \in DOMAIN open' /\ e.sender = s /\ ~e.room /\ Explicit(e)
             /\ e \notin new /\ e # m
             /\ e \in Mentions(s) \/ (e \in after /\ m \in Mentions(s))
  <2>1. e \in DOMAIN open' /\ e.sender = s /\ ~e.room /\ Explicit(e)
    BY <1>5 DEF Mentions, Explicit, Named
  <2>2. e \notin new
    BY <1>2, <2>1
  <2>3. e \in Mentions(s) \/ (e \in after /\ m \in Mentions(s))
    BY <1>3, <1>4, <2>1, <2>2 DEF MovedRight, Moved, Mentions
  <2>4. e # m
    BY <1>1, <1>3, <2>1, <2>2, <2>3 DEF MovedRight, Moved
  <2>5. QED  BY <2>1, <2>2, <2>3, <2>4
<1>6. ASSUME NEW x, x \in Mentions(s)', NEW y, y \in Mentions(s)' PROVE x = y
  BY <1>1, <1>3, <1>4, <1>5, <1>6 DEF MovedRight
<1>7. ASSUME NEW x, x \in Mentions(s)' PROVE open'[x] = 1
  <2>1. CASE x \in after
    <3>1. m \in Mentions(s)
      BY <1>3, <1>4, <1>5, <1>7, <2>1 DEF Mentions
    <3>2. x \notin DOMAIN open
      <4>1. x \in DOMAIN open => x \in Mentions(s)
        BY <1>5, <1>7 DEF Mentions
      <4>2. QED  BY <1>1, <1>5, <1>7, <3>1, <4>1
    <3>3. QED  BY <1>5, <1>7, <2>1, <3>2 DEF MovedRight, Moved
  <2>2. CASE x \notin after
    <3>1. x \in Mentions(s) /\ x \in DOMAIN open
      BY <1>5, <1>7, <2>2, MentionsAreOf
    <3>2. QED  BY <1>1, <1>5, <1>7, <2>2, <3>1 DEF MovedRight, Moved
  <2>3. QED  BY <2>1, <2>2
<1>8. Fresh(s)' = Fresh(s) \ {m}
  <2>1. ASSUME NEW e, e \in Fresh(s)' PROVE e \in Fresh(s) \ {m}
    <3>1. e \in Mentions(s)' /\ e.step = "queued" /\ e.tries = 0
      BY <2>1 DEF Fresh
    <3>2. e \notin after
      BY <1>3, <3>1 DEF LaterForm
    <3>3. QED  BY <1>5, <3>1, <3>2 DEF Fresh
  <2>2. ASSUME NEW e, e \in Fresh(s), e # m PROVE e \in Fresh(s)'
    <3>1. e \in Mentions(s) /\ e.step = "queued" /\ e.tries = 0
      BY <2>2 DEF Fresh
    <3>2. e \in DOMAIN open'
      BY <2>2, <3>1, MentionsAreOf DEF MovedRight, Moved
    <3>3. e \in Mentions(s)'
      BY <3>1, <3>2 DEF Mentions, Explicit, Named
    <3>4. QED  BY <3>1, <3>3 DEF Fresh
  <2>3. QED  BY <2>1, <2>2
<1>9. QED  BY <1>6, <1>7, <1>8

\* A message that is settled is a move to nothing.
LEMMA WithoutMoves ==
  ASSUME ConversationInv, NEW m \in DOMAIN open, open' = Without(m)
  PROVE  Moved(m, {}, {})
<1>1. IsABag(open)
  BY DEF ConversationInv, ConversationTypeOK
<1> DEFINE B == open (-) SetToBag({m})
<1>2. /\ IsABag(B)
      /\ \A e : e \in DOMAIN B <=> e \in DOMAIN open /\ (e \in {m} => open[e] > 1)
      /\ \A e \in DOMAIN B : B[e] = IF e \in {m} THEN open[e] - 1 ELSE open[e]
  BY <1>1, TakenCopies
<1>3. open' = B
  BY DEF Without
<1> HIDE DEF B
<1>4. QED  BY <1>2, <1>3 DEF Moved

\* The open messages once one copy of m became n.
LEMMA ReplacedMoves ==
  ASSUME ConversationInv, NEW m \in DOMAIN open, NEW n, n # m
  PROVE  LET B == Replaced(m, n) IN
         /\ IsABag(B)
         /\ \A e \in DOMAIN B : e \in DOMAIN open \/ e = n
         /\ \A e \in DOMAIN open : e # m => e \in DOMAIN B
         /\ open[m] = 1 => m \notin DOMAIN B
         /\ \A e \in DOMAIN open : e # m /\ e # n => B[e] = open[e]
         /\ n \in DOMAIN B
         /\ n \notin DOMAIN open => B[n] = 1
<1>1. IsABag(open)
  BY DEF ConversationInv, ConversationTypeOK
<1> DEFINE left == open (-) SetToBag({m})
           B == left (+) SetToBag({n})
<1>2. /\ IsABag(left)
      /\ \A e : e \in DOMAIN left <=> e \in DOMAIN open /\ (e \in {m} => open[e] > 1)
      /\ \A e \in DOMAIN left : left[e] = IF e \in {m} THEN open[e] - 1 ELSE open[e]
  BY <1>1, TakenCopies
<1> HIDE DEF left
<1>3. /\ IsABag(B)
      /\ DOMAIN B = DOMAIN left \cup {n}
      /\ \A e \in DOMAIN left : B[e] = IF e \in {n} THEN left[e] + 1 ELSE left[e]
      /\ \A e \in {n} : e \notin DOMAIN left => B[e] = 1
  BY <1>2, AddedCopies
<1>4. Replaced(m, n) = B
  BY DEF Replaced, left
<1> HIDE DEF B
<1>5. open[m] = 1 => m \notin DOMAIN B
  BY <1>2, <1>3
<1>6. QED  BY <1>2, <1>3, <1>4, <1>5

\* A message that goes on alone is a move to its later form.
LEMMA OneMoves ==
  ASSUME ConversationInv, NEW m \in DOMAIN open, NEW n, n # m,
         open' = Replaced(m, n)
  PROVE  Moved(m, {n}, {})
<1> DEFINE B == Replaced(m, n)
<1>1. /\ IsABag(B)
      /\ \A e \in DOMAIN B : e \in DOMAIN open \/ e = n
      /\ \A e \in DOMAIN open : e # m => e \in DOMAIN B
      /\ open[m] = 1 => m \notin DOMAIN B
      /\ \A e \in DOMAIN open : e # m /\ e # n => B[e] = open[e]
      /\ n \in DOMAIN B
      /\ n \notin DOMAIN open => B[n] = 1
  BY ReplacedMoves
<1> HIDE DEF B
<1>2. open' = B
  BY DEF B
<1>3. QED  BY <1>1, <1>2 DEF Moved

\* A message that goes on with handoffs H and posts P is a move too.
LEMMA RelayMoves ==
  ASSUME ConversationInv, NEW m \in DOMAIN open, NEW n, n # m, NEW H, NEW P,
         open' = Replaced(m, n) (+) SetToBag(H) (+) SetToBag(P)
  PROVE  Moved(m, {n}, H \cup P)
<1> DEFINE B == Replaced(m, n)
<1>1. /\ IsABag(B)
      /\ \A e \in DOMAIN B : e \in DOMAIN open \/ e = n
      /\ \A e \in DOMAIN open : e # m => e \in DOMAIN B
      /\ open[m] = 1 => m \notin DOMAIN B
      /\ \A e \in DOMAIN open : e # m /\ e # n => B[e] = open[e]
      /\ n \in DOMAIN B
      /\ n \notin DOMAIN open => B[n] = 1
  BY ReplacedMoves
<1> HIDE DEF B
<1> DEFINE D == B (+) SetToBag(H) (+) SetToBag(P)
<1>2. open' = D
  BY DEF B
<1>3. IsABag(B)
  BY <1>1
<1>4. /\ IsABag(D)
      /\ DOMAIN D = DOMAIN B \cup H \cup P
      /\ \A e \in DOMAIN B : e \notin H \cup P => D[e] = B[e]
  BY <1>3, AddedTwice
<1> HIDE DEF D
<1>5. QED  BY <1>1, <1>2, <1>4 DEF Moved

\* What is left to show of a step of m is about its own sender.
LEMMA MoveKeepsInv ==
  ASSUME ConversationInv, NEW m, NEW after, NEW new, MovedRight(m, after, new),
         affinity' \in [Senders -> Agents \cup {None}],
         chosen' \in [Senders -> Agents \cup {Team, None}],
         {sent', posts'} \subseteq 0..MaxEvents, failures' \in 0..MaxFailures,
         \A s \in Senders : s = m.sender /\ chosen'[s] # Team =>
           /\ \A x \in Fresh(s) \ {m} : chosen'[s] = Named(x)
           /\ Fresh(s) \ {m} = {} => chosen'[s] = affinity'[s]
  PROVE  ConversationInv'
<1>1. ConversationTypeOK'
  BY MoveIsTyped DEF ConversationTypeOK
<1>2. AddressInv' /\ WantInv' /\ RightAgentRuns'
  BY MoveKeepsAddress, MoveKeepsWant, MoveKeepsRight
<1>3. ASSUME NEW s \in Senders, chosen'[s] # Team
      PROVE  /\ \A x, y \in Mentions(s)' : x = y /\ open'[x] = 1
             /\ \A x \in Fresh(s)' : chosen'[s] = Named(x)
             /\ Fresh(s)' = {} => chosen'[s] = affinity'[s]
  <2>1. chosen[s] # Team
    BY <1>3 DEF MovedRight
  <2>2. /\ \A x, y \in Mentions(s)' : x = y /\ open'[x] = 1
        /\ Fresh(s)' = Fresh(s) \ {m}
    BY <2>1, MoveKeepsMentions
  <2>3. CASE s = m.sender
    BY <1>3, <2>2, <2>3
  <2>4. CASE s # m.sender
    <3>1. \A x \in Fresh(s) : x.sender = s
      BY DEF Fresh, Mentions
    <3>2. Fresh(s)' = Fresh(s)
      BY <2>2, <2>4, <3>1
    <3>3. affinity'[s] = affinity[s] /\ chosen'[s] = chosen[s]
      BY <2>4 DEF MovedRight
    <3>4. QED  BY <1>3, <2>1, <2>2, <3>2, <3>3 DEF ConversationInv, ChosenInv
  <2>5. QED  BY <2>3, <2>4
<1>4. ChosenInv'
  <2>1. \A s \in Senders : chosen'[s] # Team =>
          /\ \A x, y \in Mentions(s)' : x = y /\ open'[x] = 1
          /\ \A x \in Fresh(s)' : chosen'[s] = Named(x)
          /\ Fresh(s)' = {} => chosen'[s] = affinity'[s]
    BY <1>3
  <2>2. QED  BY <2>1 DEF ChosenInv, Named
<1>5. QED  BY <1>1, <1>2, <1>4 DEF ConversationInv

\* What holds of an open message.
LEMMA OpenMessage ==
  ASSUME ConversationInv, NEW m \in DOMAIN open
  PROVE  /\ m \in Message /\ Right(m)
         /\ m.room <=> m.sender \in Agents
         /\ m.room => m.forced # None
         /\ m.forced # None => m.mention = None
         /\ m.step # "queued" => m.agent \in Agents
         /\ ~m.room => m.sender \in Senders
<1>1. m \in Message /\ Right(m)
  BY DEF ConversationInv, ConversationTypeOK, RightAgentRuns, Right, BagToSet
<1>2. /\ m.room <=> m.sender \in Agents
      /\ m.room => m.forced # None
      /\ m.forced # None => m.mention = None
      /\ m.step # "queued" => m.agent \in Agents
  BY DEF ConversationInv, AddressInv, BagToSet
<1>3. QED  BY <1>1, <1>2 DEF Message

\* The counters, and one event or failure more.
LEMMA CountersAreTyped ==
  ASSUME ConversationInv
  PROVE  /\ sent \in 0..MaxEvents /\ posts \in 0..MaxEvents
         /\ failures \in 0..MaxFailures
         /\ Events < MaxEvents => {sent + 1, posts + 1} \subseteq 0..MaxEvents
         /\ failures < MaxFailures => failures + 1 \in 0..MaxFailures
<1>1. /\ sent \in 0..MaxEvents /\ posts \in 0..MaxEvents
      /\ failures \in 0..MaxFailures /\ MaxEvents \in Nat /\ MaxFailures \in Nat
  BY ConversationAssumption DEF ConversationInv, ConversationTypeOK
<1>2. QED  BY <1>1 DEF Events

\* A message that is routed to a fitting agent is at a later step.
LEMMA RoutedIsLater ==
  ASSUME ConversationInv, NEW m \in DOMAIN open, m.step = "queued",
         NEW agent \in Agents, NEW unread \in BOOLEAN,
         m.forced # None => agent = m.forced,
         m.forced = None /\ Explicit(m) => agent = Named(m),
         m.want # None /\ m.tries = 0 => agent = m.want \/ unread
  PROVE  LaterForm(m, [Routed(m, agent) EXCEPT !.unread = unread])
<1> DEFINE n == [Routed(m, agent) EXCEPT !.unread = unread]
<1>1. m \in Message
  BY OpenMessage
<1>2. /\ n \in Message
      /\ n.sender = m.sender /\ n.room = m.room /\ n.mention = m.mention
      /\ n.forced = m.forced /\ n.want = m.want /\ n.step = "routed"
      /\ n.agent = agent /\ n.tries = m.tries /\ n.unread = unread
  BY <1>1 DEF Message, Routed
<1> HIDE DEF n
<1>3. (Explicit(n) <=> Explicit(m)) /\ Named(n) = Named(m)
  BY <1>2 DEF Explicit, Named
<1>4. Right(n)
  BY <1>2, <1>3 DEF Right
<1>5. LaterForm(m, n)
  BY <1>2, <1>4 DEF LaterForm
<1>6. QED  BY <1>5 DEF n

\* A message that is not marked as unread stays so.
LEMMA RoutedIsRead ==
  ASSUME NEW m \in Message, NEW agent
  PROVE  Routed(m, agent) = [Routed(m, agent) EXCEPT !.unread = m.unread]
         /\ m.unread \in BOOLEAN
  BY DEF Message, Routed

\* An address wins, then a mention; and whoever ought to answer would.
LEMMA RouteFits ==
  ASSUME ConversationInv, NEW m \in DOMAIN open, m.step = "queued"
  PROVE  /\ RouteOf(m) \in Agents
         /\ m.forced # None => RouteOf(m) = m.forced
         /\ Explicit(m) => m.forced = None /\ RouteOf(m) = Named(m)
         /\ m.want # None /\ m.tries = 0 => RouteOf(m) = m.want
<1>1. /\ m \in Message /\ ~m.room => m.sender \in Senders
      /\ m.forced # None => m.mention = None
  BY OpenMessage
<1>2. RouteOf(m) \in Agents
  BY <1>1, OpenMessage, RouteIsAgent DEF ConversationInv, ConversationTypeOK
<1>3. m.forced # None => RouteOf(m) = m.forced
  BY DEF RouteOf, RouteFrom
<1>4. Explicit(m) => m.forced = None /\ RouteOf(m) = Named(m)
  BY <1>1, ConversationAssumption DEF Explicit, Named, RouteOf, RouteFrom, Asks
<1>5. m.want # None /\ m.tries = 0 => RouteOf(m) = m.want
  BY DEF ConversationInv, WantInv, BagToSet
<1>6. QED  BY <1>2, <1>3, <1>4, <1>5

\* When the choice of m is undone, the sender's agent is the store's.
LEMMA UndoneIsTyped ==
  ASSUME ConversationInv, NEW m \in DOMAIN open
  PROVE  /\ Undone(m) \in [Senders -> Agents \cup {Team, None}]
         /\ \A s \in Senders : s # m.sender => Undone(m)[s] = chosen[s]
         /\ \A s \in Senders : chosen[s] = Team => Undone(m)[s] = Team
         /\ Chooses(m) /\ Undone(m)[m.sender] # Team
              => Undone(m)[m.sender] = affinity[m.sender]
         /\ ~Chooses(m) => Undone(m) = chosen
<1>1. affinity \in [Senders -> Agents \cup {None}]
      /\ chosen \in [Senders -> Agents \cup {Team, None}]
  BY DEF ConversationInv, ConversationTypeOK
<1>2. ~m.room => m.sender \in Senders
  BY OpenMessage
<1>3. CASE Chooses(m) /\ chosen[m.sender] # Team
  <2>1. Undone(m) = [chosen EXCEPT ![m.sender] = affinity[m.sender]]
    BY <1>3 DEF Undone
  <2>2. m.sender \in Senders
    BY <1>2, <1>3 DEF Chooses
  <2>3. QED  BY <1>1, <1>3, <2>1, <2>2
<1>4. CASE ~(Chooses(m) /\ chosen[m.sender] # Team)
  <2>1. Undone(m) = chosen
    BY <1>4 DEF Undone
  <2>2. QED  BY <1>1, <1>4, <2>1
<1>5. QED  BY <1>3, <1>4

\* A sender whose choice stands has no mention open but m, if m is one.
LEMMA OnlyMention ==
  ASSUME ConversationInv, NEW m \in DOMAIN open, NEW s \in Senders, s = m.sender,
         chosen[s] # Team
  PROVE  /\ Chooses(m) => Fresh(s) \ {m} = {}
         /\ Chooses(m) /\ m.step = "queued" /\ m.tries = 0 => chosen[s] = Named(m)
         /\ ~Chooses(m) => Fresh(s) \ {m} = Fresh(s)
         /\ \A x \in Fresh(s) : chosen[s] = Named(x)
         /\ Fresh(s) = {} => chosen[s] = affinity[s]
<1>1. /\ \A x, y \in Mentions(s) : x = y
      /\ \A x \in Fresh(s) : chosen[s] = Named(x)
      /\ Fresh(s) = {} => chosen[s] = affinity[s]
  BY DEF ConversationInv, ChosenInv
<1>2. Fresh(s) \subseteq Mentions(s)
  BY DEF Fresh
<1>3. Chooses(m) <=> m \in Mentions(s)
  BY DEF Mentions, Chooses, BagToSet
<1>4. Chooses(m) /\ m.step = "queued" /\ m.tries = 0 => m \in Fresh(s)
  BY <1>3 DEF Fresh
<1>5. QED  BY <1>1, <1>2, <1>3, <1>4

\* Routing keeps the invariant: the mention is remembered before the agent runs,
LEMMA RouteKeepsInv ==
  ASSUME ConversationInv, NEW m \in DOMAIN open, Route(m)
  PROVE  ConversationInv'
<1> DEFINE n == Routed(m, RouteOf(m))
<1>1. /\ m \in Message /\ m.step = "queued" /\ (~m.room => m.sender \in Senders)
      /\ (m.room => m.sender \in Agents)
  BY OpenMessage DEF Route
<1>2. affinity \in [Senders -> Agents \cup {None}]
      /\ chosen \in [Senders -> Agents \cup {Team, None}]
  BY DEF ConversationInv, ConversationTypeOK
<1>3. /\ RouteOf(m) \in Agents
      /\ m.forced # None => RouteOf(m) = m.forced
      /\ Explicit(m) => m.forced = None /\ RouteOf(m) = Named(m)
      /\ m.want # None /\ m.tries = 0 => RouteOf(m) = m.want
  BY <1>1, RouteFits
<1>4. Chooses(m) => Named(m) \in Agents
  BY <1>1, NamedIsAgent DEF Message, Chooses
<1>5. LaterForm(m, n)
  <2>1. n = [n EXCEPT !.unread = m.unread] /\ m.unread \in BOOLEAN
    BY <1>1, RoutedIsRead
  <2>2. LaterForm(m, [n EXCEPT !.unread = m.unread])
    BY <1>1, <1>3, <2>1, RoutedIsLater
  <2> HIDE DEF n
  <2>3. QED  BY <2>1, <2>2
<1>6. /\ Remember(m, RouteOf(m)) /\ open' = Replaced(m, n)
      /\ UNCHANGED <<sent, posts, failures>>
      /\ chosen' = IF m.tries > 0 /\ Chooses(m) /\ chosen[m.sender] # Team
                   THEN [chosen EXCEPT ![m.sender] = Named(m)] ELSE chosen
  BY DEF Route, counters
<1>7. n # m
  BY <1>5 DEF LaterForm
<1> HIDE DEF n
<1>8. Moved(m, {n}, {})
  BY <1>6, <1>7, OneMoves
<1>9. /\ affinity' \in [Senders -> Agents \cup {None}]
      /\ \A s \in Senders : s # m.sender => affinity'[s] = affinity[s]
      /\ Chooses(m) => affinity'[m.sender] = Named(m)
      /\ ~Chooses(m) => affinity' = affinity
  BY <1>1, <1>2, <1>3, <1>6 DEF Remember, Chooses
<1>10. /\ chosen' \in [Senders -> Agents \cup {Team, None}]
       /\ \A s \in Senders : s # m.sender => chosen'[s] = chosen[s]
       /\ \A s \in Senders : chosen[s] = Team => chosen'[s] = Team
  BY <1>1, <1>2, <1>4, <1>6
<1>11. MovedRight(m, {n}, {})
  BY <1>5, <1>8, <1>9, <1>10 DEF MovedRight
<1>12. ASSUME NEW s \in Senders, s = m.sender, chosen'[s] # Team
       PROVE  /\ \A x \in Fresh(s) \ {m} : chosen'[s] = Named(x)
              /\ Fresh(s) \ {m} = {} => chosen'[s] = affinity'[s]
  <2>1. chosen[s] # Team
    BY <1>10, <1>12
  <2>2. /\ Chooses(m) => Fresh(s) \ {m} = {}
        /\ Chooses(m) /\ m.tries = 0 => chosen[s] = Named(m)
        /\ ~Chooses(m) => Fresh(s) \ {m} = Fresh(s)
        /\ \A x \in Fresh(s) : chosen[s] = Named(x)
        /\ Fresh(s) = {} => chosen[s] = affinity[s]
    BY <1>1, <1>12, <2>1, OnlyMention
  <2>3. CASE Chooses(m)
    <3>1. m.tries = 0 \/ m.tries > 0
      BY <1>1, ConversationAssumption DEF Message
    <3>2. chosen'[s] = Named(m)
      BY <1>2, <1>6, <1>12, <2>1, <2>2, <2>3, <3>1
    <3>3. QED  BY <1>9, <1>12, <2>2, <2>3, <3>2
  <2>4. CASE ~Chooses(m)
    <3>1. affinity' = affinity /\ chosen' = chosen
      BY <1>6, <1>9, <2>4
    <3>2. QED  BY <2>2, <2>4, <3>1
  <2>5. QED  BY <2>3, <2>4
<1>13. /\ {sent', posts'} \subseteq 0..MaxEvents /\ failures' \in 0..MaxFailures
  BY <1>6 DEF ConversationInv, ConversationTypeOK
<1>14. QED
  <2>1. \A s \in Senders : s = m.sender /\ chosen'[s] # Team =>
           /\ \A x \in Fresh(s) \ {m} : chosen'[s] = Named(x)
           /\ Fresh(s) \ {m} = {} => chosen'[s] = affinity'[s]
    BY <1>12
  <2>2. QED  BY <1>9, <1>10, <1>11, <1>13, <2>1, MoveKeepsInv

\* A step that leaves the affinity alone and may undo the choice of m.
LEMMA UndoingMoveKeepsInv ==
  ASSUME ConversationInv, NEW m \in DOMAIN open, NEW after,
         Moved(m, after, {}),
         \A n \in after : LaterForm(m, n), \A x, y \in after : x = y,
         affinity' = affinity, chosen' = Undone(m),
         {sent', posts'} \subseteq 0..MaxEvents, failures' \in 0..MaxFailures
  PROVE  ConversationInv'
<1>1. /\ chosen' \in [Senders -> Agents \cup {Team, None}]
      /\ \A s \in Senders : s # m.sender => chosen'[s] = chosen[s]
      /\ \A s \in Senders : chosen[s] = Team => chosen'[s] = Team
      /\ Chooses(m) /\ chosen'[m.sender] # Team => chosen'[m.sender] = affinity[m.sender]
      /\ ~Chooses(m) => chosen' = chosen
  BY UndoneIsTyped
<1>2. MovedRight(m, after, {})
  BY <1>1 DEF MovedRight
<1>3. affinity' \in [Senders -> Agents \cup {None}]
  BY DEF ConversationInv, ConversationTypeOK
<1>4. ASSUME NEW s \in Senders, s = m.sender, chosen'[s] # Team
      PROVE  /\ \A x \in Fresh(s) \ {m} : chosen'[s] = Named(x)
             /\ Fresh(s) \ {m} = {} => chosen'[s] = affinity'[s]
  <2>1. chosen[s] # Team
    BY <1>1, <1>4
  <2>2. /\ Chooses(m) => Fresh(s) \ {m} = {}
        /\ ~Chooses(m) => Fresh(s) \ {m} = Fresh(s)
        /\ \A x \in Fresh(s) : chosen[s] = Named(x)
        /\ Fresh(s) = {} => chosen[s] = affinity[s]
    BY <1>4, <2>1, OnlyMention
  <2>3. CASE Chooses(m)
    BY <1>1, <1>4, <2>2, <2>3
  <2>4. CASE ~Chooses(m)
    BY <1>1, <2>2, <2>4
  <2>5. QED  BY <2>3, <2>4
<1>5. QED
  <2>1. \A s \in Senders : s = m.sender /\ chosen'[s] # Team =>
           /\ \A x \in Fresh(s) \ {m} : chosen'[s] = Named(x)
           /\ Fresh(s) \ {m} = {} => chosen'[s] = affinity'[s]
    BY <1>4
  <2>2. QED  BY <1>1, <1>2, <1>3, <2>1, MoveKeepsInv

\* a message that was routed without the sender's agent is marked,
LEMMA RouteUnreadKeepsInv ==
  ASSUME ConversationInv, NEW m \in DOMAIN open, RouteUnread(m)
  PROVE  ConversationInv'
<1> DEFINE agent == RouteFrom(m, Named(m))
           n == [Routed(m, agent) EXCEPT !.unread = TRUE]
<1>1. /\ m.step = "queued" /\ Asks(m) /\ failures < MaxFailures
      /\ open' = Replaced(m, n) /\ failures' = failures + 1
      /\ UNCHANGED <<affinity, chosen, sent, posts>>
  BY DEF RouteUnread
<1>2. m \in Message
  BY OpenMessage
<1>3. agent \in Agents
  <2>1. Named(m) \in Agents \cup {Default}
    BY <1>2, NamedIsAgent DEF Message
  <2>2. QED  BY <1>2, <2>1, RouteFromIsAgent
<1>4. (m.forced # None => agent = m.forced) /\ ~Explicit(m)
  BY <1>1 DEF RouteFrom, Asks
<1> HIDE DEF agent
<1>5. LaterForm(m, n)
  BY <1>1, <1>3, <1>4, RoutedIsLater
<1>6. n # m
  BY <1>5 DEF LaterForm
<1> HIDE DEF n
<1>7. Moved(m, {n}, {})
  BY <1>1, <1>6, OneMoves
<1>8. {sent', posts'} \subseteq 0..MaxEvents /\ failures' \in 0..MaxFailures
  BY <1>1, CountersAreTyped
<1>9. chosen' = Undone(m)
  BY <1>1, <1>4 DEF Undone, Chooses
<1>10. QED  BY <1>1, <1>5, <1>7, <1>8, <1>9, UndoingMoveKeepsInv

\* and a mention that the store did not note chooses nobody.
LEMMA RouteUnnotedKeepsInv ==
  ASSUME ConversationInv, NEW m \in DOMAIN open, RouteUnnoted(m)
  PROVE  ConversationInv'
<1> DEFINE n == Routed(m, RouteOf(m))
<1>1. /\ m.step = "queued" /\ failures < MaxFailures
      /\ open' = Replaced(m, n) /\ failures' = failures + 1
      /\ chosen' = Undone(m) /\ UNCHANGED <<affinity, sent, posts>>
  BY DEF RouteUnnoted
<1>2. m \in Message
  BY OpenMessage
<1>3. /\ RouteOf(m) \in Agents
      /\ m.forced # None => RouteOf(m) = m.forced
      /\ Explicit(m) => m.forced = None /\ RouteOf(m) = Named(m)
      /\ m.want # None /\ m.tries = 0 => RouteOf(m) = m.want
  BY <1>1, RouteFits
<1>4. LaterForm(m, n)
  <2>1. n = [n EXCEPT !.unread = m.unread] /\ m.unread \in BOOLEAN
    BY <1>2, RoutedIsRead
  <2>2. LaterForm(m, [n EXCEPT !.unread = m.unread])
    BY <1>1, <1>3, <2>1, RoutedIsLater
  <2> HIDE DEF n
  <2>3. QED  BY <2>1, <2>2
<1>5. n # m
  BY <1>4 DEF LaterForm
<1> HIDE DEF n
<1>6. Moved(m, {n}, {})
  BY <1>1, <1>5, OneMoves
<1>7. {sent', posts'} \subseteq 0..MaxEvents /\ failures' \in 0..MaxFailures
  BY <1>1, CountersAreTyped
<1>8. QED  BY <1>1, <1>4, <1>6, <1>7, UndoingMoveKeepsInv

\* A step that leaves affinity and choice alone, of a message that is routed.
LEMMA QuietMoveKeepsInv ==
  ASSUME ConversationInv, NEW m \in DOMAIN open, NEW after, NEW new,
         Moved(m, after, new), m.step # "queued",
         \A n \in after : LaterForm(m, n), \A x, y \in after : x = y,
         \A x \in new : CausedBy(m, x),
         UNCHANGED <<affinity, chosen>>,
         {sent', posts'} \subseteq 0..MaxEvents, failures' \in 0..MaxFailures
  PROVE  ConversationInv'
<1>1. MovedRight(m, after, new)
  BY DEF MovedRight
<1>2. affinity' \in [Senders -> Agents \cup {None}]
      /\ chosen' \in [Senders -> Agents \cup {Team, None}]
  BY DEF ConversationInv, ConversationTypeOK
<1>3. \A s \in Senders : s = m.sender /\ chosen'[s] # Team =>
        /\ \A x \in Fresh(s) \ {m} : chosen'[s] = Named(x)
        /\ Fresh(s) \ {m} = {} => chosen'[s] = affinity'[s]
  <2>1. \A s \in Senders : Fresh(s) \ {m} = Fresh(s)
    BY DEF Fresh
  <2>2. QED  BY <2>1 DEF ConversationInv, ChosenInv
<1>4. QED  BY <1>1, <1>2, <1>3, MoveKeepsInv

\* The same message, one step further with the same agent.
LEMMA NextStep ==
  ASSUME ConversationInv, NEW m \in DOMAIN open, NEW next \in {"running", "relayed"},
         m.step # "queued", m.step # next
  PROVE  LaterForm(m, [m EXCEPT !.step = next]) /\ [m EXCEPT !.step = next] # m
<1> DEFINE n == [m EXCEPT !.step = next]
<1>1. m \in Message /\ Right(m) /\ m.agent \in Agents
  BY OpenMessage
<1>2. /\ n \in Message
      /\ n.sender = m.sender /\ n.room = m.room /\ n.mention = m.mention
      /\ n.forced = m.forced /\ n.want = m.want /\ n.step = next
      /\ n.agent = m.agent /\ n.tries = m.tries /\ n.unread = m.unread
  BY <1>1 DEF Message
<1> HIDE DEF n
<1>3. Right(n)
  BY <1>1, <1>2 DEF Right, Explicit, Named
<1>4. LaterForm(m, n) /\ n # m
  BY <1>1, <1>2, <1>3 DEF LaterForm
<1>5. QED  BY <1>4 DEF n

\* The start of the run changes only the step of its message.
LEMMA StartKeepsInv ==
  ASSUME ConversationInv, NEW m \in DOMAIN open, Start(m)
  PROVE  ConversationInv'
<1> DEFINE n == [m EXCEPT !.step = "running"]
<1>1. m.step = "routed" /\ open' = Replaced(m, n) /\ UNCHANGED <<affinity, chosen>>
      /\ UNCHANGED <<sent, posts, failures>>
  BY DEF Start, counters
<1>2. LaterForm(m, n) /\ n # m
  BY <1>1, NextStep
<1> HIDE DEF n
<1>3. Moved(m, {n}, {})
  BY <1>1, <1>2, OneMoves
<1>4. {sent', posts'} \subseteq 0..MaxEvents /\ failures' \in 0..MaxFailures
  BY <1>1 DEF ConversationInv, ConversationTypeOK
<1>5. QED  BY <1>1, <1>2, <1>3, <1>4, QuietMoveKeepsInv

\* What an agent writes in its answer is addressed, and names nobody.
LEMMA InternalIsTyped ==
  ASSUME NEW m \in Message, NEW to \in Agents, m.agent \in Agents
  PROVE  LET x == Internal(m, to) IN
         /\ x \in Message
         /\ x.sender = m.sender /\ x.room = m.room /\ x.mention = None
         /\ x.forced = to /\ x.want = None /\ x.step = "queued"
<1>1. 0 \in 0..MaxRetries
  BY ConversationAssumption
<1>2. QED  BY <1>1 DEF Internal, Message

\* A handoff is addressed and marked by nobody,
LEMMA HandoffIsCaused ==
  ASSUME ConversationInv, NEW m \in DOMAIN open, m.agent \in Agents,
         NEW names \in SUBSET Teammates(m), names # {} => MayHandOff(m),
         NEW x \in Handoffs(m, names)
  PROVE  CausedBy(m, x)
<1>1. PICK to \in names : x = [Internal(m, to) EXCEPT !.depth = NextDepth(m)]
  BY DEF Handoffs
<1>2. to \in Agents /\ to # None
  BY ConversationAssumption DEF Teammates
<1>3. NextDepth(m) \in 0..MaxChainSteps
  <2>1. m.depth \in Nat /\ MaxChainSteps \in Nat /\ m.depth + 1 <= MaxChainSteps
    BY OpenMessage, ConversationAssumption DEF Message, MayHandOff, NextDepth
  <2>2. QED  BY <2>1 DEF NextDepth
<1>4. m \in Message /\ (m.room <=> m.sender \in Agents)
  BY OpenMessage
<1> DEFINE i == Internal(m, to)
<1>5. /\ i \in Message
      /\ i.sender = m.sender /\ i.room = m.room /\ i.mention = None
      /\ i.forced = to /\ i.want = None /\ i.step = "queued"
  BY <1>2, <1>4, InternalIsTyped
<1> HIDE DEF i
<1>6. x = [i EXCEPT !.depth = NextDepth(m)]
  BY <1>1 DEF i
<1>7. /\ x \in Message
      /\ x.sender = m.sender /\ x.room = m.room /\ x.mention = None
      /\ x.forced = to /\ x.want = None /\ x.step = "queued"
  BY <1>3, <1>5, <1>6 DEF Message
<1>8. QED  BY <1>2, <1>4, <1>7 DEF CausedBy

\* and so is a post to the room.
LEMMA PostIsCaused ==
  ASSUME ConversationInv, NEW m \in DOMAIN open, m.agent \in Agents, NEW x \in RoomPost(m)
  PROVE  CausedBy(m, x)
<1>1. PICK to \in Members : x = Posted(m, to)
  BY DEF RoomPost
<1>2. to \in Agents /\ to # None /\ 0 \in 0..MaxChainSteps
  BY ConversationAssumption
<1>3. m \in Message
  BY OpenMessage
<1> DEFINE i == Internal(m, to)
<1>4. /\ i \in Message /\ i.mention = None
      /\ i.forced = to /\ i.want = None /\ i.step = "queued"
  BY <1>2, <1>3, InternalIsTyped
<1> HIDE DEF i
<1>5. x = [i EXCEPT !.sender = m.agent, !.room = TRUE, !.depth = 0]
  BY <1>1 DEF i, Posted
<1>6. /\ x \in Message /\ x.mention = None
      /\ x.forced = to /\ x.want = None /\ x.step = "queued"
      /\ x.sender = m.agent /\ x.room = TRUE
  BY <1>2, <1>4, <1>5 DEF Message
<1>7. QED  BY <1>2, <1>6 DEF CausedBy

\* The posts and handoffs of an answer keep the invariant.
LEMMA RelayKeepsInv ==
  ASSUME ConversationInv, NEW m \in DOMAIN open, Relay(m)
  PROVE  ConversationInv'
<1> DEFINE n == [m EXCEPT !.step = "relayed"]
<1>1. PICK names \in SUBSET Teammates(m), post \in Posts(m) :
        /\ names # {} => MayHandOff(m)
        /\ post => Events < MaxEvents
        /\ open' = Replaced(m, n) (+) SetToBag(Handoffs(m, names))
                   (+) SetToBag(IF post THEN RoomPost(m) ELSE {})
        /\ posts' = IF post THEN posts + 1 ELSE posts
  BY DEF Relay
<1>2. m.step = "running" /\ UNCHANGED <<affinity, chosen, sent, failures>>
  BY DEF Relay
<1>8. m.agent \in Agents
  BY <1>2, OpenMessage
<1>3. LaterForm(m, n) /\ n # m
  BY <1>2, NextStep
<1> HIDE DEF n
<1> DEFINE H == Handoffs(m, names)
           P == IF post THEN RoomPost(m) ELSE {}
<1>4. \A x \in H \cup P : CausedBy(m, x)
  <2>1. \A x \in H : CausedBy(m, x)
    BY <1>1, <1>8, HandoffIsCaused
  <2>2. \A x \in P : CausedBy(m, x)
    BY <1>8, PostIsCaused
  <2>3. QED  BY <2>1, <2>2
<1>5. Moved(m, {n}, H \cup P)
  <2>1. open' = Replaced(m, n) (+) SetToBag(H) (+) SetToBag(P)
    BY <1>1
  <2> HIDE DEF H, P
  <2>2. QED  BY <1>3, <2>1, RelayMoves
<1>6. {sent', posts'} \subseteq 0..MaxEvents /\ failures' \in 0..MaxFailures
  BY <1>1, <1>2, CountersAreTyped
<1> HIDE DEF H, P
<1>7. QED  BY <1>2, <1>3, <1>4, <1>5, <1>6, QuietMoveKeepsInv

\* A mention that waits to be routed makes the sender's next agent a race.
LEMMA AnswerKeepsInv ==
  ASSUME ConversationInv, NEW m \in DOMAIN open, Answer(m)
  PROVE  ConversationInv'
<1>1. m.step = "relayed" /\ open' = Without(m) /\ UNCHANGED <<sent, posts, failures>>
  BY DEF Answer, counters
<1>2. Moved(m, {}, {})
  BY <1>1, WithoutMoves
<1>3. {sent', posts'} \subseteq 0..MaxEvents /\ failures' \in 0..MaxFailures
  BY <1>1 DEF ConversationInv, ConversationTypeOK
<1>4. PICK to \in SentOnTo(m) :
        IF to = None THEN UNCHANGED <<affinity, chosen>>
        ELSE /\ affinity' = [affinity EXCEPT ![m.sender] = to]
             /\ chosen' = [chosen EXCEPT ![m.sender] =
                            IF chosen[m.sender] = Team \/ Pending(m.sender) THEN Team ELSE to]
  BY DEF Answer
<1>5. CASE to = None
  <2>1. UNCHANGED <<affinity, chosen>>
    BY <1>4, <1>5
  <2>2. QED  BY <1>1, <1>2, <1>3, <2>1, QuietMoveKeepsInv
<1>6. CASE to # None
  <2>1. /\ ~m.room /\ to \in Agents
        /\ affinity' = [affinity EXCEPT ![m.sender] = to]
        /\ chosen' = [chosen EXCEPT ![m.sender] =
                       IF chosen[m.sender] = Team \/ Pending(m.sender) THEN Team ELSE to]
    BY <1>4, <1>6 DEF SentOnTo
  <2>2. m.sender \in Senders
    BY <2>1, OpenMessage
  <2>3. affinity \in [Senders -> Agents \cup {None}]
        /\ chosen \in [Senders -> Agents \cup {Team, None}]
    BY DEF ConversationInv, ConversationTypeOK
  <2>4. /\ affinity' \in [Senders -> Agents \cup {None}]
        /\ \A s \in Senders : s # m.sender => affinity'[s] = affinity[s]
        /\ affinity'[m.sender] = to
    BY <2>1, <2>2, <2>3
  <2>5. /\ chosen' \in [Senders -> Agents \cup {Team, None}]
        /\ \A s \in Senders : s # m.sender => chosen'[s] = chosen[s]
        /\ \A s \in Senders : chosen[s] = Team => chosen'[s] = Team
        /\ chosen'[m.sender] # Team => chosen'[m.sender] = to /\ ~Pending(m.sender)
    BY <2>1, <2>2, <2>3
  <2>6. MovedRight(m, {}, {})
    BY <1>2, <2>4, <2>5 DEF MovedRight
  <2>7. ~Pending(m.sender) => Fresh(m.sender) = {}
    BY DEF Pending, Fresh, Mentions
  <2>8. \A s \in Senders : s = m.sender /\ chosen'[s] # Team =>
          /\ \A x \in Fresh(s) \ {m} : chosen'[s] = Named(x)
          /\ Fresh(s) \ {m} = {} => chosen'[s] = affinity'[s]
    BY <2>4, <2>5, <2>7
  <2>9. QED  BY <1>3, <2>4, <2>5, <2>6, <2>8, MoveKeepsInv
<1>7. QED  BY <1>5, <1>6

\* A mention that is retried is not new any more.
LEMMA FailKeepsInv ==
  ASSUME ConversationInv, NEW m \in DOMAIN open, Fail(m)
  PROVE  ConversationInv'
<1>1. /\ failures < MaxFailures /\ failures' = failures + 1
      /\ UNCHANGED <<affinity, sent, posts>>
      /\ chosen' = IF m.step = "queued" THEN Undone(m) ELSE chosen
  BY DEF Fail
<1>2. {sent', posts'} \subseteq 0..MaxEvents /\ failures' \in 0..MaxFailures
  BY <1>1, CountersAreTyped
<1>3. ASSUME NEW after, Moved(m, after, {}), \A n \in after : LaterForm(m, n),
             \A x, y \in after : x = y
      PROVE  ConversationInv'
  <2>1. CASE m.step = "queued"
    BY <1>1, <1>2, <1>3, <2>1, UndoingMoveKeepsInv
  <2>2. CASE m.step # "queued"
    BY <1>1, <1>2, <1>3, <2>2, QuietMoveKeepsInv
  <2>3. QED  BY <2>1, <2>2
<1>4. CASE m.tries >= MaxRetries
  <2>1. Moved(m, {}, {})
    BY <1>4, WithoutMoves DEF Fail
  <2>2. QED  BY <1>3, <2>1
<1>5. CASE ~(m.tries >= MaxRetries)
  <2> DEFINE n == [m EXCEPT !.tries = m.tries + 1, !.step = "queued", !.agent = None,
                            !.unread = FALSE]
  <2>1. open' = Replaced(m, n)
    BY <1>5 DEF Fail
  <2>2. m \in Message
    BY OpenMessage
  <2>3. /\ m.tries \in Nat /\ m.tries + 1 \in 0..MaxRetries
        /\ m.tries + 1 # 0 /\ m.tries + 1 # m.tries
    BY <1>5, <2>2, ConversationAssumption DEF Message
  <2>4. /\ n \in Message
        /\ n.sender = m.sender /\ n.room = m.room /\ n.mention = m.mention
        /\ n.forced = m.forced /\ n.want = m.want /\ n.step = "queued"
        /\ n.tries = m.tries + 1
    BY <2>2, <2>3 DEF Message
  <2> HIDE DEF n
  <2>5. LaterForm(m, n) /\ n # m
    BY <2>3, <2>4 DEF LaterForm, Right
  <2>6. Moved(m, {n}, {})
    BY <2>1, <2>5, OneMoves
  <2>7. QED  BY <1>3, <2>5, <2>6
<1>6. QED  BY <1>4, <1>5

-----------------------------------------------------------------------------
(* Conversation: a sender writes.                                           *)

Stripped(n) == [n EXCEPT !.want = None]

\* A message that was overtaken loses its mark and nothing else.
LEMMA StrippedIs ==
  ASSUME NEW n \in Message
  PROVE  LET x == Stripped(n) IN
         /\ x \in Message /\ x.want = None
         /\ x.sender = n.sender /\ x.room = n.room /\ x.mention = n.mention
         /\ x.forced = n.forced /\ x.step = n.step /\ x.tries = n.tries
         /\ x.agent = n.agent /\ (Explicit(x) <=> Explicit(n)) /\ Named(x) = Named(n)
         /\ n.want # None => x # n
<1> DEFINE x == Stripped(n)
<1>1. /\ x \in Message /\ x.want = None
      /\ x.sender = n.sender /\ x.room = n.room /\ x.mention = n.mention
      /\ x.forced = n.forced /\ x.step = n.step /\ x.tries = n.tries
      /\ x.agent = n.agent
  BY DEF Stripped, Message
<1> HIDE DEF x
<1>2. (Explicit(x) <=> Explicit(n)) /\ Named(x) = Named(n)
  BY <1>1 DEF Explicit, Named
<1>3. QED  BY <1>1, <1>2 DEF x

\* The bag after s wrote M: what it overtakes loses its mark.
Exchanged(b, O, P, M, d) ==
  /\ IsABag(d) /\ M \in DOMAIN d
  /\ \A e \in P : e \in DOMAIN d
  /\ \A e \in DOMAIN d : e \in DOMAIN b \/ e \in P \/ e = M
  /\ \A e \in DOMAIN b : e \notin O => e \in DOMAIN d
  /\ \A e \in DOMAIN b : e \notin O /\ e \notin P /\ e # M => d[e] = b[e]
  /\ \A e \in O : e \in DOMAIN b /\ b[e] = 1 /\ e \notin P /\ e # M
       => e \notin DOMAIN d
  /\ \A e \in P : e \notin DOMAIN b /\ e # M => d[e] = 1
  /\ M \notin DOMAIN b /\ M \notin P => d[M] = 1

LEMMA SentBag ==
  ASSUME NEW b, IsABag(b), NEW O, NEW P, NEW M
  PROVE  Exchanged(b, O, P, M, (b (-) SetToBag(O)) (+) SetToBag(P) (+) SetToBag({M}))
<1> DEFINE A == b (-) SetToBag(O)
           C == A (+) SetToBag(P)
           D == C (+) SetToBag({M})
<1>1. /\ IsABag(A)
      /\ \A e : e \in DOMAIN A <=> e \in DOMAIN b /\ (e \in O => b[e] > 1)
      /\ \A e \in DOMAIN A : A[e] = IF e \in O THEN b[e] - 1 ELSE b[e]
  BY TakenCopies
<1> HIDE DEF A
<1>2. /\ IsABag(C)
      /\ DOMAIN C = DOMAIN A \cup P
      /\ \A e \in DOMAIN A : C[e] = IF e \in P THEN A[e] + 1 ELSE A[e]
      /\ \A e \in P : e \notin DOMAIN A => C[e] = 1
  BY <1>1, AddedCopies
<1> HIDE DEF C
<1>3. /\ IsABag(D)
      /\ DOMAIN D = DOMAIN C \cup {M}
      /\ \A e \in DOMAIN C : D[e] = IF e \in {M} THEN C[e] + 1 ELSE C[e]
      /\ \A e \in {M} : e \notin DOMAIN C => D[e] = 1
  BY <1>2, AddedCopies
<1> HIDE DEF D
<1>4. /\ IsABag(D) /\ M \in DOMAIN D
      /\ \A e \in P : e \in DOMAIN D
      /\ \A e \in DOMAIN D : e \in DOMAIN b \/ e \in P \/ e = M
      /\ \A e \in DOMAIN b : e \notin O => e \in DOMAIN D
  BY <1>1, <1>2, <1>3
<1>5. \A e \in DOMAIN b : e \notin O /\ e \notin P /\ e # M => D[e] = b[e]
  BY <1>1, <1>2, <1>3
<1>6. \A e \in O : e \in DOMAIN b /\ b[e] = 1 /\ e \notin P /\ e # M
              => e \notin DOMAIN D
  BY <1>1, <1>2, <1>3
<1>7. \A e \in P : e \notin DOMAIN b /\ e # M => D[e] = 1
  BY <1>1, <1>2, <1>3
<1>8. M \notin DOMAIN b /\ M \notin P => D[M] = 1
  BY <1>1, <1>2, <1>3
<1>9. Exchanged(b, O, P, M, D)
  BY <1>4, <1>5, <1>6, <1>7, <1>8 DEF Exchanged
<1>10. QED  BY <1>9 DEF A, C, D

\* What s writes, who the sender's agent is now, and who ought to answer.
Written(s, mention) ==
  [sender |-> s, room |-> FALSE, mention |-> mention, forced |-> None,
   from |-> None, depth |-> 0, tries |-> 0, step |-> "queued",
   agent |-> None, want |-> None, unread |-> FALSE]
Now(s, mention) ==
  IF ~Explicit(Written(s, mention)) THEN chosen[s]
  ELSE IF Quiet(s) THEN Named(Written(s, mention)) ELSE Team
Wanted(s, mention) ==
  IF ~Quiet(s) \/ Now(s, mention) = Team THEN None
  ELSE IF Now(s, mention) \in {None, Default} THEN Configured(BestBinding(s))
  ELSE Now(s, mention)
Sent(s, mention) == [Written(s, mention) EXCEPT !.want = Wanted(s, mention)]

\* n is a message of s, just written, that ought to be answered by w.
SentForm(n, s, mention, w) ==
  /\ n \in Message
  /\ n.sender = s /\ n.room = FALSE /\ n.mention = mention /\ n.forced = None
  /\ n.tries = 0 /\ n.step = "queued" /\ n.want = w
  /\ Explicit(n) <=> Explicit(Written(s, mention))
  /\ Named(n) = Named(Written(s, mention))

\* A message just written has the form above.
LEMMA SentIs ==
  ASSUME ConversationInv, NEW s \in Senders, NEW mention \in Agents \cup {Team, None}
  PROVE  /\ SentForm(Sent(s, mention), s, mention, Wanted(s, mention))
         /\ Now(s, mention) \in Agents \cup {Team, None}
<1> DEFINE W == Written(s, mention)
<1>1. /\ 0 \in 0..MaxChainSteps /\ 0 \in 0..MaxRetries
  BY ConversationAssumption
<1>2. /\ W \in Message
      /\ W.sender = s /\ W.room = FALSE /\ W.mention = mention /\ W.forced = None
      /\ W.tries = 0 /\ W.step = "queued"
  BY <1>1 DEF Written, Message
<1> HIDE DEF W
<1>3. Explicit(W) => Named(W) \in Agents
  BY <1>2, NamedIsAgent
<1>4. Now(s, mention) \in Agents \cup {Team, None}
  BY <1>3 DEF Now, W, ConversationInv, ConversationTypeOK
<1>5. Wanted(s, mention) \in Agents \cup {None}
  BY <1>4, ConfiguredIsAgent DEF Wanted
<1> DEFINE w == Wanted(s, mention)
           M == [W EXCEPT !.want = w]
<1> HIDE DEF w
<1>6. /\ M \in Message
      /\ M.sender = s /\ M.room = FALSE /\ M.mention = mention /\ M.forced = None
      /\ M.tries = 0 /\ M.step = "queued" /\ M.want = w
  BY <1>2, <1>5 DEF Message, w
<1>7. (Explicit(M) <=> Explicit(W)) /\ Named(M) = Named(W)
  BY <1>2, <1>6 DEF Explicit, Named
<1>8. SentForm(M, s, mention, w)
  BY <1>6, <1>7 DEF SentForm, W
<1>9. QED  BY <1>4, <1>8 DEF Sent, W, w

\* A message written while nothing else of the sender is open would be routed to
\* the agent that ought to answer it.
LEMMA SentIsRoutedRight ==
  ASSUME ConversationInv, NEW s \in Senders, NEW mention \in Agents \cup {Team, None},
         Wanted(s, mention) # None
  PROVE  Quiet(s) /\ RouteOf(Sent(s, mention)) = Wanted(s, mention)
<1> DEFINE M == Sent(s, mention)
<1>t. /\ SentForm(M, s, mention, Wanted(s, mention))
      /\ Now(s, mention) \in Agents \cup {Team, None}
  BY SentIs
<1>1. /\ M.sender = s /\ M.room = FALSE /\ M.forced = None /\ M.mention = mention
      /\ Now(s, mention) \in Agents \cup {Team, None}
      /\ Explicit(M) <=> Explicit(Written(s, mention))
      /\ Named(M) = Named(Written(s, mention))
  BY <1>t DEF SentForm
<1> HIDE DEF M
<1>2. Quiet(s) /\ Now(s, mention) # Team
  BY DEF Wanted
<1>3. CASE Explicit(M)
  <2>1. Named(M) # Default /\ Named(M) \in Agents
    BY <1>1, <1>3, NamedIsAgent DEF Explicit
  <2>2. Now(s, mention) = Named(M)
    BY <1>1, <1>2, <1>3 DEF Now
  <2>3. Wanted(s, mention) = Named(M)
    BY <1>2, <2>1, <2>2, ConversationAssumption DEF Wanted
  <2>4. RouteOf(M) = Named(M)
    BY <1>1, <1>3, <2>1 DEF RouteOf, RouteFrom, Asks
  <2>5. QED  BY <1>2, <2>3, <2>4 DEF M
<1>4. CASE ~Explicit(M)
  <2>1. Now(s, mention) = chosen[s]
    BY <1>1, <1>4 DEF Now
  <2>2. Fresh(s) = {}
    BY <1>2 DEF Quiet, Fresh, Mentions
  <2>3. chosen[s] = affinity[s]
    BY <1>2, <2>1, <2>2 DEF ConversationInv, ChosenInv
  <2>4. Named(M) = Default
    BY <1>4 DEF Explicit
  <2>5. RouteOf(M) = IF affinity[s] \in {None, Default} THEN Configured(ResolveBinding(s)) ELSE affinity[s]
    BY <1>1, <1>4, <2>4 DEF RouteOf, RouteFrom, Asks
  <2>6. Wanted(s, mention) = IF chosen[s] \in {None, Default} THEN Configured(BestBinding(s)) ELSE chosen[s]
    BY <1>2, <2>1 DEF Wanted
  <2>7. QED  BY <1>2, <2>3, <2>5, <2>6, BindingsResolveToTheBest DEF M
<1>5. QED  BY <1>3, <1>4

\* Send, in the terms just defined.
LEMMA SendIs ==
  ASSUME ConversationInv, NEW s \in Senders, NEW mention \in Agents \cup {Team, None},
         Send(s, mention)
  PROVE  /\ Events < MaxEvents
         /\ open' = (open (-) SetToBag(Overtaken(s)))
                      (+) SetToBag({Stripped(n) : n \in Overtaken(s)})
                      (+) SetToBag({Sent(s, mention)})
         /\ chosen' = [chosen EXCEPT ![s] = Now(s, mention)]
         /\ sent' = sent + 1
         /\ UNCHANGED <<affinity, posts, failures>>
  BY DEF Send, Sent, Stripped, Written, Now, Wanted

\* A new message keeps the invariant: it decides the agent or makes the choice a race.
LEMMA SendKeepsInv ==
  ASSUME ConversationInv, NEW s \in Senders, NEW mention \in Agents \cup {Team, None},
         Send(s, mention)
  PROVE  ConversationInv'
<1> USE DEF BagToSet
<1> DEFINE O == Overtaken(s)
           P == {Stripped(n) : n \in O}
           M == Sent(s, mention)
           D == (open (-) SetToBag(O)) (+) SetToBag(P) (+) SetToBag({M})
           now == Now(s, mention)
<1>1. /\ open' = D
      /\ chosen' = [chosen EXCEPT ![s] = now]
      /\ sent' = sent + 1
      /\ UNCHANGED <<affinity, posts, failures>>
      /\ Events < MaxEvents
  BY SendIs
<1>2. IsABag(open)
  BY DEF ConversationInv, ConversationTypeOK
<1>t. /\ SentForm(M, s, mention, Wanted(s, mention))
      /\ Now(s, mention) \in Agents \cup {Team, None}
  BY SentIs
<1>3. /\ M \in Message
      /\ M.sender = s /\ M.room = FALSE /\ M.mention = mention /\ M.forced = None
      /\ M.tries = 0 /\ M.step = "queued" /\ M.want = Wanted(s, mention)
      /\ now \in Agents \cup {Team, None}
      /\ Explicit(M) <=> Explicit(Written(s, mention))
      /\ Named(M) = Named(Written(s, mention))
  BY <1>t DEF SentForm
<1>4. \A n \in O : /\ n \in DOMAIN open /\ n \in Message /\ n.sender = s
                   /\ n.step = "queued" /\ n.want # None
  BY OpenMessage DEF Overtaken
<1>5. ASSUME NEW x \in P
      PROVE  \E n \in O : x = Stripped(n)
  OBVIOUS
<1>6. ASSUME NEW n \in O
      PROVE  LET x == Stripped(n) IN
             /\ x \in P
             /\ x \in Message /\ x.want = None
             /\ x.sender = n.sender /\ x.room = n.room /\ x.mention = n.mention
             /\ x.forced = n.forced /\ x.step = n.step /\ x.tries = n.tries
             /\ x.agent = n.agent /\ (Explicit(x) <=> Explicit(n)) /\ Named(x) = Named(n)
             /\ x # n
  BY <1>4, StrippedIs
<1>7. /\ IsABag(D) /\ M \in DOMAIN D
      /\ \A e \in P : e \in DOMAIN D
      /\ \A e \in DOMAIN D : e \in DOMAIN open \/ e \in P \/ e = M
      /\ \A e \in DOMAIN open : e \notin O => e \in DOMAIN D
      /\ \A e \in DOMAIN open :
           e \notin O /\ e \notin P /\ e # M => D[e] = open[e]
      /\ \A e \in O : e \in DOMAIN open /\ open[e] = 1 /\ e \notin P /\ e # M
           => e \notin DOMAIN D
      /\ \A e \in P : e \notin DOMAIN open /\ e # M => D[e] = 1
      /\ M \notin DOMAIN open /\ M \notin P => D[M] = 1
  <2> HIDE DEF O, P, M
  <2>1. Exchanged(open, O, P, M, D)
    BY <1>2, SentBag
  <2> HIDE DEF D
  <2>2. QED  BY <2>1 DEF Exchanged
<1> HIDE DEF D
<1>8. M.want # None => Quiet(s) /\ RouteOf(M) = M.want
  BY <1>3, SentIsRoutedRight
<1>9. now = IF ~Explicit(M) THEN chosen[s] ELSE IF Quiet(s) THEN Named(M) ELSE Team
  BY <1>3 DEF Now
<1> HIDE DEF M, now
<1>10. \A x \in P : x.sender = s /\ x.want = None /\ x \in Message /\ x.step = "queued"
  BY <1>4, <1>5, <1>6
<1> HIDE DEF P, O
<1>11. Quiet(s) => O = {} /\ P = {} /\ M \notin DOMAIN open
  <2>1. Quiet(s) => O = {} /\ M \notin DOMAIN open
    BY <1>3, <1>4 DEF Quiet
  <2>2. O = {} => P = {}
    BY DEF P
  <2>3. QED  BY <2>1, <2>2
<1>12. s \notin Agents
  BY ConversationAssumption
<1>13. ConversationTypeOK'
  <2>1. chosen' \in [Senders -> Agents \cup {Team, None}]
    BY <1>1, <1>3 DEF ConversationInv, ConversationTypeOK
  <2>2. {sent', posts'} \subseteq 0..MaxEvents /\ failures' \in 0..MaxFailures
    BY <1>1, CountersAreTyped
  <2>3. DOMAIN open' \subseteq Message
    BY <1>1, <1>3, <1>7, <1>10, OpenMessage
  <2>4. affinity' \in [Senders -> Agents \cup {None}]
    BY <1>1 DEF ConversationInv, ConversationTypeOK
  <2>5. QED  BY <1>1, <1>7, <2>1, <2>2, <2>3, <2>4 DEF ConversationTypeOK
<1>14. AddressInv'
  <2>1. SUFFICES ASSUME NEW e \in DOMAIN open'
                 PROVE  /\ e.room <=> e.sender \in Agents
                        /\ e.room => e.forced # None
                        /\ e.forced # None => e.mention = None
                        /\ e.step # "queued" => e.agent \in Agents
    BY DEF AddressInv
  <2>2. CASE e \in DOMAIN open
    BY <2>2 DEF ConversationInv, AddressInv
  <2>3. CASE e \in P
    <3>1. PICK n \in O : e = Stripped(n)
      BY <1>5, <2>3
    <3>2. n \in DOMAIN open /\ n.step = "queued"
      BY <1>4
    <3>3. QED  BY <1>6, <3>1, <3>2 DEF ConversationInv, AddressInv
  <2>4. CASE e = M
    BY <1>3, <1>12, <2>4
  <2>5. QED  BY <1>1, <1>7, <2>2, <2>3, <2>4
<1>15. WantInv'
  <2>1. SUFFICES ASSUME NEW e \in DOMAIN open', e.step = "queued", e.want # None,
                        e.tries = 0
                 PROVE  e.forced = None /\ Single(e)' /\ RouteOf(e)' = e.want
    BY DEF WantInv
  <2>2. RouteOf(e)' = RouteOf(e)
    BY <1>1 DEF RouteOf
  <2>3. CASE e = M
    <3>1. O = {} /\ P = {} /\ M \notin DOMAIN open /\ RouteOf(e) = e.want
      BY <1>8, <1>11, <2>1, <2>3
    <3>2. open'[e] = 1
      BY <1>1, <1>7, <2>3, <3>1
    <3>3. ASSUME NEW n \in DOMAIN open', n.sender = s PROVE n = e
      BY <1>1, <1>7, <1>8, <2>1, <2>3, <3>1, <3>3 DEF Quiet
    <3>4. Single(e)'
      BY <1>3, <2>3, <3>2, <3>3 DEF Single
    <3>5. QED  BY <1>3, <2>2, <2>3, <3>1, <3>4
  <2>4. CASE e # M
    <3>1. e \notin P /\ e \in DOMAIN open
      BY <1>1, <1>7, <1>10, <2>1, <2>4
    <3>2. /\ e.forced = None /\ open[e] = 1 /\ RouteOf(e) = e.want
          /\ \A n \in DOMAIN open : n.sender = e.sender => n = e
      BY <2>1, <3>1 DEF ConversationInv, WantInv, Single
    <3>3. e.sender # s
      <4>1. e.sender = s => e \in O
        BY <2>1, <3>1 DEF O, Overtaken
      <4>2. QED  BY <1>1, <1>7, <2>4, <3>1, <3>2, <4>1
    <3>4. e \notin O
      BY <1>4, <3>3
    <3>5. open'[e] = 1
      BY <1>1, <1>7, <2>4, <3>1, <3>2, <3>4
    <3>6. ASSUME NEW n \in DOMAIN open', n.sender = e.sender PROVE n = e
      BY <1>1, <1>3, <1>7, <1>10, <3>2, <3>3, <3>6
    <3>7. Single(e)'
      BY <3>5, <3>6 DEF Single
    <3>8. QED  BY <2>2, <3>2, <3>7
  <2>5. QED  BY <2>3, <2>4
<1>16. RightAgentRuns'
  <2>1. SUFFICES ASSUME NEW e \in DOMAIN open' PROVE Right(e)
    BY DEF RightAgentRuns, Right, Explicit, Named
  <2>2. CASE e \in DOMAIN open
    BY <2>2, OpenMessage
  <2>3. CASE e \in P \/ e = M
    BY <1>3, <1>10, <2>3 DEF Right
  <2>4. QED  BY <1>1, <1>7, <2>2, <2>3
<1>17. ASSUME NEW t \in Senders, t # s, chosen'[t] # Team
       PROVE  /\ \A x, y \in Mentions(t)' : x = y /\ open'[x] = 1
              /\ \A x \in Fresh(t)' : chosen'[t] = Named(x)
              /\ Fresh(t)' = {} => chosen'[t] = affinity'[t]
  <2>1. chosen'[t] = chosen[t] /\ affinity'[t] = affinity[t]
    BY <1>1, <1>17 DEF ConversationInv, ConversationTypeOK
  <2>2. ASSUME NEW e, e.sender = t
        PROVE  /\ e \in DOMAIN open' <=> e \in DOMAIN open
               /\ e \in DOMAIN open => open'[e] = open[e]
    BY <1>1, <1>3, <1>4, <1>7, <1>10, <1>17, <2>2
  <2>3. Mentions(t)' = Mentions(t)
    BY <2>2 DEF Mentions, Explicit, Named
  <2>4. Fresh(t)' = Fresh(t)
    BY <2>3 DEF Fresh
  <2>5. \A x \in Mentions(t) : open'[x] = open[x]
    BY <2>2 DEF Mentions
  <2>6. QED
    BY <1>17, <2>1, <2>3, <2>4, <2>5 DEF ConversationInv, ChosenInv
<1>18. ASSUME chosen'[s] # Team, Explicit(M)
       PROVE  /\ \A x, y \in Mentions(s)' : x = y /\ open'[x] = 1
              /\ \A x \in Fresh(s)' : chosen'[s] = Named(x)
              /\ Fresh(s)' = {} => chosen'[s] = affinity'[s]
  <2>1. chosen'[s] = now /\ Quiet(s) /\ now = Named(M)
    BY <1>1, <1>9, <1>18 DEF ConversationInv, ConversationTypeOK
  <2>2. \A e \in DOMAIN open' : e.sender = s => e = M
    BY <1>1, <1>7, <1>11, <2>1 DEF Quiet
  <2>3. M \in Mentions(s)' /\ \A x \in Mentions(s)' : x = M
    BY <1>1, <1>3, <1>7, <1>18, <2>2 DEF Mentions, Explicit, Named
  <2>4. M \in Fresh(s)' /\ \A x \in Fresh(s)' : x = M
    BY <1>3, <2>3 DEF Fresh
  <2>5. open'[M] = 1
    BY <1>1, <1>7, <1>11, <2>1
  <2>6. QED  BY <2>1, <2>3, <2>4, <2>5
\* The mentions that are open stay what they were, but for their marks.
<1>19. ASSUME chosen'[s] # Team, ~Explicit(M)
       PROVE  /\ \A x, y \in Mentions(s)' : x = y /\ open'[x] = 1
              /\ \A x \in Fresh(s)' : chosen'[s] = Named(x)
              /\ Fresh(s)' = {} => chosen'[s] = affinity'[s]
  <2>1. chosen'[s] = chosen[s] /\ affinity'[s] = affinity[s]
    BY <1>1, <1>9, <1>19 DEF ConversationInv, ConversationTypeOK
  <2>2. /\ \A x, y \in Mentions(s) : x = y /\ open[x] = 1
        /\ \A x \in Fresh(s) : chosen[s] = Named(x)
        /\ Fresh(s) = {} => chosen[s] = affinity[s]
    BY <1>19, <2>1 DEF ConversationInv, ChosenInv
  <2>3. ASSUME NEW n \in O, Explicit(n) PROVE n \in Mentions(s)
    <3>1. ~n.room
      <4>1. n \in DOMAIN open /\ n.sender = s
        BY <1>4
      <4>2. QED  BY <1>12, <4>1 DEF ConversationInv, AddressInv
    <3>2. QED  BY <1>4, <2>3, <3>1 DEF Mentions
  <2>4. ASSUME NEW e, e \in Mentions(s)'
        PROVE  \E p \in Mentions(s) :
                 IF p \in O THEN e = Stripped(p) ELSE e = p
    <3>1. e \in DOMAIN open' /\ e.sender = s /\ ~e.room /\ Explicit(e)
      BY <2>4 DEF Mentions, Explicit, Named
    <3>2. e # M
      BY <1>19, <3>1
    <3>3. CASE e \in P
      <4>1. PICK n \in O : e = Stripped(n)
        BY <1>5, <3>3
      <4>2. n \in Mentions(s)
        BY <1>6, <2>3, <3>1, <4>1
      <4>3. QED  BY <4>1, <4>2
    <3>4. CASE e \notin P
      <4>1. e \in DOMAIN open
        BY <1>1, <1>7, <3>1, <3>2, <3>4
      <4>2. e \in Mentions(s)
        BY <3>1, <4>1 DEF Mentions
      <4>3. e \notin O
        BY <1>1, <1>7, <2>2, <3>1, <3>2, <3>4, <4>1, <4>2
      <4>4. QED  BY <4>2, <4>3
    <3>5. QED  BY <3>3, <3>4
  <2>5. ASSUME NEW x, x \in Mentions(s)', NEW y, y \in Mentions(s)' PROVE x = y
    BY <2>2, <2>4, <2>5
  <2>6. ASSUME NEW e, e \in Mentions(s)' PROVE open'[e] = 1
    <3>1. PICK p \in Mentions(s) : IF p \in O THEN e = Stripped(p) ELSE e = p
      BY <2>4, <2>6
    <3>2. p \in DOMAIN open /\ open[p] = 1 /\ Explicit(p)
      BY <2>2, <3>1, MentionsAreOf
    <3>3. p # M
      BY <1>19, <3>2
    <3>4. CASE p \in O
      <4>1. /\ e \in P /\ e # p /\ Explicit(e) /\ e.sender = p.sender
            /\ e.room = p.room
        BY <1>6, <3>1, <3>2, <3>4
      <4>2. e # M
        BY <1>19, <4>1
      <4>3. e \notin DOMAIN open
        <5>1. e \in DOMAIN open => e \in Mentions(s)
          BY <3>1, <4>1, MentionsAreOf DEF Mentions
        <5>2. QED  BY <2>2, <3>1, <4>1, <5>1
      <4>4. QED  BY <1>1, <1>7, <4>1, <4>2, <4>3
    <3>5. CASE p \notin O
      <4>1. p \notin P
        <5>1. SUFFICES ASSUME p \in P PROVE FALSE
          OBVIOUS
        <5>2. PICK n \in O : p = Stripped(n)
          BY <1>5, <5>1
        <5>3. n \in Mentions(s)
          BY <1>6, <2>3, <3>2, <5>2
        <5>4. QED  BY <2>2, <3>1, <3>5, <5>3
      <4>2. QED  BY <1>1, <1>7, <3>1, <3>2, <3>3, <3>5, <4>1
    <3>6. QED  BY <3>4, <3>5
  <2>7. ASSUME NEW e, e \in Fresh(s)'
        PROVE  \E p \in Fresh(s) : Named(e) = Named(p)
    <3>1. e \in Mentions(s)' /\ e.step = "queued" /\ e.tries = 0
      BY <2>7 DEF Fresh
    <3>2. PICK p \in Mentions(s) : IF p \in O THEN e = Stripped(p) ELSE e = p
      BY <2>4, <3>1
    <3>3. e.step = p.step /\ e.tries = p.tries /\ Named(e) = Named(p)
      BY <1>6, <3>2
    <3>4. p \in Fresh(s)
      BY <3>1, <3>2, <3>3 DEF Fresh
    <3>5. QED  BY <3>3, <3>4
  <2>8. ASSUME NEW p, p \in Fresh(s) PROVE Fresh(s)' # {}
    <3>1. p \in Mentions(s) /\ p.step = "queued" /\ p.tries = 0
      BY <2>8 DEF Fresh
    <3>2. p \in DOMAIN open /\ p.sender = s /\ ~p.room /\ Explicit(p)
      BY <3>1, MentionsAreOf
    <3>3. CASE p \in O
      <4> DEFINE e == Stripped(p)
      <4>1. /\ e \in P /\ e.sender = s /\ ~e.room /\ Explicit(e)
            /\ e.step = "queued" /\ e.tries = 0
        BY <1>6, <3>1, <3>2, <3>3
      <4> HIDE DEF e
      <4>2. e \in DOMAIN open'
        BY <1>1, <1>7, <4>1
      <4>3. e \in Fresh(s)'
        BY <4>1, <4>2 DEF Fresh, Mentions, Explicit, Named
      <4>4. QED  BY <4>3
    <3>4. CASE p \notin O
      <4>1. p \in DOMAIN open'
        BY <1>1, <1>7, <3>2, <3>4
      <4>2. p \in Fresh(s)'
        BY <3>1, <3>2, <4>1 DEF Fresh, Mentions, Explicit, Named
      <4>3. QED  BY <4>2
    <3>5. QED  BY <3>3, <3>4
  <2>9. \A x \in Fresh(s)' : chosen'[s] = Named(x)
    BY <2>1, <2>2, <2>7
  <2>10. Fresh(s)' = {} => chosen'[s] = affinity'[s]
    BY <2>1, <2>2, <2>8
  <2>11. QED  BY <2>5, <2>6, <2>9, <2>10
<1>20. ChosenInv'
  <2>1. \A t \in Senders : chosen'[t] # Team =>
          /\ \A x, y \in Mentions(t)' : x = y /\ open'[x] = 1
          /\ \A x \in Fresh(t)' : chosen'[t] = Named(x)
          /\ Fresh(t)' = {} => chosen'[t] = affinity'[t]
    BY <1>17, <1>18, <1>19
  <2>2. QED  BY <2>1 DEF ChosenInv, Named
<1>21. QED  BY <1>13, <1>14, <1>15, <1>16, <1>20 DEF ConversationInv

-----------------------------------------------------------------------------
(* Conversation: the theorems.                                              *)

LEMMA ConversationStarts == ASSUME ConversationInit PROVE ConversationInv
<1> USE DEF ConversationInit, BagToSet
<1>1. DOMAIN open = {} /\ IsABag(open)
  BY DEF EmptyBag, SetToBag, IsABag
<1>2. ConversationTypeOK
  <2>1. {sent, posts} \subseteq 0..MaxEvents /\ failures \in 0..MaxFailures
    BY ConversationAssumption
  <2>2. QED  BY <1>1, <2>1 DEF ConversationTypeOK
<1>3. AddressInv /\ WantInv /\ RightAgentRuns
  BY <1>1 DEF AddressInv, WantInv, RightAgentRuns
<1>4. \A s \in Senders : Mentions(s) = {} /\ Fresh(s) = {}
  BY <1>1 DEF Mentions, Fresh
<1>5. ChosenInv
  BY <1>4 DEF ChosenInv
<1>6. QED  BY <1>2, <1>3, <1>5 DEF ConversationInv

\* Every step keeps the invariant.
LEMMA ConversationStep ==
  ASSUME ConversationInv, [ConversationNext]_talkVars
  PROVE  ConversationInv'
<1>1. ASSUME NEW s \in Senders, NEW mention \in Agents \cup {Team, None},
             Send(s, mention)
      PROVE  ConversationInv'
  BY <1>1, SendKeepsInv
<1>2. ASSUME NEW m \in DOMAIN open, Process(m) \/ Fail(m) PROVE ConversationInv'
  BY <1>2, RouteKeepsInv, RouteUnreadKeepsInv, RouteUnnotedKeepsInv, StartKeepsInv, RelayKeepsInv, AnswerKeepsInv, FailKeepsInv
     DEF Process
<1>3. CASE UNCHANGED talkVars
  <2> USE <1>3 DEF talkVars, ConversationInv
  <2>1. ConversationTypeOK' /\ AddressInv' /\ RightAgentRuns'
    BY DEF ConversationTypeOK, AddressInv, RightAgentRuns, Explicit, Named, BagToSet
  <2>2. WantInv'
    BY DEF WantInv, Single, RouteOf, Explicit, Named, BagToSet
  <2>3. ChosenInv'
    <3>1. \A s \in Senders : Mentions(s)' = Mentions(s)
      BY DEF Mentions, Explicit, Named, BagToSet
    <3>2. \A s \in Senders : Fresh(s)' = Fresh(s)
      BY <3>1 DEF Fresh
    <3>3. QED  BY <3>1, <3>2 DEF ChosenInv, Named
  <2>4. QED  BY <2>1, <2>2, <2>3
<1>4. QED  BY <1>1, <1>2, <1>3 DEF ConversationNext, BagToSet

\* A sender's agent is the one the sender chose, unless mentions raced, and a
\* message that somebody in particular ought to answer would be routed there.
THEOREM ConversationInvariance == ConversationSpec => []ConversationInv
<1>1. ConversationInit => ConversationInv
  BY ConversationStarts
<1>2. ConversationInv /\ [ConversationNext]_talkVars => ConversationInv'
  BY ConversationStep
<1>3. QED  BY <1>1, <1>2, PTL DEF ConversationSpec

\* The right agent answers, for any team, bindings, chain length, retries and
\* number of senders.
THEOREM TheRightAgentRuns == ConversationSpec => []RightAgentRuns
<1>1. ConversationInv => RightAgentRuns
  BY DEF ConversationInv
<1>2. QED  BY <1>1, ConversationInvariance, PTL

=============================================================================
