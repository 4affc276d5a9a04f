----------------------- MODULE OutgoingDeliveryProofs -----------------------
(***************************************************************************)
(* Theorems about OutgoingDelivery, for every number of messages and parts *)
(* and every number of failures and crashes: why a file is removed, how    *)
(* often a part can arrive, and which messages are overtaken.  And about   *)
(* DiscordChunks, for every text: that its chunks are the text, within the *)
(* limit, and with their fences closed.                                    *)
(***************************************************************************)
EXTENDS DiscordChunks, FiniteSetTheorems, SequenceTheorems, WellFoundedInduction,
        TLAPS

\* A round is under way while something is in the batch, and only the first
\* message of the batch has parts that were sent.
RoundInv ==
  /\ phase \in {"idle", "listing"} => batch = {} /\ part = 0
  /\ phase \in {"sending", "acking"} => batch # {}
  /\ \A m \in batch :
       /\ file[m] = "whole"
       /\ Current(m) /\ phase = "sending" => part < PartsOf[m]
       /\ Current(m) /\ phase = "acking" => part = PartsOf[m]

\* The parts of the message under way that the loop is past have arrived, or are
\* files that are gone.
SentInv ==
  \A m \in batch : Current(m) =>
    \A p \in 1 .. PartsOf[m] :
      p <= part => copies[<<m, p>>] > 0 \/ <<m, p>> \in missing

\* The copy of a part that is not owed to a failure or a crash: the one of the
\* round under way, or the one with which the message was removed.
Owed(m, p) ==
  IF file[m] = "removed" \/ (Current(m) /\ p <= part) THEN 1 ELSE 0

CopiesInv ==
  \A m \in Messages : \A p \in 1 .. PartsOf[m] :
    copies[<<m, p>>] < MaxCount => copies[<<m, p>>] <= aborted[m] + crashes + Owed(m, p)

\* A message that was whole is still ahead, was removed, could not be read, or has
\* failed.
SeenInv ==
  \A m \in seen :
    /\ file[m] \in {"whole", "removed"}
    /\ phase = "listing" => file[m] = "whole"
    /\ phase \in {"idle", "sending", "acking"} =>
         m \in batch \/ file[m] = "removed" \/ m \in unread \/ aborted[m] > 0

IInv == TypeOK /\ RoundInv /\ SentInv /\ CopiesInv /\ SeenInv

-----------------------------------------------------------------------------
(* Lemmas.                                                                 *)

LEMMA IsPart ==
  ASSUME NEW m \in Messages, NEW p \in 1 .. PartsOf[m]
  PROVE  <<m, p>> \in Parts
BY DEF Parts

\* The for loop is at one message at a time.
LEMMA OneCurrent ==
  ASSUME batch \subseteq Messages, NEW m, NEW n, Current(m), Current(n)
  PROVE  m = n
BY DeliveryAssumption DEF Current

\* One more copy of one part, and nothing else arrives.
LEMMA Arrival ==
  ASSUME copies \in [Parts -> 0 .. MaxCount],
         NEW m \in Messages, NEW p \in 1 .. PartsOf[m], Received(m, p)
  PROVE  /\ copies' \in [Parts -> 0 .. MaxCount]
         /\ copies'[<<m, p>>] = Count(copies[<<m, p>>])
         /\ \A n \in Messages : \A q \in 1 .. PartsOf[n] :
              <<n, q>> # <<m, p>> => copies'[<<n, q>>] = copies[<<n, q>>]
<1>1. <<m, p>> \in Parts
  BY IsPart
<1>2. Count(copies[<<m, p>>]) \in 0 .. MaxCount
  BY <1>1, DeliveryAssumption DEF Count
<1>3. copies' = [copies EXCEPT ![<<m, p>>] = Count(copies[<<m, p>>])]
  BY DEF Received
<1>4. ASSUME NEW n \in Messages, NEW q \in 1 .. PartsOf[n]
      PROVE  <<n, q>> \in Parts
  BY IsPart
<1> QED
  BY <1>1, <1>2, <1>3, <1>4

\* A failure counts, up to the bound of the history.
LEMMA Aborted ==
  ASSUME aborted \in [Messages -> 0 .. MaxCount], NEW m \in Messages, Abort(m)
  PROVE  /\ aborted' \in [Messages -> 0 .. MaxCount]
         /\ aborted'[m] > 0
         /\ aborted'[m] = aborted[m] + 1
              \/ aborted'[m] = MaxCount
         /\ \A n \in Messages : n # m => aborted'[n] = aborted[n]
BY DeliveryAssumption DEF Abort, Count

-----------------------------------------------------------------------------
(* The invariant is inductive.                                             *)

LEMMA IInvInit == Init => IInv
<1> SUFFICES ASSUME Init PROVE IInv
  OBVIOUS
<1> USE DeliveryAssumption DEF Init
<1>1. \A m \in Messages : \A p \in 1 .. PartsOf[m] : copies[<<m, p>>] = 0
  BY IsPart
<1>2. TypeOK
  BY DEF TypeOK
<1>3. CopiesInv
  BY <1>1 DEF CopiesInv, Owed, Current
<1> QED
  BY <1>2, <1>3 DEF IInv, RoundInv, SentInv, SeenInv

\* What a round leaves when it is done with a message: the rest of the batch,
\* none of whose parts was sent.
LEMMA RoundGoesOn ==
  ASSUME IInv, NEW m \in Messages, Current(m), NextMessage(m),
         \A n \in batch \ {m} : file'[n] = "whole"
  PROVE  RoundInv' /\ SentInv'
<1>1. /\ batch' = batch \ {m}
      /\ part' = 0
      /\ phase' = IF batch' = {} THEN "idle" ELSE "sending"
  BY DEF NextMessage
<1>2. batch \subseteq Messages
  BY DEF IInv, TypeOK
<1>3. \A n \in Messages : PartsOf[n] \in Nat \ {0}
  BY DeliveryAssumption
<1>4. RoundInv'
  BY <1>1, <1>2, <1>3 DEF RoundInv
<1>5. SentInv'
  BY <1>1, <1>2, <1>3 DEF SentInv
<1> QED
  BY <1>4, <1>5

\* A message that failed or was removed needs no copy of the round to account
\* for those that arrived before.
LEMMA CopiesSettled ==
  ASSUME IInv, NEW m \in Messages, Current(m), NextMessage(m),
         TypeOK', crashes' = crashes,
         \/ copies' = copies /\ file'[m] = "removed" /\ aborted' = aborted
         \/ Abort(m) /\ file' = file /\
            \/ copies' = copies
            \/ /\ phase = "sending" /\ part + 1 \in 1 .. PartsOf[m]
               /\ Received(m, part + 1),
         \A n \in Messages : n # m => file'[n] = file[n]
  PROVE  CopiesInv'
<1> SUFFICES ASSUME NEW n \in Messages, NEW p \in 1 .. PartsOf[n],
                    copies'[<<n, p>>] < MaxCount
             PROVE  copies'[<<n, p>>] <= aborted'[n] + crashes' + Owed(n, p)'
  BY DEF CopiesInv
<1>1. TypeOK /\ CopiesInv
  BY DEF IInv
<1>2. <<n, p>> \in Parts /\ p \in Nat /\ PartsOf[n] \in Nat
  BY IsPart, DeliveryAssumption
<1>3. /\ copies[<<n, p>>] \in Nat /\ aborted[n] \in Nat /\ crashes \in Nat
      /\ copies'[<<n, p>>] \in Nat /\ aborted'[n] \in Nat
      /\ part \in Nat /\ MaxCount \in Nat
  BY <1>1, <1>2, DeliveryAssumption DEF TypeOK
<1>4. Owed(n, p) \in {0, 1} /\ Owed(n, p)' \in {0, 1}
  BY DEF Owed
<1>5. copies[<<n, p>>] < MaxCount => copies[<<n, p>>] <= aborted[n] + crashes + Owed(n, p)
  BY <1>1 DEF CopiesInv
<1>6. CASE n # m
  <2>1. copies'[<<n, p>>] = copies[<<n, p>>]
    BY <1>1, <1>6, Arrival DEF TypeOK
  <2>2. aborted'[n] = aborted[n]
    BY <1>1, <1>6, Aborted DEF TypeOK
  <2>3. Owed(n, p) = 1 => Owed(n, p)' = 1
    <3>1. ~Current(n)
      BY <1>1, <1>6, OneCurrent DEF TypeOK
    <3>2. file'[n] = file[n]
      BY <1>6
    <3> QED
      BY <3>1, <3>2 DEF Owed
  <2> QED
    BY <1>3, <1>4, <1>5, <2>1, <2>2, <2>3
<1>7. CASE n = m /\ copies' = copies /\ file'[m] = "removed" /\ aborted' = aborted
  <2>1. Owed(n, p)' = 1
    BY <1>7 DEF Owed
  <2> QED
    BY <1>3, <1>4, <1>5, <1>7, <2>1
<1>8. CASE n = m /\ Abort(m) /\ copies' = copies
  <2>1. aborted'[n] = aborted[n] + 1 \/ aborted'[n] = MaxCount
    BY <1>1, <1>8, Aborted DEF TypeOK
  <2> QED
    BY <1>3, <1>4, <1>5, <1>8, <2>1
<1>9. CASE /\ n = m /\ Abort(m) /\ file' = file
           /\ part + 1 \in 1 .. PartsOf[m] /\ Received(m, part + 1)
  <2>1. aborted'[n] = aborted[n] + 1 \/ aborted'[n] = MaxCount
    BY <1>1, <1>9, Aborted DEF TypeOK
  <2>2. CASE p = part + 1
    <3>1. copies'[<<n, p>>] = Count(copies[<<n, p>>])
      BY <1>1, <1>9, <2>2, Arrival DEF TypeOK
    <3>2. copies[<<n, p>>] < MaxCount /\ copies'[<<n, p>>] = copies[<<n, p>>] + 1
      BY <1>3, <3>1 DEF Count
    <3>3. file[m] = "whole"
      BY DEF IInv, RoundInv, Current
    <3>4. Owed(n, p) = 0
      BY <1>3, <1>9, <2>2, <3>3 DEF Owed
    <3> QED
      BY <1>3, <1>4, <1>5, <2>1, <3>2, <3>4
  <2>3. CASE p # part + 1
    <3>1. copies'[<<n, p>>] = copies[<<n, p>>]
      BY <1>1, <1>9, <2>3, Arrival DEF TypeOK
    <3> QED
      BY <1>3, <1>4, <1>5, <2>1, <3>1
  <2> QED
    BY <2>2, <2>3
<1> QED
  BY <1>6, <1>7, <1>8, <1>9

LEMMA SeenSettled ==
  ASSUME IInv, NEW m \in Messages, NextMessage(m), TypeOK',
         file'[m] = "removed" \/ aborted'[m] > 0,
         file'[m] \in {file[m], "removed"},
         \A n \in Messages : n # m => file'[n] = file[n] /\ aborted'[n] = aborted[n],
         phase \in {"sending", "acking"}
  PROVE  SeenInv'
<1>1. /\ seen' = seen /\ seen \subseteq Messages /\ unread' = unread
      /\ batch' = batch \ {m}
      /\ phase' \in {"idle", "sending"}
  BY DEF NextMessage, IInv, TypeOK
<1>2. ASSUME NEW n \in seen PROVE file[n] \in {"whole", "removed"}
  BY DEF IInv, SeenInv
<1>3. ASSUME NEW n \in seen, n # m
      PROVE  n \in batch' \/ file'[n] = "removed" \/ n \in unread' \/ aborted'[n] > 0
  BY <1>1, <1>3 DEF IInv, SeenInv
<1> QED
  BY <1>1, <1>2, <1>3 DEF SeenInv

\* The end of a message's turn in the round.
LEMMA TurnEnds ==
  ASSUME IInv, NEW m \in Messages,
         SendFails(m) \/ DropRefused(m) \/ RetryRefused(m) \/ Ack(m) \/ AckFails(m)
  PROVE  IInv'
<1> USE DEF Sending, Acking, AfterError
<1>1. TypeOK /\ Current(m) /\ NextMessage(m) /\ phase \in {"sending", "acking"}
      /\ crashes' = crashes /\ missing' = missing /\ access' = access
  BY DEF IInv, SendFails, DropRefused, RetryRefused, Ack, AckFails, worldVars
<1>2. part \in Nat /\ PartsOf[m] \in Nat \ {0}
  BY <1>1, DeliveryAssumption DEF TypeOK
<1>4. \/ /\ Unlink(m)
         /\ UNCHANGED <<copies, aborted>>
      \/ /\ Abort(m)
         /\ file' = file
         /\ \/ copies' = copies
            \/ /\ phase = "sending" /\ part + 1 \in 1 .. PartsOf[m]
               /\ Received(m, part + 1)
  <2>1. CASE SendFails(m)
    <3>1. phase = "sending" /\ Abort(m) /\ file' = file
      BY <2>1 DEF SendFails
    <3>2. part < PartsOf[m]
      BY <3>1, <1>1, <1>2 DEF IInv, RoundInv, Current
    <3> QED
      BY <2>1, <3>1, <3>2, <1>2 DEF SendFails
  <2>2. CASE DropRefused(m)
    BY <2>2 DEF DropRefused
  <2>3. CASE RetryRefused(m)
    BY <2>3 DEF RetryRefused
  <2>4. CASE Ack(m)
    BY <2>4 DEF Ack
  <2>5. CASE AckFails(m)
    BY <2>5 DEF AckFails
  <2> QED
    BY <2>1, <2>2, <2>3, <2>4, <2>5
<1>5. /\ file' \in [Messages -> {"absent", "torn", "orphan", "whole", "removed"}]
      /\ file'[m] \in {file[m], "removed"}
      /\ \A n \in Messages : n # m => file'[n] = file[n]
  BY <1>1, <1>4 DEF TypeOK, Unlink
<1>6. /\ aborted' \in [Messages -> 0 .. MaxCount]
      /\ \A n \in Messages : n # m => aborted'[n] = aborted[n]
      /\ file'[m] = "removed" \/ aborted'[m] > 0
  BY <1>1, <1>4, Aborted DEF TypeOK, Unlink
<1>7. copies' \in [Parts -> 0 .. MaxCount]
  BY <1>1, <1>4, Arrival DEF TypeOK
<1>8. faults' \in 0 .. MaxFaults
  BY <1>1, DeliveryAssumption
     DEF TypeOK, SendFails, DropRefused, RetryRefused, Ack, AckFails
<1>9. TypeOK'
  BY <1>1, <1>5, <1>6, <1>7, <1>8 DEF TypeOK, NextMessage
<1>10. RoundInv' /\ SentInv'
  <2>1. \A n \in batch \ {m} : file'[n] = "whole"
    BY <1>1, <1>5 DEF IInv, RoundInv, TypeOK
  <2> QED
    BY <1>1, <2>1, RoundGoesOn
<1>11. CopiesInv'
  <2>1. CASE Unlink(m) /\ UNCHANGED <<copies, aborted>>
    <3>1. file'[m] = "removed"
      BY <1>1, <2>1 DEF TypeOK, Unlink
    <3> QED
      BY <1>1, <1>5, <1>9, <2>1, <3>1, CopiesSettled
  <2>2. CASE ~(Unlink(m) /\ UNCHANGED <<copies, aborted>>)
    BY <1>1, <1>4, <1>5, <1>9, <2>2, CopiesSettled
  <2> QED
    BY <2>1, <2>2
<1>12. SeenInv'
  BY <1>1, <1>5, <1>6, <1>9, SeenSettled
<1> QED
  BY <1>9, <1>10, <1>11, <1>12 DEF IInv

LEMMA PartSent ==
  ASSUME IInv, NEW m \in Messages, SendPart(m)
  PROVE  IInv'
<1> DEFINE q == part + 1
<1>1. /\ TypeOK /\ phase = "sending" /\ Current(m)
      /\ Received(m, q)
      /\ part' = q
      /\ phase' = IF q = PartsOf[m] THEN "acking" ELSE "sending"
      /\ UNCHANGED <<file, seen, unread, batch, missing, access, faults, crashes,
                     aborted>>
  BY DEF IInv, SendPart, Sending, Sent, worldVars
<1>2. part \in Nat /\ PartsOf[m] \in Nat /\ part < PartsOf[m]
  BY <1>1, DeliveryAssumption DEF TypeOK, IInv, RoundInv, Current
<1>3. q \in 1 .. PartsOf[m]
  BY <1>2
<1>4. /\ copies' \in [Parts -> 0 .. MaxCount]
      /\ copies'[<<m, q>>] = Count(copies[<<m, q>>])
      /\ \A n \in Messages : \A p \in 1 .. PartsOf[n] :
           <<n, p>> # <<m, q>> => copies'[<<n, p>>] = copies[<<n, p>>]
  BY <1>1, <1>3, Arrival DEF TypeOK
<1>5. \A n : Current(n)' <=> Current(n)
  BY <1>1 DEF Current
<1>6. \A n : Current(n) => n = m
  BY <1>1, OneCurrent DEF TypeOK
<1>7. TypeOK'
  BY <1>1, <1>2, <1>4 DEF TypeOK
<1>8. RoundInv'
  BY <1>1, <1>2, <1>5, <1>6 DEF RoundInv, IInv, Current
<1>9. SentInv'
  <2> SUFFICES ASSUME NEW p \in 1 .. PartsOf[m], p <= q
               PROVE  copies'[<<m, p>>] > 0 \/ <<m, p>> \in missing'
    BY <1>1, <1>5, <1>6 DEF SentInv
  <2>1. CASE p = q
    <3>1. copies[<<m, q>>] \in 0 .. MaxCount
      BY <1>1, <1>3, IsPart DEF TypeOK
    <3> QED
      BY <1>4, <2>1, <3>1, DeliveryAssumption DEF Count
  <2>2. CASE p # q
    <3>1. p <= part
      BY <1>2, <2>2
    <3>2. copies[<<m, p>>] > 0 \/ <<m, p>> \in missing
      BY <1>1, <3>1 DEF IInv, SentInv, Current
    <3> QED
      BY <1>1, <1>4, <2>2, <3>2
  <2> QED
    BY <2>1, <2>2
<1>10. CopiesInv'
  <2> SUFFICES ASSUME NEW n \in Messages, NEW p \in 1 .. PartsOf[n],
                      copies'[<<n, p>>] < MaxCount
               PROVE  copies'[<<n, p>>] <= aborted'[n] + crashes' + Owed(n, p)'
    BY DEF CopiesInv
  <2>1. copies[<<n, p>>] < MaxCount =>
          copies[<<n, p>>] <= aborted[n] + crashes + Owed(n, p)
    BY DEF IInv, CopiesInv
  <2>2. /\ copies[<<n, p>>] \in Nat /\ aborted[n] \in Nat /\ crashes \in Nat
        /\ p \in Nat
    BY <1>1, IsPart, DeliveryAssumption DEF TypeOK
  <2>3. CASE <<n, p>> = <<m, q>>
    <3>1. copies[<<n, p>>] < MaxCount /\ copies'[<<n, p>>] = copies[<<n, p>>] + 1
      BY <1>4, <2>2, <2>3 DEF Count
    <3>2. Owed(n, p) = 0
      <4>1. file[m] = "whole"
        BY <1>1 DEF IInv, RoundInv, Current
      <4> QED
        BY <1>2, <2>3, <4>1 DEF Owed
    <3>3. Owed(n, p)' = 1
      BY <1>1, <1>2, <1>5, <2>3 DEF Owed
    <3> QED
      BY <1>1, <2>1, <2>2, <3>1, <3>2, <3>3
  <2>4. CASE <<n, p>> # <<m, q>>
    <3>1. copies'[<<n, p>>] = copies[<<n, p>>]
      BY <1>4, <2>4
    <3>2. Owed(n, p) = 1 => Owed(n, p)' = 1
      BY <1>1, <1>2, <1>5, <2>2 DEF Owed
    <3>3. Owed(n, p) \in {0, 1} /\ Owed(n, p)' \in {0, 1}
      BY DEF Owed
    <3> QED
      BY <1>1, <2>1, <2>2, <3>1, <3>2, <3>3
  <2> QED
    BY <2>3, <2>4
<1>11. SeenInv'
  BY <1>1 DEF IInv, SeenInv
<1> QED
  BY <1>7, <1>8, <1>9, <1>10, <1>11 DEF IInv

\* A part that is skipped needs no copy.
LEMMA PartSkipped ==
  ASSUME IInv, NEW m \in Messages, SkipPart(m)
  PROVE  IInv'
<1> DEFINE q == part + 1
<1>1. /\ TypeOK /\ phase = "sending" /\ Current(m)
      /\ <<m, q>> \in missing
      /\ part' = q
      /\ phase' = IF q = PartsOf[m] THEN "acking" ELSE "sending"
      /\ UNCHANGED <<file, seen, unread, batch, missing, access, faults, crashes,
                     copies, aborted>>
  BY DEF IInv, SkipPart, Sending, Skipped, Sent, worldVars
<1>2. part \in Nat /\ PartsOf[m] \in Nat /\ part < PartsOf[m]
  BY <1>1, DeliveryAssumption DEF TypeOK, IInv, RoundInv, Current
<1>3. \A n : Current(n)' <=> Current(n)
  BY <1>1 DEF Current
<1>4. \A n : Current(n) => n = m
  BY <1>1, OneCurrent DEF TypeOK
<1>5. TypeOK'
  BY <1>1, <1>2 DEF TypeOK
<1>6. RoundInv'
  BY <1>1, <1>2, <1>3, <1>4 DEF RoundInv, IInv, Current
<1>7. SentInv'
  <2> SUFFICES ASSUME NEW p \in 1 .. PartsOf[m], p <= q
               PROVE  copies[<<m, p>>] > 0 \/ <<m, p>> \in missing
    BY <1>1, <1>3, <1>4 DEF SentInv
  <2>1. CASE p = q
    BY <1>1, <2>1
  <2>2. CASE p # q
    <3>1. p <= part
      BY <1>2, <2>2
    <3> QED
      BY <1>1, <3>1 DEF IInv, SentInv, Current
  <2> QED
    BY <2>1, <2>2
<1>8. CopiesInv'
  <2> SUFFICES ASSUME NEW n \in Messages, NEW p \in 1 .. PartsOf[n],
                      copies[<<n, p>>] < MaxCount
               PROVE  copies[<<n, p>>] <= aborted[n] + crashes + Owed(n, p)'
    BY <1>1 DEF CopiesInv
  <2>1. copies[<<n, p>>] <= aborted[n] + crashes + Owed(n, p)
    BY DEF IInv, CopiesInv
  <2>2. /\ copies[<<n, p>>] \in Nat /\ aborted[n] \in Nat /\ crashes \in Nat
        /\ p \in Nat
    BY <1>1, IsPart, DeliveryAssumption DEF TypeOK
  <2>3. Owed(n, p) = 1 => Owed(n, p)' = 1
    BY <1>1, <1>2, <1>3, <2>2 DEF Owed
  <2>4. Owed(n, p) \in {0, 1} /\ Owed(n, p)' \in {0, 1}
    BY DEF Owed
  <2> QED
    BY <2>1, <2>2, <2>3, <2>4
<1>9. SeenInv'
  BY <1>1 DEF IInv, SeenInv
<1> QED
  BY <1>5, <1>6, <1>7, <1>8, <1>9 DEF IInv

\* Around the loop files and access come and go; nothing else changes.
LEMMA WorldStep ==
  ASSUME IInv,
         (\E x \in Attached : RemoveAttachment(x)) \/ LoseAccess \/ RegainAccess
  PROVE  IInv'
<1>1. UNCHANGED <<file, phase, seen, unread, batch, part, crashes, copies, aborted>>
  BY DEF RemoveAttachment, LoseAccess, RegainAccess, loopVars
<1>2. /\ missing' \subseteq Attached /\ missing \subseteq missing'
      /\ access' \in BOOLEAN
  BY DEF IInv, TypeOK, RemoveAttachment, LoseAccess, RegainAccess
<1>3. faults' \in 0 .. MaxFaults
  BY DeliveryAssumption DEF IInv, TypeOK, RemoveAttachment, LoseAccess, RegainAccess
<1>4. TypeOK'
  BY <1>1, <1>2, <1>3 DEF IInv, TypeOK
<1>5. RoundInv' /\ CopiesInv' /\ SeenInv'
  BY <1>1 DEF IInv, RoundInv, CopiesInv, SeenInv, Owed, Current
<1>6. SentInv'
  BY <1>1, <1>2 DEF IInv, SentInv, Current
<1> QED
  BY <1>4, <1>5, <1>6 DEF IInv

\* The steps that send nothing.
LEMMA ProducerStep ==
  ASSUME IInv, NEW m \in Messages, EnqueueOpen(m) \/ EnqueueClose(m)
  PROVE  IInv'
<1>1. /\ TypeOK
      /\ UNCHANGED <<phase, seen, unread, batch, part, missing, access, faults, crashes,
                     copies, aborted>>
      /\ file[m] \in {"absent", "torn"}
      /\ file' \in [Messages -> {"absent", "torn", "orphan", "whole", "removed"}]
      /\ file'[m] \in {"torn", "whole"}
      /\ \A n \in Messages : n # m => file'[n] = file[n]
  BY DEF IInv, TypeOK, EnqueueOpen, EnqueueClose, loopVars, worldVars
<1>2. m \notin batch /\ m \notin seen
  BY <1>1 DEF IInv, RoundInv, SeenInv
<1>3. \A n : Current(n)' <=> Current(n)
  BY <1>1 DEF Current
<1>4. TypeOK'
  BY <1>1 DEF TypeOK
<1>5. RoundInv' /\ SentInv' /\ SeenInv'
  BY <1>1, <1>2, <1>3 DEF IInv, TypeOK, RoundInv, SentInv, SeenInv
<1>6. CopiesInv'
  <2> SUFFICES ASSUME NEW n \in Messages, NEW p \in 1 .. PartsOf[n]
               PROVE  Owed(n, p)' = Owed(n, p)
    BY <1>1 DEF IInv, CopiesInv
  <2> QED
    BY <1>1, <1>3 DEF Owed
<1> QED
  BY <1>4, <1>5, <1>6 DEF IInv

LEMMA ListingStep ==
  ASSUME IInv, BeginListing \/ EndListing
  PROVE  IInv'
<1>1. /\ TypeOK
      /\ phase \in {"idle", "listing"} /\ batch = {} /\ part = 0
      /\ UNCHANGED <<file, part, missing, access, crashes, copies, aborted>>
  BY DEF IInv, RoundInv, BeginListing, EndListing, worldVars
<1>8. faults' \in 0 .. MaxFaults
  <2>1. CASE BeginListing
    BY <1>1, <2>1 DEF BeginListing, TypeOK
  <2>2. CASE EndListing
    BY <1>1, <2>2, DeliveryAssumption DEF EndListing, TypeOK
  <2> QED
    BY <2>1, <2>2
<1>2. /\ seen' \subseteq Messages /\ unread' \subseteq seen'
      /\ \A n \in seen' \cup batch' : n \in Messages /\ file[n] = "whole"
      /\ phase' \in {"idle", "listing", "sending"}
      /\ phase' \in {"idle", "listing"} => batch' = {}
      /\ phase' = "sending" => batch' # {}
      /\ phase' # "listing" => seen' \subseteq batch' \cup unread'
  <2>1. CASE BeginListing
    BY <1>1, <2>1 DEF BeginListing, In
  <2>2. CASE EndListing
    BY <1>1, <2>2 DEF EndListing, In, IInv, TypeOK, SeenInv
  <2> QED
    BY <2>1, <2>2
<1>3. TypeOK'
  BY <1>1, <1>2, <1>8 DEF TypeOK
<1>4. RoundInv'
  <2>1. \A n \in Messages : PartsOf[n] > 0
    BY DeliveryAssumption
  <2> QED
    BY <1>1, <1>2, <2>1 DEF RoundInv
<1>5. SentInv'
  BY <1>1, DeliveryAssumption DEF SentInv
<1>6. CopiesInv'
  <2> SUFFICES ASSUME NEW n \in Messages, NEW p \in 1 .. PartsOf[n]
               PROVE  Owed(n, p)' = Owed(n, p)
    BY <1>1 DEF IInv, CopiesInv
  <2> QED
    BY <1>1, DeliveryAssumption DEF Owed, Current
<1>7. SeenInv'
  BY <1>1, <1>2 DEF SeenInv
<1> QED
  BY <1>3, <1>4, <1>5, <1>6, <1>7 DEF IInv

\* A crash ends the round: whatever has arrived is owed to it.
LEMMA CrashStep ==
  ASSUME IInv, Crash
  PROVE  IInv'
<1>1. /\ TypeOK
      /\ crashes' = crashes + 1 /\ crashes' \in 0 .. MaxCrashes
      /\ phase' = "idle" /\ seen' = {} /\ unread' = {} /\ batch' = {} /\ part' = 0
      /\ UNCHANGED <<missing, access, faults, copies, aborted>>
  BY DeliveryAssumption DEF IInv, TypeOK, Crash, worldVars
<1>2. /\ file' \in [Messages -> {"absent", "torn", "orphan", "whole", "removed"}]
      /\ \A n \in Messages : file[n] = "removed" <=> file'[n] = "removed"
  BY <1>1 DEF TypeOK, Crash
<1>3. TypeOK'
  BY <1>1, <1>2 DEF TypeOK
<1>4. RoundInv' /\ SentInv' /\ SeenInv'
  BY <1>1 DEF RoundInv, SentInv, SeenInv
<1>5. CopiesInv'
  <2> SUFFICES ASSUME NEW n \in Messages, NEW p \in 1 .. PartsOf[n],
                      copies'[<<n, p>>] < MaxCount
               PROVE  copies'[<<n, p>>] <= aborted'[n] + crashes' + Owed(n, p)'
    BY DEF CopiesInv
  <2>1. /\ copies[<<n, p>>] \in Nat /\ aborted[n] \in Nat /\ crashes \in Nat
        /\ copies[<<n, p>>] <= aborted[n] + crashes + Owed(n, p)
    BY <1>1, IsPart, DeliveryAssumption DEF TypeOK, IInv, CopiesInv
  <2>2. Owed(n, p) \in {0, 1} /\ Owed(n, p)' \in {0, 1}
    BY DEF Owed
  <2> QED
    BY <1>1, <2>1, <2>2
<1> QED
  BY <1>3, <1>4, <1>5 DEF IInv

THEOREM Invariance == Spec => []IInv
<1>1. IInv /\ [Next]_vars => IInv'
  <2> SUFFICES ASSUME IInv, [Next]_vars PROVE IInv'
    OBVIOUS
  <2>1. CASE UNCHANGED vars
    <3>1. UNCHANGED <<file, phase, seen, unread, batch, part, missing, access, faults,
                     crashes, copies, aborted>>
      BY <2>1 DEF vars, loopVars, worldVars
    <3> QED
      BY <3>1
         DEF IInv, TypeOK, RoundInv, SentInv, CopiesInv, SeenInv, Owed, Current
  <2>2. CASE Loop
    BY <2>2, ListingStep, PartSent, PartSkipped, TurnEnds DEF Loop
  <2>3. CASE \E m \in Messages : EnqueueOpen(m) \/ EnqueueClose(m)
    BY <2>3, ProducerStep
  <2>4. CASE \E m \in Messages : SendFails(m) \/ AckFails(m)
    BY <2>4, TurnEnds
  <2>5. CASE Crash
    BY <2>5, CrashStep
  <2>6. CASE (\E x \in Attached : RemoveAttachment(x)) \/ LoseAccess \/ RegainAccess
    BY <2>6, WorldStep
  <2> QED
    BY <2>1, <2>2, <2>3, <2>4, <2>5, <2>6 DEF Next
<1> QED
  BY <1>1, IInvInit, PTL DEF Spec

-----------------------------------------------------------------------------
(* What follows from it.                                                   *)

\* The type invariant holds.
THEOREM TypeCorrect == Spec => []TypeOK
BY Invariance, PTL DEF IInv

\* However many messages, parts, failures and restarts: without a failed round
\* or a crash no part of a message reaches the platform twice.
THEOREM NothingIsRepeatedWithoutCause == Spec => []CopiesBounded
<1>1. IInv => CopiesBounded
  <2> SUFFICES ASSUME IInv, NEW m \in Messages, NEW p \in 1 .. PartsOf[m],
                      copies[<<m, p>>] < MaxCount
               PROVE  copies[<<m, p>>] <= 1 + aborted[m] + crashes
    BY DEF CopiesBounded
  <2>1. copies[<<m, p>>] <= aborted[m] + crashes + Owed(m, p)
    BY DEF IInv, CopiesInv
  <2>2. Owed(m, p) \in {0, 1}
    BY DEF Owed
  <2>3. copies[<<m, p>>] \in Nat /\ aborted[m] \in Nat /\ crashes \in Nat
    BY IsPart, DeliveryAssumption DEF IInv, TypeOK
  <2> QED
    BY <2>1, <2>2, <2>3
<1> QED
  BY <1>1, Invariance, PTL

\* A file is removed when all its parts have arrived or are files that are gone, or
\* on a refusal that the connector takes to be permanent: a crash or a failure
\* between the last part and the acknowledgement loses nothing.
THEOREM NothingIsDroppedUnsent == Spec => RemovedHasCause
<1>1. IInv /\ [Next]_vars =>
        (\A m \in Messages :
           Whole(m) /\ file'[m] = "removed" =>
             \/ \A p \in 1 .. PartsOf[m] :
                  copies[<<m, p>>] > 0 \/ <<m, p>> \in missing
             \/ m \in Recognized
             \/ ~access /\ DropsNoAccess)
  <2> SUFFICES ASSUME IInv, [Next]_vars, NEW m \in Messages,
                      file[m] = "whole", file'[m] = "removed", m \notin Recognized,
                      ~(~access /\ DropsNoAccess)
               PROVE  \A p \in 1 .. PartsOf[m] :
                        copies[<<m, p>>] > 0 \/ <<m, p>> \in missing
    BY DEF Whole
  <2>1. Ack(m) \/ DropRefused(m)
    <3>1. ~UNCHANGED file /\ file \in [Messages -> {"absent", "torn", "orphan", "whole",
                                                   "removed"}]
      BY DEF IInv, TypeOK
    <3>2. ~Crash /\ ~\E x \in Messages : EnqueueOpen(x) \/ EnqueueClose(x)
      BY <3>1 DEF Crash, EnqueueOpen, EnqueueClose
    <3>3. PICK x \in Messages : Ack(x) \/ DropRefused(x)
      BY <3>1, <3>2
         DEF Next, Loop, vars, BeginListing, EndListing, SendPart, SkipPart,
             RetryRefused, SendFails, AckFails, RemoveAttachment, LoseAccess,
             RegainAccess
    <3>4. Unlink(x)
      BY <3>3 DEF Ack, DropRefused
    <3> QED
      BY <3>1, <3>3, <3>4 DEF Unlink
  <2>2. ~DropRefused(m)
    BY DEF DropRefused, Known
  <2>3. phase = "acking" /\ Current(m) /\ m \in batch
    BY <2>1, <2>2 DEF Ack, Acking, Current
  <2>4. part = PartsOf[m] /\ PartsOf[m] \in Nat
    BY <2>3, DeliveryAssumption DEF IInv, RoundInv
  <2> QED
    BY <2>3, <2>4 DEF IInv, SentInv
<1> QED
  BY <1>1, Invariance, PTL DEF Spec, RemovedHasCause

\* A message that was whole when a round began is overtaken only if the listing
\* could not read it or if it failed.
THEOREM OrderIsKept == Spec => OvertakingHasCause
<1>1. IInv /\ [Next]_vars =>
        (\A m, n \in Messages :
           m < n /\ m \in seen /\ Whole(m) /\ Reaches(n) =>
             m \in unread \/ aborted[m] > 0)
  <2> SUFFICES ASSUME IInv, [Next]_vars, NEW m \in Messages, NEW n \in Messages,
                      m < n, m \in seen, file[m] = "whole", Reaches(n)
               PROVE  m \in unread \/ aborted[m] > 0
    BY DEF Whole
  <2>1. ~UNCHANGED copies
    BY DEF Reaches
  <2>2. PICK x \in Messages : SendPart(x) \/ SendFails(x)
    BY <2>1
       DEF Next, Loop, vars, EnqueueOpen, EnqueueClose, BeginListing,
           EndListing, SkipPart, DropRefused, RetryRefused, Ack, AckFails, Crash,
           RemoveAttachment, LoseAccess, RegainAccess
  <2>3. phase = "sending" /\ Current(x) /\ Received(x, part + 1)
    BY <2>1, <2>2 DEF SendPart, SendFails, Sending
  <2>4. /\ copies \in [Parts -> 0 .. MaxCount] /\ part \in Nat
        /\ part + 1 \in 1 .. PartsOf[x]
    BY <2>3, DeliveryAssumption DEF IInv, TypeOK, RoundInv, Current
  <2>5. x = n
    BY <2>3, <2>4, Arrival DEF Reaches
  <2>6. m \notin batch
    BY <2>3, <2>5, DeliveryAssumption DEF Current
  <2> QED
    BY <2>3, <2>6 DEF IInv, SeenInv
<1> QED
  BY <1>1, Invariance, PTL DEF Spec, OvertakingHasCause

-----------------------------------------------------------------------------
(* Induction over the numbers up to n, for sets and functions.              *)

\* A set of numbers that is not empty has a least element.
LEMMA LeastNumber ==
  ASSUME NEW T, T \subseteq Nat, T # {}
  PROVE  \E x \in T : \A y \in T : x <= y
<1> DEFINE R == {ss \in Nat \X Nat : ss[1] < ss[2]}
<1>1. IsWellFoundedOn(R, Nat)
  BY NatLessThanWellFounded DEF OpToRel
<1>2. \A x, y \in Nat : <<y, x>> \in R <=> y < x
  OBVIOUS
<1> HIDE DEF R
<1>3. PICK x \in T : \A y \in T : ~(<<y, x>> \in R)
  BY <1>1, WFMin
<1>4. ASSUME NEW y \in T PROVE x <= y
  <2>1. x \in Nat /\ y \in Nat /\ ~(y < x)
    BY <1>2, <1>3
  <2>2. QED  BY <2>1
<1>5. QED  BY <1>4

\* A set that has 0, and each next number up to n, has all of them.
LEMMA Induct ==
  ASSUME NEW n \in Nat, NEW P, 0 \in P,
         \A i \in 0 .. n : i + 1 <= n /\ i \in P => i + 1 \in P
  PROVE  \A i \in 0 .. n : i \in P
<1> DEFINE T == {i \in 0 .. n : i \notin P}
<1>1. SUFFICES ASSUME T # {} PROVE FALSE
  OBVIOUS
<1>2. PICK x \in T : \A y \in T : x <= y
  <2> HIDE DEF T
  <2>1. T \subseteq Nat
    BY DEF T
  <2>2. QED  BY <1>1, <2>1, LeastNumber
<1>3. x \in Nat /\ x <= n /\ x # 0 /\ x \notin P
  OBVIOUS
<1>4. x - 1 \in 0 .. n /\ (x - 1) + 1 = x
  BY <1>3
<1>5. x - 1 \notin T
  BY <1>2, <1>3, <1>4
<1>6. x - 1 \in P
  BY <1>4, <1>5
<1>7. QED  BY <1>3, <1>4, <1>6

\* A recursion over the numbers up to n has a value.
Follows(n, base, step, f) ==
  f[0] = base /\ \A i \in 1 .. n : f[i] = step[i][f[i - 1]]

\* Such a function exists.
LEMMA RecursionExists ==
  ASSUME NEW n \in Nat, NEW S, NEW base \in S, NEW step \in [Nat -> [S -> S]]
  PROVE  \E f \in [0 .. n -> S] : Follows(n, base, step, f)
<1> DEFINE P == {k \in Nat : \E f \in [0 .. k -> S] : Follows(k, base, step, f)}
<1>1. 0 \in P
  <2> DEFINE f == [i \in 0 .. 0 |-> base]
  <2>1. f \in [0 .. 0 -> S] /\ f[0] = base
    OBVIOUS
  <2> HIDE DEF f
  <2>2. Follows(0, base, step, f)
    BY <2>1 DEF Follows
  <2>3. QED  BY <2>1, <2>2
<1>2. ASSUME NEW k \in 0 .. n, k + 1 <= n, k \in P PROVE k + 1 \in P
  <2>1. PICK f \in [0 .. k -> S] : Follows(k, base, step, f)
    BY <1>2
  <2> DEFINE g == [i \in 0 .. k + 1 |-> IF i <= k THEN f[i] ELSE step[k + 1][f[k]]]
  <2>2. k \in Nat /\ step[k + 1] \in [S -> S] /\ f[k] \in S
    OBVIOUS
  <2>3. g \in [0 .. k + 1 -> S]
    BY <2>2
  <2>4. \A i \in 1 .. k : g[i] = step[i][g[i - 1]]
    <3>1. ASSUME NEW i \in 1 .. k PROVE g[i] = step[i][g[i - 1]]
      <4>1. i <= k /\ i - 1 <= k /\ i \in 0 .. k + 1 /\ i - 1 \in 0 .. k + 1
        BY <2>2
      <4>2. g[i] = f[i] /\ g[i - 1] = f[i - 1]
        BY <4>1
      <4>3. QED  BY <2>1, <4>2 DEF Follows
    <3>2. QED  BY <3>1
  <2>5. g[k + 1] = step[k + 1][g[k]] /\ g[0] = base
    <3>1. g[0] = f[0] /\ g[k] = f[k] /\ g[k + 1] = step[k + 1][f[k]]
      BY <2>2
    <3>2. QED  BY <2>1, <3>1 DEF Follows
  <2> HIDE DEF g
  <2>6. ASSUME NEW i \in 1 .. k + 1 PROVE g[i] = step[i][g[i - 1]]
    <3>1. CASE i = k + 1
      BY <2>2, <2>5, <3>1
    <3>2. CASE i # k + 1
      <4>1. i \in 1 .. k
        BY <2>2, <3>2
      <4>2. QED  BY <2>4, <4>1
    <3>3. QED  BY <3>1, <3>2
  <2>7. Follows(k + 1, base, step, g)
    BY <2>5, <2>6 DEF Follows
  <2>8. QED  BY <2>2, <2>3, <2>7
<1> HIDE DEF P
<1>3. \A i \in 0 .. n : i \in P
  BY <1>1, <1>2, Induct
<1>4. n \in 0 .. n
  OBVIOUS
<1>5. QED  BY <1>3, <1>4 DEF P

-----------------------------------------------------------------------------
(* split_at_boundaries keeps the text.                                      *)

\* FlattenSeq by its own recursion.
Flattens(seqs, f) ==
  f = [i \in 1 .. Len(seqs) |-> IF i = 1 THEN seqs[i] ELSE f[i - 1] \o seqs[i]]

\* FlattenSeq is the last value of its recursion.
LEMMA FlattenIs ==
  ASSUME NEW seqs \in Seq(Seq(Letters)), Len(seqs) > 0
  PROVE  \E f : Flattens(seqs, f) /\ FlattenSeq(seqs) = f[Len(seqs)]
<1> DEFINE S == Seq(Letters)
           step == [i \in Nat |-> [s \in S |->
                      IF i \in 1 .. Len(seqs) THEN s \o seqs[i] ELSE s]]
<1>1. <<>> \in S /\ Len(seqs) \in Nat
  OBVIOUS
<1>2. step \in [Nat -> [S -> S]]
  <2>1. ASSUME NEW i \in Nat, NEW s \in S
        PROVE  (IF i \in 1 .. Len(seqs) THEN s \o seqs[i] ELSE s) \in S
    OBVIOUS
  <2> HIDE DEF S
  <2>2. QED  BY <2>1
<1> DEFINE base == <<>>
<1>3. base \in S /\ \A i \in 1 .. Len(seqs) : base \o seqs[i] = seqs[i]
  BY <1>1, ConcatEmptySeq
<1> HIDE DEF base
<1>4. PICK g \in [0 .. Len(seqs) -> S] : Follows(Len(seqs), base, step, g)
  <2> DEFINE n == Len(seqs)
  <2>1. n \in Nat /\ base \in S
    BY <1>1, <1>3
  <2> HIDE DEF S, step, n
  <2>2. \E g \in [0 .. n -> S] : Follows(n, base, step, g)
    BY <1>2, <2>1, RecursionExists
  <2>3. QED  BY <2>2 DEF n
<1> DEFINE f == [i \in 1 .. Len(seqs) |-> g[i]]
<1>5. ASSUME NEW i \in 1 .. Len(seqs)
      PROVE  f[i] = IF i = 1 THEN seqs[i] ELSE f[i - 1] \o seqs[i]
  <2>1. i \in Nat /\ i - 1 \in 0 .. Len(seqs)
    OBVIOUS
  <2>2. g[i] = step[i][g[i - 1]]
    <3> HIDE DEF step
    <3>1. QED  BY <1>4 DEF Follows
  <2>3. g[i - 1] \in S
    BY <2>1
  <2>4. g[i] = g[i - 1] \o seqs[i]
    BY <2>1, <2>2, <2>3
  <2>5. CASE i = 1
    <3>1. g[i - 1] = base
      BY <1>4, <2>5 DEF Follows
    <3>2. QED  BY <1>3, <2>4, <2>5, <3>1
  <2>6. CASE i # 1
    <3>1. i - 1 \in 1 .. Len(seqs)
      BY <2>1, <2>6
    <3>2. QED  BY <2>4, <2>6, <3>1
  <2>7. QED  BY <2>5, <2>6
<1>6. f = [i \in 1 .. Len(seqs) |-> f[i]]
  OBVIOUS
<1> HIDE DEF f
<1>7. Flattens(seqs, f)
  BY <1>5, <1>6 DEF Flattens
<1>8. FlattenSeq(seqs) = (CHOOSE h : Flattens(seqs, h))[Len(seqs)]
  BY <1>1 DEF FlattenSeq, Flattens
<1>9. QED  BY <1>7, <1>8

\* One more chunk is appended to the text that the chunks make.
LEMMA FlattenAppend ==
  ASSUME NEW seqs \in Seq(Seq(Letters)), NEW c \in Seq(Letters)
  PROVE  FlattenSeq(Append(seqs, c)) = FlattenSeq(seqs) \o c
<1> DEFINE n == Len(seqs)
           more == Append(seqs, c)
<1>1. /\ n \in Nat /\ more \in Seq(Seq(Letters)) /\ Len(more) = n + 1
      /\ more[n + 1] = c /\ \A i \in 1 .. n : more[i] = seqs[i]
  OBVIOUS
<1> HIDE DEF more
<1>2. PICK f : Flattens(more, f) /\ FlattenSeq(more) = f[n + 1]
  <2>1. Len(more) > 0
    BY <1>1
  <2>2. \E f : Flattens(more, f) /\ FlattenSeq(more) = f[Len(more)]
    BY <1>1, <2>1, FlattenIs
  <2>3. QED  BY <1>1, <2>2
<1>3. CASE n = 0
  <2>1. FlattenSeq(seqs) = <<>>
    BY <1>3 DEF FlattenSeq
  <2>2. f[1] = more[1]
    BY <1>1, <1>2, <1>3 DEF Flattens
  <2>3. QED  BY <1>1, <1>2, <1>3, <2>1, <2>2, ConcatEmptySeq DEF more
<1>4. CASE n > 0
  <2>1. PICK g : Flattens(seqs, g) /\ FlattenSeq(seqs) = g[n]
    BY <1>4, FlattenIs
  <2> DEFINE P == {i \in Nat : i \in 1 .. n => f[i] = g[i]}
  <2>2. ASSUME NEW i \in 0 .. n, i + 1 <= n, i \in P PROVE i + 1 \in P
    <3>1. i + 1 \in 1 .. n /\ i + 1 \in 1 .. n + 1 /\ (i + 1) - 1 = i
      BY <1>1, <2>2
    <3>2. f[i + 1] = IF i + 1 = 1 THEN more[i + 1] ELSE f[i] \o more[i + 1]
      <4>1. f[i + 1] = IF i + 1 = 1 THEN more[i + 1] ELSE f[(i + 1) - 1] \o more[i + 1]
        BY <1>1, <1>2, <3>1 DEF Flattens
      <4>2. QED  BY <3>1, <4>1
    <3>3. g[i + 1] = IF i + 1 = 1 THEN seqs[i + 1] ELSE g[i] \o seqs[i + 1]
      <4>1. g[i + 1] = IF i + 1 = 1 THEN seqs[i + 1] ELSE g[(i + 1) - 1] \o seqs[i + 1]
        BY <2>1, <3>1 DEF Flattens
      <4>2. QED  BY <3>1, <4>1
    <3>4. i + 1 # 1 => f[i] = g[i]
      <4>1. i + 1 # 1 => i \in 1 .. n
        BY <2>2
      <4>2. QED  BY <2>2, <4>1
    <3>5. QED  BY <1>1, <3>1, <3>2, <3>3, <3>4
  <2>3. 0 \in P
    OBVIOUS
  <2> HIDE DEF P
  <2>4. \A i \in 0 .. n : i \in P
    BY <1>1, <2>2, <2>3, Induct
  <2>5. f[n] = g[n]
    <3>1. n \in 0 .. n /\ n \in 1 .. n
      BY <1>1, <1>4
    <3>2. n \in P
      BY <2>4, <3>1
    <3>3. QED  BY <3>1, <3>2 DEF P
  <2>6. f[n + 1] = f[n] \o more[n + 1]
    <3>1. n + 1 \in 1 .. Len(more) /\ n + 1 # 1 /\ (n + 1) - 1 = n
      BY <1>1, <1>4
    <3>2. QED  BY <1>2, <3>1 DEF Flattens
  <2>7. QED  BY <1>1, <1>2, <2>1, <2>5, <2>6 DEF more
<1>5. QED  BY <1>1, <1>3, <1>4

\* A set of numbers up to n has its latest element.
LEMMA LatestIs ==
  ASSUME NEW n \in Nat, NEW T, T \subseteq 1 .. n, T # {}
  PROVE  Latest(T) \in T
<1> DEFINE U == {n - p : p \in T}
<1>1. U \subseteq Nat /\ U # {}
  <2>1. \A p \in T : n - p \in Nat
    OBVIOUS
  <2>2. PICK p \in T : TRUE
    OBVIOUS
  <2>3. QED  BY <2>1, <2>2
<1>2. PICK u \in U : \A v \in U : u <= v
  <2> HIDE DEF U
  <2>1. QED  BY <1>1, LeastNumber
<1>3. PICK p \in T : u = n - p
  BY <1>2
<1>4. ASSUME NEW q \in T PROVE q <= p
  <2>1. n - q \in U /\ p \in 1 .. n /\ q \in 1 .. n
    OBVIOUS
  <2>2. u <= n - q
    BY <1>2, <2>1
  <2>3. QED  BY <1>3, <2>1, <2>2
<1>5. QED  BY <1>4 DEF Latest

\* A window that is not empty is cut after one of its letters,
LEMMA CutIs ==
  ASSUME NEW window \in Seq(Letters), Len(window) >= 1
  PROVE  CutAfter(window) \in 1 .. Len(window)
<1> DEFINE n == Len(window)
           newlines == {p \in Positions("n", window) : p > n \div 2}
           spaces == Positions("_", window)
<1>1. n \in Nat /\ n \in 1 .. n
  OBVIOUS
<1>2. newlines \subseteq 1 .. n /\ spaces \subseteq 1 .. n
  BY DEF Positions
<1>3. CutAfter(window) = IF newlines # {} THEN Latest(newlines)
                         ELSE IF spaces # {} THEN Latest(spaces) ELSE n
  BY DEF CutAfter
<1> HIDE DEF newlines, spaces, n
<1>4. CutAfter(window) \in 1 .. n
  <2>1. CASE newlines # {}
    BY <1>1, <1>2, <1>3, <2>1, LatestIs
  <2>2. CASE newlines = {} /\ spaces # {}
    BY <1>1, <1>2, <1>3, <2>2, LatestIs
  <2>3. CASE newlines = {} /\ spaces = {}
    BY <1>1, <1>3, <2>3
  <2>4. QED  BY <2>1, <2>2, <2>3
<1>5. QED  BY <1>4 DEF n

\* so a turn of the loop takes a chunk of 1 to max letters.
LEMMA EndOfChunkIs ==
  ASSUME NEW text \in Seq(Letters), NEW max \in Nat, max > 0,
         NEW start \in 0 .. Len(text), start # Len(text)
  PROVE  /\ EndOfChunk(text, start, max) \in start + 1 .. Len(text)
         /\ EndOfChunk(text, start, max) <= start + max
<1>1. Len(text) \in Nat /\ start \in Nat /\ start < Len(text)
  OBVIOUS
<1>2. CASE Len(text) - start <= max
  BY <1>1, <1>2 DEF EndOfChunk
<1>3. CASE ~(Len(text) - start <= max)
  <2> DEFINE window == SubSeq(text, start + 1, start + max)
  <2>1. start + 1 \in Int /\ start + max \in Int /\ start + max < Len(text)
    BY <1>1, <1>3
  <2>2. \A i \in start + 1 .. start + max : text[i] \in Letters
    <3>1. \A i \in start + 1 .. start + max : i \in 1 .. Len(text)
      BY <1>1, <2>1
    <3>2. QED  BY <3>1, ElementOfSeq
  <2>3. window \in Seq(Letters) /\ Len(window) = max
    <3>1. /\ window \in Seq(Letters)
          /\ Len(window) = IF start + 1 <= start + max
                           THEN (start + max) - (start + 1) + 1 ELSE 0
      BY <2>1, <2>2, SubSeqProperties
    <3>2. QED  BY <1>1, <3>1
  <2> HIDE DEF window
  <2>4. CutAfter(window) \in 1 .. max
    BY <2>3, CutIs
  <2>5. EndOfChunk(text, start, max) = start + CutAfter(window)
    BY <1>3 DEF EndOfChunk, window
  <2>6. QED  BY <1>1, <2>1, <2>4, <2>5
<1>4. QED  BY <1>2, <1>3

\* s is a stretch of the text.
PieceOf(s, text) ==
  \E d \in Nat : /\ d + Len(s) <= Len(text)
                 /\ \A k \in 1 .. Len(s) : s[k] = text[d + k]

\* The letters from m to n are one.
LEMMA StretchIsPiece ==
  ASSUME NEW text \in Seq(Letters), NEW m \in 1 .. Len(text), NEW n \in m .. Len(text)
  PROVE  /\ SubSeq(text, m, n) \in Seq(Letters)
         /\ Len(SubSeq(text, m, n)) = n - m + 1
         /\ PieceOf(SubSeq(text, m, n), text)
<1>1. Len(text) \in Nat /\ m \in Int /\ n \in Int /\ m <= n /\ m - 1 \in Nat
  OBVIOUS
<1>2. \A i \in m .. n : text[i] \in Letters
  BY <1>1, ElementOfSeq
<1> DEFINE s == SubSeq(text, m, n)
<1>3. /\ s \in Seq(Letters) /\ Len(s) = n - m + 1
      /\ \A i \in 1 .. n - m + 1 : s[i] = text[m + i - 1]
  <2>1. /\ s \in Seq(Letters)
        /\ Len(s) = IF m <= n THEN n - m + 1 ELSE 0
        /\ \A i \in 1 .. n - m + 1 : s[i] = text[m + i - 1]
    BY <1>1, <1>2, SubSeqProperties
  <2>2. QED  BY <1>1, <2>1
<1> HIDE DEF s
<1>4. \A k \in 1 .. Len(s) : s[k] = text[(m - 1) + k]
  <2>1. ASSUME NEW k \in 1 .. Len(s) PROVE s[k] = text[(m - 1) + k]
    <3>1. m + k - 1 = (m - 1) + k /\ k \in 1 .. n - m + 1
      BY <1>1, <1>3
    <3>2. QED  BY <1>3, <3>1
  <2>2. QED  BY <2>1
<1>5. (m - 1) + Len(s) <= Len(text)
  BY <1>1, <1>3
<1>6. PieceOf(s, text)
  BY <1>1, <1>4, <1>5 DEF PieceOf
<1>7. QED  BY <1>3, <1>6 DEF s

\* What the loop has done: the chunks are the text up to start, each a stretch
\* of it that is not too long.
LoopState(text) == [start : 0 .. Len(text), chunks : Seq(Seq(Letters))]

AllFit(chunks, text, max) ==
  \A k \in 1 .. Len(chunks) : Len(chunks[k]) <= max /\ PieceOf(chunks[k], text)

DoneSoFar(text, max, s) ==
  /\ s \in LoopState(text)
  /\ FlattenSeq(s.chunks) = SubSeq(text, 1, s.start)
  /\ AllFit(s.chunks, text, max)

\* A turn of the loop keeps the types of its state,
LEMMA PushIsTyped ==
  ASSUME NEW text \in Seq(Letters), NEW max \in Nat, max > 0, NEW s \in LoopState(text)
  PROVE  Push(s, text, max) \in LoopState(text)
<1>1. s.start \in 0 .. Len(text) /\ s.chunks \in Seq(Seq(Letters)) /\ Len(text) \in Nat
  BY DEF LoopState
<1>2. CASE s.start = Len(text)
  BY <1>2 DEF Push
<1>3. CASE s.start # Len(text)
  <2> DEFINE next == EndOfChunk(text, s.start, max)
             c == SubSeq(text, s.start + 1, next)
  <2>1. next \in s.start + 1 .. Len(text) /\ next <= s.start + max
    BY <1>1, <1>3, EndOfChunkIs
  <2>2. Push(s, text, max) = [start |-> next, chunks |-> Append(s.chunks, c)]
    BY <1>3 DEF Push
  <2> HIDE DEF next
  <2>3. s.start + 1 \in 1 .. Len(text) /\ next \in 0 .. Len(text)
    BY <1>1, <1>3, <2>1
  <2>4. c \in Seq(Letters)
    BY <2>1, <2>3, StretchIsPiece
  <2> HIDE DEF c
  <2>5. Append(s.chunks, c) \in Seq(Seq(Letters))
    BY <1>1, <2>4
  <2>6. QED  BY <2>2, <2>3, <2>5 DEF LoopState
<1>4. QED  BY <1>2, <1>3

\* keeps what is done so far, and takes a letter at least.
LEMMA PushKeeps ==
  ASSUME NEW text \in Seq(Letters), NEW max \in Nat, max > 0, NEW s,
         DoneSoFar(text, max, s)
  PROVE  /\ DoneSoFar(text, max, Push(s, text, max))
         /\ s.start # Len(text) => Push(s, text, max).start > s.start
         /\ s.start = Len(text) => Push(s, text, max) = s
<1>1. /\ s.start \in 0 .. Len(text) /\ s.chunks \in Seq(Seq(Letters))
      /\ Len(text) \in Nat /\ s \in LoopState(text)
  BY DEF DoneSoFar, LoopState
<1>2. CASE s.start = Len(text)
  BY <1>2 DEF Push
<1>3. CASE s.start # Len(text)
  <2> DEFINE next == EndOfChunk(text, s.start, max)
             c == SubSeq(text, s.start + 1, next)
             t == Push(s, text, max)
             more == Append(s.chunks, c)
  <2>1. next \in s.start + 1 .. Len(text) /\ next <= s.start + max
    BY <1>1, <1>3, EndOfChunkIs
  <2>2. t = [start |-> next, chunks |-> more]
    BY <1>3 DEF Push
  <2>3. t \in LoopState(text)
    BY <1>1, PushIsTyped
  <2> HIDE DEF next, t
  <2>4. s.start + 1 \in 1 .. Len(text) /\ next \in 0 .. Len(text)
    BY <1>1, <1>3, <2>1
  <2>5. c \in Seq(Letters) /\ Len(c) = next - (s.start + 1) + 1 /\ PieceOf(c, text)
    BY <2>1, <2>4, StretchIsPiece
  <2>6. Len(c) <= max
    BY <1>1, <2>1, <2>5
  <2>7. FlattenSeq(more) = SubSeq(text, 1, next)
    <3>1. FlattenSeq(more) = FlattenSeq(s.chunks) \o c
      <4> HIDE DEF c
      <4>1. QED  BY <1>1, <2>5, FlattenAppend
    <3>2. SubSeq(text, 1, s.start) \o c = SubSeq(text, 1, next)
      <4>1. /\ 1 \in 1 .. Len(text) + 1 /\ s.start \in (1 - 1) .. Len(text)
            /\ next \in s.start .. Len(text)
        BY <1>1, <2>1, <2>4
      <4>2. QED  BY <4>1, ConcatAdjacentSubSeq
    <3>3. QED  BY <3>1, <3>2 DEF DoneSoFar
  <2>8. AllFit(more, text, max)
    <3>1. ASSUME NEW k \in 1 .. Len(more)
          PROVE  Len(more[k]) <= max /\ PieceOf(more[k], text)
      <4> HIDE DEF c
      <4>1. Len(s.chunks) \in Nat /\ Len(more) = Len(s.chunks) + 1
        BY <1>1, <2>5
      <4>2. CASE k = Len(s.chunks) + 1
        <5>1. more[k] = c
          BY <1>1, <2>5, <4>2
        <5>2. QED  BY <5>1, <2>5, <2>6
      <4>3. CASE k # Len(s.chunks) + 1
        <5>1. k \in 1 .. Len(s.chunks)
          BY <4>1, <4>3
        <5>2. more[k] = s.chunks[k]
          BY <1>1, <2>5, <5>1, AppendProperties
        <5> HIDE DEF more
        <5>3. QED  BY <5>1, <5>2 DEF DoneSoFar, AllFit
      <4>4. QED  BY <4>2, <4>3
    <3> HIDE DEF more
    <3>2. QED  BY <3>1 DEF AllFit
  <2>9. t.start = next /\ t.chunks = more
    BY <2>2
  <2> HIDE DEF more, c
  <2>10. DoneSoFar(text, max, t)
    BY <2>3, <2>7, <2>8, <2>9 DEF DoneSoFar
  <2>11. t.start > s.start
    BY <1>1, <2>1, <2>9
  <2>12. QED  BY <1>3, <2>10, <2>11 DEF t
<1>4. QED  BY <1>2, <1>3

\* The loop that split_at_boundaries runs.
Looped(text, max, f) ==
  f = [turn \in 0 .. Len(text) |->
         IF turn = 0 THEN [start |-> 0, chunks |-> <<>>]
         ELSE Push(f[turn - 1], text, max)]

\* Turns is the function that its recursion describes.
LEMMA TurnsIs ==
  ASSUME NEW text \in Seq(Letters), NEW max \in Nat, max > 0
  PROVE  Looped(text, max, Turns(text, max))
<1> DEFINE n == Len(text)
           S == LoopState(text)
           empty == <<>>
           base == [start |-> 0, chunks |-> empty]
           step == [i \in Nat |-> [s \in S |-> Push(s, text, max)]]
<1>1. n \in Nat /\ empty \in Seq(Seq(Letters))
  OBVIOUS
<1> HIDE DEF empty
<1>2. base \in S
  BY <1>1 DEF LoopState
<1>3. step \in [Nat -> [S -> S]]
  <2>1. \A s \in S : Push(s, text, max) \in S
    BY PushIsTyped
  <2> HIDE DEF S
  <2>2. QED  BY <2>1
<1> HIDE DEF base
<1>4. PICK f \in [0 .. n -> S] : Follows(n, base, step, f)
  <2> HIDE DEF S, step, n
  <2>1. QED  BY <1>1, <1>2, <1>3, RecursionExists
<1>5. ASSUME NEW i \in 0 .. n
      PROVE  f[i] = IF i = 0 THEN base ELSE Push(f[i - 1], text, max)
  <2>1. CASE i = 0
    BY <1>4, <2>1 DEF Follows
  <2>2. CASE i # 0
    <3>1. i \in Nat /\ i \in 1 .. n /\ i - 1 \in 0 .. n
      BY <1>1, <2>2
    <3>2. f[i] = step[i][f[i - 1]]
      <4> HIDE DEF step
      <4>1. QED  BY <1>4, <3>1 DEF Follows
    <3>3. f[i - 1] \in S
      BY <3>1
    <3>4. QED  BY <2>2, <3>1, <3>2, <3>3
  <2>3. QED  BY <2>1, <2>2
<1>6. f = [i \in 0 .. n |-> f[i]]
  OBVIOUS
<1>7. Looped(text, max, f)
  <2>1. f = [turn \in 0 .. n |-> IF turn = 0 THEN base ELSE Push(f[turn - 1], text, max)]
    BY <1>5, <1>6
  <2>2. QED  BY <2>1 DEF Looped, base, empty
<1>8. Turns(text, max) = CHOOSE h : Looped(text, max, h)
  BY DEF Turns, Looped
<1>9. QED  BY <1>7, <1>8

\* split_at_boundaries cuts a text into chunks of at most max letters and loses
\* nothing.
LEMMA SplitKeepsTheText ==
  ASSUME NEW text \in Seq(Letters), NEW max \in Nat, max > 0
  PROVE  LET raws == SplitAtBoundaries(text, max)
         IN  /\ raws \in Seq(Seq(Letters))
             /\ FlattenSeq(raws) = text
             /\ AllFit(raws, text, max)
<1> DEFINE n == Len(text)
           f == Turns(text, max)
           P == {i \in Nat : /\ DoneSoFar(text, max, f[i])
                             /\ f[i].start >= i \/ f[i].start = n}
<1>1. n \in Nat /\ Looped(text, max, f)
  BY TurnsIs
<1> HIDE DEF f
<1>2. /\ f[0] = [start |-> 0, chunks |-> <<>>]
      /\ \A i \in 1 .. n : f[i] = Push(f[i - 1], text, max)
  <2>1. \A i \in 0 .. n : f[i] = IF i = 0 THEN [start |-> 0, chunks |-> <<>>]
                                 ELSE Push(f[i - 1], text, max)
    BY <1>1 DEF Looped
  <2>2. 0 \in 0 .. n /\ \A i \in 1 .. n : i \in 0 .. n /\ i # 0
    BY <1>1
  <2>3. QED  BY <2>1, <2>2
<1>3. 0 \in P
  <2> DEFINE s == f[0]
             empty == <<>>
  <2>1. s.start = 0 /\ s.chunks = empty /\ s = [start |-> 0, chunks |-> empty]
    BY <1>2
  <2>2. empty \in Seq(Seq(Letters)) /\ Len(empty) = 0 /\ FlattenSeq(empty) = empty
    BY DEF FlattenSeq
  <2>3. SubSeq(text, 1, 0) = empty
    BY SubSeqEmpty
  <2> HIDE DEF s, empty
  <2>4. s \in LoopState(text)
    BY <1>1, <2>1, <2>2 DEF LoopState
  <2>5. AllFit(s.chunks, text, max)
    BY <2>1, <2>2 DEF AllFit
  <2>6. DoneSoFar(text, max, s)
    BY <2>1, <2>2, <2>3, <2>4, <2>5 DEF DoneSoFar
  <2>7. QED  BY <2>1, <2>6 DEF s
<1>4. ASSUME NEW i \in 0 .. n, i + 1 <= n, i \in P PROVE i + 1 \in P
  <2>1. i + 1 \in 1 .. n /\ (i + 1) - 1 = i /\ i \in Nat
    BY <1>1, <1>4
  <2>2. f[i + 1] = Push(f[i], text, max)
    <3>1. f[i + 1] = Push(f[(i + 1) - 1], text, max)
      BY <1>2, <2>1
    <3>2. QED  BY <2>1, <3>1
  <2>3. DoneSoFar(text, max, f[i]) /\ (f[i].start >= i \/ f[i].start = n)
    BY <1>4
  <2>4. /\ DoneSoFar(text, max, f[i + 1])
        /\ f[i].start # n => f[i + 1].start > f[i].start
        /\ f[i].start = n => f[i + 1] = f[i]
    BY <2>2, <2>3, PushKeeps
  <2>5. f[i].start \in Nat /\ f[i + 1].start \in Nat
    BY <2>3, <2>4 DEF DoneSoFar, LoopState
  <2>6. f[i + 1].start >= i + 1 \/ f[i + 1].start = n
    BY <1>1, <2>1, <2>3, <2>4, <2>5
  <2>7. QED  BY <2>1, <2>4, <2>6
<1> HIDE DEF P
<1>5. \A i \in 0 .. n : i \in P
  BY <1>1, <1>3, <1>4, Induct
<1>6. n \in 0 .. n
  BY <1>1
<1>7. n \in P
  BY <1>5, <1>6
<1>8. DoneSoFar(text, max, f[n]) /\ (f[n].start >= n \/ f[n].start = n)
  BY <1>7 DEF P
<1>9. f[n].start = n /\ f[n].chunks \in Seq(Seq(Letters))
  <2>1. f[n].start \in 0 .. n /\ f[n].chunks \in Seq(Seq(Letters))
    BY <1>8 DEF DoneSoFar, LoopState
  <2>2. QED  BY <1>1, <1>8, <2>1
<1>10. FlattenSeq(f[n].chunks) = text
  BY <1>8, <1>9, SubSeqFull DEF DoneSoFar
<1>11. SplitAtBoundaries(text, max) = f[n].chunks
  BY DEF SplitAtBoundaries, f
<1>12. QED  BY <1>8, <1>9, <1>10, <1>11 DEF DoneSoFar

-----------------------------------------------------------------------------
(* What find_open_fence finds in a text is a line of it.                    *)

\* A stretch of a stretch is a stretch.
LEMMA PieceOfPiece ==
  ASSUME NEW r \in Seq(Letters), NEW s \in Seq(Letters), NEW t \in Seq(Letters),
         PieceOf(r, s), PieceOf(s, t)
  PROVE  PieceOf(r, t)
<1>1. Len(r) \in Nat /\ Len(s) \in Nat /\ Len(t) \in Nat
  OBVIOUS
<1>2. PICK d \in Nat : d + Len(r) <= Len(s) /\ \A k \in 1 .. Len(r) : r[k] = s[d + k]
  BY DEF PieceOf
<1>3. PICK e \in Nat : e + Len(s) <= Len(t) /\ \A k \in 1 .. Len(s) : s[k] = t[e + k]
  BY DEF PieceOf
<1>4. e + d \in Nat /\ (e + d) + Len(r) <= Len(t)
  BY <1>1, <1>2, <1>3
<1>5. ASSUME NEW k \in 1 .. Len(r) PROVE r[k] = t[(e + d) + k]
  <2>1. d + k \in 1 .. Len(s) /\ e + (d + k) = (e + d) + k
    BY <1>1, <1>2, <1>3
  <2>2. r[k] = s[d + k] /\ s[d + k] = t[e + (d + k)]
    BY <1>2, <1>3, <2>1
  <2>3. QED  BY <2>1, <2>2
<1>6. QED  BY <1>4, <1>5 DEF PieceOf

\* No newline is in s.
OneLine(s) == \A k \in 1 .. Len(s) : s[k] # "n"

\* What a fence that is open looks like.
FenceIn(line, text) ==
  /\ line \in Seq(Letters)
  /\ line = <<>> \/ (OneLine(line) /\ IsFence(line) /\ PieceOf(line, text))

\* One more line leaves a fence of the text open, or none.
LEMMA FenceKeeps ==
  ASSUME NEW text \in Seq(Letters), NEW open, FenceIn(open, text),
         NEW line \in Seq(Letters), OneLine(line), PieceOf(line, text)
  PROVE  FenceIn(Fence(open, line), text)
<1>1. <<>> \in Seq(Letters)
  OBVIOUS
<1>2. IsFence(line) => FenceIn(line, text)
  BY DEF FenceIn
<1>3. FenceIn(<<>>, text)
  BY <1>1 DEF FenceIn
<1>4. QED  BY <1>2, <1>3 DEF Fence

\* The recursion of Scan.
Scanned(text, f) ==
  f = [n \in 0 .. Len(text) |->
         IF n = 0 THEN [open |-> <<>>, line |-> <<>>] ELSE Read(f[n - 1], text[n])]

ScanState == [open : Seq(Letters), line : Seq(Letters)]

\* One more letter keeps the types of the scan.
LEMMA ReadIsTyped ==
  ASSUME NEW s \in ScanState, NEW letter \in Letters
  PROVE  Read(s, letter) \in ScanState
<1> DEFINE empty == <<>>
<1>1. s.open \in Seq(Letters) /\ s.line \in Seq(Letters) /\ empty \in Seq(Letters)
  BY DEF ScanState
<1>2. Fence(s.open, s.line) \in Seq(Letters)
  BY <1>1 DEF Fence
<1>3. CASE letter = "n"
  <2>1. Read(s, letter) = [open |-> Fence(s.open, s.line), line |-> empty]
    BY <1>3 DEF Read
  <2> HIDE DEF empty
  <2>2. QED  BY <1>1, <1>2, <2>1 DEF ScanState
<1>4. CASE letter # "n"
  <2> DEFINE more == Append(s.line, letter)
  <2>1. Read(s, letter) = [s EXCEPT !.line = more]
    BY <1>4 DEF Read
  <2>2. more \in Seq(Letters)
    BY <1>1
  <2> HIDE DEF more
  <2>3. QED  BY <2>1, <2>2 DEF ScanState
<1>5. QED  BY <1>3, <1>4

\* Scan is the function that its recursion describes,
LEMMA ScanIs ==
  ASSUME NEW text \in Seq(Letters)
  PROVE  Scanned(text, Scan(text)) /\ Scan(text) \in [0 .. Len(text) -> ScanState]
<1> DEFINE n == Len(text)
           S == ScanState
           empty == <<>>
           base == [open |-> empty, line |-> empty]
           step == [i \in Nat |-> [s \in S |->
                      IF i \in 1 .. n THEN Read(s, text[i]) ELSE s]]
<1>1. n \in Nat /\ empty \in Seq(Letters)
  OBVIOUS
<1> HIDE DEF empty
<1>2. base \in S
  BY <1>1 DEF ScanState
<1>3. step \in [Nat -> [S -> S]]
  <2>1. ASSUME NEW i \in Nat, NEW s \in S
        PROVE  (IF i \in 1 .. n THEN Read(s, text[i]) ELSE s) \in S
    <3>1. CASE i \in 1 .. n
      <4>1. text[i] \in Letters
        BY <3>1, ElementOfSeq
      <4>2. QED  BY <3>1, <4>1, ReadIsTyped
    <3>2. CASE i \notin 1 .. n
      BY <3>2
    <3>3. QED  BY <3>1, <3>2
  <2> HIDE DEF S
  <2>2. QED  BY <2>1
<1> HIDE DEF base
<1>4. PICK f \in [0 .. n -> S] : Follows(n, base, step, f)
  <2> HIDE DEF S, step, n
  <2>1. QED  BY <1>1, <1>2, <1>3, RecursionExists
<1>5. ASSUME NEW i \in 0 .. n
      PROVE  f[i] = IF i = 0 THEN base ELSE Read(f[i - 1], text[i])
  <2>1. CASE i = 0
    BY <1>4, <2>1 DEF Follows
  <2>2. CASE i # 0
    <3>1. i \in Nat /\ i \in 1 .. n /\ i - 1 \in 0 .. n
      BY <1>1, <2>2
    <3>2. f[i] = step[i][f[i - 1]]
      <4> HIDE DEF step
      <4>1. QED  BY <1>4, <3>1 DEF Follows
    <3>3. f[i - 1] \in S
      BY <3>1
    <3>4. QED  BY <2>2, <3>1, <3>2, <3>3
  <2>3. QED  BY <2>1, <2>2
<1>6. f = [i \in 0 .. n |-> f[i]]
  OBVIOUS
<1>7. Scanned(text, f)
  <2>1. f = [i \in 0 .. n |-> IF i = 0 THEN base ELSE Read(f[i - 1], text[i])]
    BY <1>5, <1>6
  <2>2. QED  BY <2>1 DEF Scanned, base, empty
<1>8. Scan(text) = CHOOSE h : Scanned(text, h)
  BY DEF Scan, Scanned
<1>9. Scanned(text, Scan(text))
  BY <1>7, <1>8
<1>10. ASSUME NEW h, Scanned(text, h) PROVE h = f
  <2> DEFINE P == {i \in Nat : i \in 0 .. n => h[i] = f[i]}
  <2>1. \A i \in 0 .. n : h[i] = IF i = 0 THEN base ELSE Read(h[i - 1], text[i])
    BY <1>10 DEF Scanned, base, empty
  <2>2. h = [i \in 0 .. n |-> h[i]]
    BY <1>10 DEF Scanned
  <2>3. 0 \in P
    BY <1>1, <1>5, <2>1
  <2>4. ASSUME NEW i \in 0 .. n, i + 1 <= n, i \in P PROVE i + 1 \in P
    <3>1. i + 1 \in 0 .. n /\ i + 1 # 0 /\ (i + 1) - 1 = i /\ h[i] = f[i]
      BY <1>1, <2>4
    <3>2. h[i + 1] = Read(h[(i + 1) - 1], text[i + 1])
      BY <2>1, <3>1
    <3>3. f[i + 1] = Read(f[(i + 1) - 1], text[i + 1])
      BY <1>5, <3>1
    <3>4. h[i + 1] = f[i + 1]
      BY <3>1, <3>2, <3>3
    <3>5. QED  BY <3>1, <3>4
  <2> HIDE DEF P
  <2>5. \A i \in 0 .. n : i \in P
    <3> HIDE DEF n
    <3>1. QED  BY <1>1, <2>3, <2>4, Induct
  <2>6. \A i \in 0 .. n : h[i] = f[i]
    BY <2>5 DEF P
  <2>7. QED  BY <1>6, <2>2, <2>6
<1>11. Scan(text) = f
  BY <1>9, <1>10
<1>12. QED  BY <1>7, <1>11

\* The state after a text; one more letter reads it.
EndState(text) == Scan(text)[Len(text)]

\* so it begins with nothing and reads letter by letter,
LEMMA ScanSteps ==
  ASSUME NEW text \in Seq(Letters)
  PROVE  /\ Scan(text)[0] = [open |-> <<>>, line |-> <<>>]
         /\ \A i \in 1 .. Len(text) : Scan(text)[i] = Read(Scan(text)[i - 1], text[i])
<1> DEFINE f == Scan(text)
<1>1. Scanned(text, f) /\ Len(text) \in Nat
  BY ScanIs
<1> HIDE DEF f
<1>2. \A i \in 0 .. Len(text) :
        f[i] = IF i = 0 THEN [open |-> <<>>, line |-> <<>>] ELSE Read(f[i - 1], text[i])
  BY <1>1 DEF Scanned
<1>3. 0 \in 0 .. Len(text) /\ \A i \in 1 .. Len(text) : i \in 0 .. Len(text) /\ i # 0
  BY <1>1
<1>4. QED  BY <1>2, <1>3 DEF f

\* and the state after a longer text is one more reading of the state before.
LEMMA OneMoreLetter ==
  ASSUME NEW text \in Seq(Letters), NEW letter \in Letters
  PROVE  /\ EndState(text) \in ScanState
         /\ EndState(Append(text, letter)) = Read(EndState(text), letter)
<1> DEFINE n == Len(text)
           more == Append(text, letter)
           f == Scan(text)
           g == Scan(more)
           P == {i \in Nat : i \in 0 .. n => g[i] = f[i]}
<1>1. /\ n \in Nat /\ more \in Seq(Letters) /\ Len(more) = n + 1
      /\ more[n + 1] = letter /\ \A i \in 1 .. n : more[i] = text[i]
  OBVIOUS
<1> HIDE DEF more
<1>2. f[0] = [open |-> <<>>, line |-> <<>>] /\ \A i \in 1 .. n : f[i] = Read(f[i - 1], text[i])
  BY ScanSteps
<1>3. /\ g[0] = [open |-> <<>>, line |-> <<>>]
      /\ \A i \in 1 .. n + 1 : g[i] = Read(g[i - 1], more[i])
  BY <1>1, ScanSteps
<1>4. f \in [0 .. n -> ScanState]
  BY ScanIs
<1> HIDE DEF f, g
<1>5. 0 \in P
  BY <1>2, <1>3
<1>6. ASSUME NEW i \in 0 .. n, i + 1 <= n, i \in P PROVE i + 1 \in P
  <2>1. i + 1 \in 1 .. n /\ i + 1 \in 1 .. n + 1 /\ (i + 1) - 1 = i /\ g[i] = f[i]
    BY <1>1, <1>6
  <2>2. /\ g[i + 1] = Read(g[(i + 1) - 1], more[i + 1])
        /\ f[i + 1] = Read(f[(i + 1) - 1], text[i + 1])
    BY <1>2, <1>3, <2>1
  <2>3. g[i + 1] = f[i + 1]
    BY <1>1, <2>1, <2>2
  <2>4. QED  BY <2>1, <2>3
<1> HIDE DEF P
<1>7. \A i \in 0 .. n : i \in P
  <2> HIDE DEF n
  <2>1. QED  BY <1>1, <1>5, <1>6, Induct
<1>8. g[n] = f[n] /\ f[n] \in ScanState
  <2>1. n \in 0 .. n
    BY <1>1
  <2>2. QED  BY <1>4, <1>7, <2>1 DEF P
<1>9. g[n + 1] = Read(g[n], letter)
  <2>1. n + 1 \in 1 .. n + 1 /\ (n + 1) - 1 = n
    BY <1>1
  <2>2. g[n + 1] = Read(g[(n + 1) - 1], more[n + 1])
    BY <1>3, <2>1
  <2>3. QED  BY <1>1, <2>1, <2>2
<1>10. EndState(text) = f[n] /\ EndState(more) = g[n + 1]
  BY <1>1 DEF EndState, f, g
<1>11. QED  BY <1>8, <1>9, <1>10 DEF more

\* In each state the line under way is the end of what is read so far, and the
\* fence that is open is a line of the text.
ScanInv(text, n, s) ==
  /\ s \in ScanState
  /\ FenceIn(s.open, text)
  /\ OneLine(s.line)
  /\ Len(s.line) <= n
  /\ \A k \in 1 .. Len(s.line) : s.line[k] = text[(n - Len(s.line)) + k]

\* The line under way is a stretch of the text, and may open a fence.
LEMMA LineIsPiece ==
  ASSUME NEW text \in Seq(Letters), NEW n \in 0 .. Len(text), NEW s, ScanInv(text, n, s)
  PROVE  PieceOf(s.line, text) /\ FenceIn(Fence(s.open, s.line), text)
<1>1. s.line \in Seq(Letters) /\ Len(s.line) \in Nat /\ Len(s.line) <= n /\ Len(text) \in Nat
  BY DEF ScanInv, ScanState
<1>2. n - Len(s.line) \in Nat /\ (n - Len(s.line)) + Len(s.line) <= Len(text)
  BY <1>1
<1>3. \A k \in 1 .. Len(s.line) : s.line[k] = text[(n - Len(s.line)) + k]
  BY DEF ScanInv
<1>4. PieceOf(s.line, text)
  BY <1>2, <1>3 DEF PieceOf
<1>5. QED  BY <1>1, <1>4, FenceKeeps DEF ScanInv

\* One more letter keeps that.
LEMMA ReadKeeps ==
  ASSUME NEW text \in Seq(Letters), NEW n \in 0 .. Len(text), n + 1 <= Len(text),
         NEW s, ScanInv(text, n, s)
  PROVE  ScanInv(text, n + 1, Read(s, text[n + 1]))
<1> DEFINE letter == text[n + 1]
           t == Read(s, letter)
<1>1. /\ Len(text) \in Nat /\ n + 1 \in 1 .. Len(text) /\ n \in Nat
      /\ s \in ScanState /\ s.line \in Seq(Letters) /\ Len(s.line) \in Nat
  BY DEF ScanInv, ScanState
<1>2. letter \in Letters
  BY <1>1, ElementOfSeq
<1>3. t \in ScanState
  BY <1>1, <1>2, ReadIsTyped
<1>4. CASE letter = "n"
  <2> DEFINE empty == <<>>
  <2>1. t = [open |-> Fence(s.open, s.line), line |-> empty]
    BY <1>4 DEF Read
  <2>2. Len(empty) = 0
    OBVIOUS
  <2> HIDE DEF t, empty
  <2>3. t.open = Fence(s.open, s.line) /\ t.line = empty
    BY <2>1
  <2>4. FenceIn(t.open, text)
    BY <2>3, LineIsPiece
  <2>5. QED  BY <1>1, <1>3, <2>2, <2>3, <2>4 DEF ScanInv, OneLine, t
<1>5. CASE letter # "n"
  <2> DEFINE more == Append(s.line, letter)
  <2>1. t = [s EXCEPT !.line = more]
    BY <1>5 DEF Read
  <2>2. /\ more \in Seq(Letters) /\ Len(more) = Len(s.line) + 1
        /\ more[Len(s.line) + 1] = letter
        /\ \A k \in 1 .. Len(s.line) : more[k] = s.line[k]
    BY <1>1, <1>2, AppendProperties
  <2>3. t.open = s.open /\ t.line = more
    <3> HIDE DEF more, t
    <3>1. QED  BY <1>1, <2>1 DEF ScanState
  <2> HIDE DEF more, t, letter
  <2>4. Len(more) <= n + 1
    BY <1>1, <2>2 DEF ScanInv
  <2>5. ASSUME NEW k \in 1 .. Len(more)
        PROVE  more[k] # "n" /\ more[k] = text[((n + 1) - Len(more)) + k]
    <3>0. Len(more) = Len(s.line) + 1 /\ k \in Nat /\ n \in Nat /\ Len(s.line) \in Nat
      BY <1>1, <2>2
    <3>1. CASE k = Len(s.line) + 1
      <4>0. Len(more) = k
        BY <3>0, <3>1
      <4>1. ((n + 1) - k) + k = n + 1
        BY <3>0
      <4>2. ((n + 1) - Len(more)) + k = n + 1
        BY <4>0, <4>1
      <4>3. QED  BY <1>5, <2>2, <3>1, <4>2 DEF letter
    <3>2. CASE k # Len(s.line) + 1
      <4>1. /\ k \in 1 .. Len(s.line)
            /\ ((n + 1) - Len(more)) + k = (n - Len(s.line)) + k
        BY <3>0, <3>2
      <4>2. s.line[k] # "n" /\ s.line[k] = text[(n - Len(s.line)) + k]
        BY <4>1 DEF ScanInv, OneLine
      <4>3. QED  BY <2>2, <4>1, <4>2
    <3>3. QED  BY <3>1, <3>2
  <2>6. OneLine(t.line) /\ FenceIn(t.open, text)
    BY <2>3, <2>5 DEF OneLine, ScanInv
  <2>7. ScanInv(text, n + 1, t)
    BY <1>3, <2>3, <2>4, <2>5, <2>6 DEF ScanInv, t
  <2>8. QED  BY <2>7 DEF t, letter
<1>6. QED  BY <1>4, <1>5

\* What find_open_fence returns is a fence line of the text, or nothing.
LEMMA OpenFenceIs ==
  ASSUME NEW text \in Seq(Letters)
  PROVE  FenceIn(FindOpenFence(text), text)
<1> DEFINE n == Len(text)
           f == Scan(text)
           P == {i \in Nat : ScanInv(text, i, f[i])}
<1>1. /\ n \in Nat /\ f \in [0 .. n -> ScanState]
      /\ f[0] = [open |-> <<>>, line |-> <<>>]
      /\ \A i \in 1 .. n : f[i] = Read(f[i - 1], text[i])
  BY ScanIs, ScanSteps
<1> HIDE DEF f
<1>2. 0 \in P
  <2> DEFINE empty == <<>>
             s == f[0]
  <2>1. empty \in Seq(Letters) /\ Len(empty) = 0 /\ FenceIn(empty, text)
    BY DEF FenceIn
  <2>2. s \in ScanState /\ s.open = empty /\ s.line = empty
    BY <1>1
  <2> HIDE DEF empty, s
  <2>3. ScanInv(text, 0, s)
    BY <2>1, <2>2 DEF ScanInv, OneLine
  <2>4. QED  BY <2>3 DEF s
<1>3. ASSUME NEW i \in 0 .. n, i + 1 <= n, i \in P PROVE i + 1 \in P
  <2>1. i + 1 \in 1 .. n /\ (i + 1) - 1 = i /\ i + 1 \in Nat
    BY <1>1, <1>3
  <2>2. f[i + 1] = Read(f[(i + 1) - 1], text[i + 1])
    BY <1>1, <2>1
  <2>3. ScanInv(text, i + 1, Read(f[i], text[i + 1]))
    BY <1>3, ReadKeeps
  <2>4. QED  BY <2>1, <2>2, <2>3
<1> HIDE DEF P
<1>4. \A i \in 0 .. n : i \in P
  <2> HIDE DEF n
  <2>1. QED  BY <1>1, <1>2, <1>3, Induct
<1>5. n \in 0 .. n
  BY <1>1
<1>6. ScanInv(text, n, f[n])
  BY <1>4, <1>5 DEF P
<1>7. FenceIn(Fence(f[n].open, f[n].line), text)
  BY <1>5, <1>6, LineIsPiece
<1>8. QED  BY <1>7 DEF FindOpenFence, f

-----------------------------------------------------------------------------
(* balance_code_fences.                                                     *)

\* A chunk whose fence is opened again, and the lines of it.
LEMMA ReopenedIs ==
  ASSUME NEW text \in Seq(Letters), NEW open, FenceIn(open, text),
         NEW raw \in Seq(Letters), PieceOf(raw, text)
  PROVE  LET c == Reopened(open, raw)
         IN  /\ c \in Seq(Letters)
             /\ Len(c) = IF open = <<>> THEN Len(raw) ELSE Len(open) + 1 + Len(raw)
             /\ \A s \in Seq(Letters) : OneLine(s) /\ PieceOf(s, c) => PieceOf(s, text)
<1> DEFINE c == Reopened(open, raw)
           break == <<"n">>
<1>1. open \in Seq(Letters) /\ Len(open) \in Nat /\ Len(raw) \in Nat
  BY DEF FenceIn
<1>2. CASE open = <<>>
  <2>1. c = raw
    BY <1>2 DEF Reopened
  <2> HIDE DEF c
  <2>2. \A s \in Seq(Letters) : PieceOf(s, c) => PieceOf(s, text)
    BY <2>1, PieceOfPiece
  <2>3. QED  BY <1>2, <2>1, <2>2 DEF c
<1>3. CASE open # <<>>
  <2>0. "n" \in Letters
    BY DEF Letters
  <2>1. break \in Seq(Letters) /\ Len(break) = 1 /\ break[1] = "n"
    BY <2>0
  <2>4. c = (open \o break) \o raw
    BY <1>3 DEF Reopened
  <2> HIDE DEF break, c
  <2> DEFINE L == Len(open)
  <2>3. /\ open \o break \in Seq(Letters) /\ Len(open \o break) = L + 1
        /\ \A i \in 1 .. L : (open \o break)[i] = open[i]
        /\ (open \o break)[L + 1] = "n"
    <3>1. /\ open \o break \in Seq(Letters) /\ Len(open \o break) = L + 1
          /\ \A i \in 1 .. L + 1 : (open \o break)[i] =
                 IF i <= L THEN open[i] ELSE break[i - L]
      <4>1. /\ open \o break \in Seq(Letters)
            /\ Len(open \o break) = Len(open) + Len(break)
            /\ \A i \in 1 .. Len(open) + Len(break) : (open \o break)[i] =
                   IF i <= Len(open) THEN open[i] ELSE break[i - Len(open)]
        BY <1>1, <2>1, ConcatProperties
      <4>2. QED  BY <2>1, <4>1
    <3>2. /\ \A i \in 1 .. L : i \in 1 .. L + 1 /\ i <= L
          /\ L + 1 \in 1 .. L + 1 /\ ~(L + 1 <= L) /\ (L + 1) - L = 1
      BY <1>1
    <3>3. QED  BY <2>1, <3>1, <3>2
  <2>5. /\ c \in Seq(Letters) /\ Len(c) = L + 1 + Len(raw)
        /\ \A i \in 1 .. L : c[i] = open[i]
        /\ c[L + 1] = "n"
        /\ \A i \in 1 .. Len(raw) : c[L + 1 + i] = raw[i]
    <3> DEFINE h == open \o break
    <3>1. h \in Seq(Letters) /\ Len(h) = L + 1
      BY <2>3
    <3>2. \A i \in 1 .. L : h[i] = open[i]
      BY <2>3
    <3>3. h[L + 1] = "n" /\ c = h \o raw
      BY <2>3, <2>4
    <3> HIDE DEF h
    <3>4. /\ c \in Seq(Letters) /\ Len(c) = Len(h) + Len(raw)
          /\ \A i \in 1 .. Len(h) + Len(raw) : c[i] =
                 IF i <= Len(h) THEN h[i] ELSE raw[i - Len(h)]
      BY <3>1, <3>3, ConcatProperties
    <3>5. ASSUME NEW i \in 1 .. L + 1 PROVE c[i] = h[i]
      <4>1. i \in 1 .. Len(h) + Len(raw) /\ i <= Len(h)
        BY <1>1, <3>1
      <4>2. QED  BY <3>4, <4>1
    <3>6. ASSUME NEW i \in 1 .. Len(raw) PROVE c[L + 1 + i] = raw[i]
      <4>1. /\ L + 1 + i \in 1 .. Len(h) + Len(raw)
            /\ ~(L + 1 + i <= Len(h)) /\ (L + 1 + i) - Len(h) = i
        BY <1>1, <3>1
      <4>2. QED  BY <3>4, <4>1
    <3>7. L + 1 \in 1 .. L + 1 /\ \A i \in 1 .. L : i \in 1 .. L + 1
      BY <1>1
    <3>8. c[L + 1] = "n" /\ \A i \in 1 .. L : c[i] = open[i]
      BY <3>2, <3>3, <3>5, <3>7
    <3>9. QED  BY <1>1, <3>1, <3>4, <3>6, <3>8
  <2>6. ASSUME NEW s \in Seq(Letters), OneLine(s), PieceOf(s, c)
        PROVE  PieceOf(s, text)
    <3>1. PICK d \in Nat : d + Len(s) <= Len(c) /\ \A k \in 1 .. Len(s) : s[k] = c[d + k]
      BY <2>6 DEF PieceOf
    <3>2. Len(s) \in Nat /\ L \in Nat
      BY <1>1
    <3>3. CASE d + Len(s) <= L
      <4>1. ASSUME NEW k \in 1 .. Len(s) PROVE s[k] = open[d + k]
        <5>1. d + k \in 1 .. L
          BY <3>2, <3>3
        <5>2. QED  BY <2>5, <3>1, <5>1
      <4>2. PieceOf(s, open)
        BY <3>3, <4>1 DEF PieceOf
      <4>3. PieceOf(open, text)
        BY <1>3 DEF FenceIn
      <4>4. QED  BY <1>1, <4>2, <4>3, PieceOfPiece
    <3>4. CASE d >= L + 1
      <4>1. d - (L + 1) \in Nat /\ (d - (L + 1)) + Len(s) <= Len(raw)
        BY <1>1, <2>5, <3>1, <3>2, <3>4
      <4>2. ASSUME NEW k \in 1 .. Len(s) PROVE s[k] = raw[(d - (L + 1)) + k]
        <5>1. /\ (d - (L + 1)) + k \in 1 .. Len(raw)
              /\ L + 1 + ((d - (L + 1)) + k) = d + k
          BY <1>1, <3>2, <3>4, <4>1
        <5>2. c[L + 1 + ((d - (L + 1)) + k)] = raw[(d - (L + 1)) + k]
          BY <2>5, <5>1
        <5>3. QED  BY <3>1, <5>1, <5>2
      <4>3. PieceOf(s, raw)
        BY <4>1, <4>2 DEF PieceOf
      <4>4. QED  BY <4>3, PieceOfPiece
    <3>5. CASE d < L + 1 /\ d + Len(s) > L
      <4>1. (L + 1) - d \in 1 .. Len(s) /\ d + ((L + 1) - d) = L + 1
        BY <3>2, <3>5
      <4>2. s[(L + 1) - d] = "n"
        BY <2>5, <3>1, <4>1
      <4>3. QED  BY <2>6, <4>1, <4>2 DEF OneLine
    <3>6. QED  BY <3>2, <3>3, <3>4, <3>5
  <2>7. QED  BY <1>3, <2>5, <2>6 DEF c
<1>4. QED  BY <1>2, <1>3

\* The fence that is open after it is a line of the text too.
LEMMA OpenAfterOne ==
  ASSUME NEW text \in Seq(Letters), NEW open, FenceIn(open, text),
         NEW raw \in Seq(Letters), PieceOf(raw, text)
  PROVE  FenceIn(FindOpenFence(Reopened(open, raw)), text)
<1> DEFINE c == Reopened(open, raw)
           line == FindOpenFence(c)
<1>1. /\ c \in Seq(Letters)
      /\ \A s \in Seq(Letters) : OneLine(s) /\ PieceOf(s, c) => PieceOf(s, text)
  BY ReopenedIs
<1> HIDE DEF c
<1>2. FenceIn(line, c)
  BY <1>1, OpenFenceIs
<1> HIDE DEF line
<1>3. FenceIn(line, text)
  BY <1>1, <1>2 DEF FenceIn
<1>4. QED  BY <1>3 DEF line, c

\* The recursion of OpenAfter.
Opened(raws, f) ==
  f = [k \in 0 .. Len(raws) |->
         IF k = 0 THEN <<>> ELSE FindOpenFence(Reopened(f[k - 1], raws[k]))]

\* Every chunk begins with a fence line of the text, or with none.
LEMMA OpenAfterIs ==
  ASSUME NEW text \in Seq(Letters), NEW raws \in Seq(Seq(Letters)),
         \A k \in 1 .. Len(raws) : PieceOf(raws[k], text)
  PROVE  \A k \in 0 .. Len(raws) : FenceIn(OpenAfter(raws)[k], text)
<1> DEFINE n == Len(raws)
           S == {line \in Seq(Letters) : FenceIn(line, text)}
           base == <<>>
           step == [k \in Nat |-> [open \in S |->
                      IF k \in 1 .. n THEN FindOpenFence(Reopened(open, raws[k]))
                      ELSE open]]
<1>1. n \in Nat
  OBVIOUS
<1>2. base \in S
  BY DEF FenceIn
<1> HIDE DEF base
<1>3. step \in [Nat -> [S -> S]]
  <2>1. ASSUME NEW k \in Nat, NEW open \in S
        PROVE  (IF k \in 1 .. n THEN FindOpenFence(Reopened(open, raws[k])) ELSE open) \in S
    <3>1. CASE k \in 1 .. n
      <4>1. raws[k] \in Seq(Letters) /\ PieceOf(raws[k], text) /\ FenceIn(open, text)
        BY <3>1, ElementOfSeq
      <4>2. FenceIn(FindOpenFence(Reopened(open, raws[k])), text)
        BY <4>1, OpenAfterOne
      <4>3. FindOpenFence(Reopened(open, raws[k])) \in S
        BY <4>2 DEF FenceIn
      <4>4. QED  BY <3>1, <4>3
    <3>2. CASE k \notin 1 .. n
      BY <3>2
    <3>3. QED  BY <3>1, <3>2
  <2> HIDE DEF S
  <2>2. QED  BY <2>1
<1>4. PICK f \in [0 .. n -> S] : Follows(n, base, step, f)
  <2> HIDE DEF S, step, n
  <2>1. QED  BY <1>1, <1>2, <1>3, RecursionExists
<1>5. ASSUME NEW i \in 0 .. n
      PROVE  f[i] = IF i = 0 THEN base ELSE FindOpenFence(Reopened(f[i - 1], raws[i]))
  <2>1. CASE i = 0
    BY <1>4, <2>1 DEF Follows
  <2>2. CASE i # 0
    <3>1. i \in Nat /\ i \in 1 .. n /\ i - 1 \in 0 .. n
      BY <1>1, <2>2
    <3>2. f[i] = step[i][f[i - 1]]
      <4> HIDE DEF step
      <4>1. QED  BY <1>4, <3>1 DEF Follows
    <3>3. f[i - 1] \in S
      BY <3>1
    <3> HIDE DEF S
    <3>4. QED  BY <2>2, <3>1, <3>2, <3>3
  <2>3. QED  BY <2>1, <2>2
<1>6. f = [i \in 0 .. n |-> f[i]]
  OBVIOUS
<1>7. Opened(raws, f)
  BY <1>5, <1>6 DEF Opened, base
<1>8. OpenAfter(raws) = CHOOSE h : Opened(raws, h)
  BY DEF OpenAfter, Opened
<1>9. Opened(raws, OpenAfter(raws))
  BY <1>7, <1>8
<1> DEFINE h == OpenAfter(raws)
           P == {i \in Nat : i \in 0 .. n => h[i] = f[i]}
<1>10. \A i \in 0 .. n : h[i] = IF i = 0 THEN base ELSE FindOpenFence(Reopened(h[i - 1], raws[i]))
  <2>1. Opened(raws, h)
    BY <1>9
  <2> HIDE DEF h
  <2>2. QED  BY <2>1 DEF Opened, base
<1> HIDE DEF h
<1>11. 0 \in P
  BY <1>1, <1>5, <1>10
<1>12. ASSUME NEW i \in 0 .. n, i + 1 <= n, i \in P PROVE i + 1 \in P
  <2>1. i + 1 \in 0 .. n /\ i + 1 # 0 /\ (i + 1) - 1 = i /\ h[i] = f[i]
    BY <1>1, <1>12
  <2>2. h[i + 1] = FindOpenFence(Reopened(h[(i + 1) - 1], raws[i + 1]))
    BY <1>10, <2>1
  <2>3. f[i + 1] = FindOpenFence(Reopened(f[(i + 1) - 1], raws[i + 1]))
    BY <1>5, <2>1
  <2>4. h[i + 1] = f[i + 1]
    BY <2>1, <2>2, <2>3
  <2>5. QED  BY <2>1, <2>4
<1> HIDE DEF P
<1>13. \A i \in 0 .. n : i \in P
  <2> HIDE DEF n
  <2>1. QED  BY <1>1, <1>11, <1>12, Induct
<1>14. \A i \in 0 .. n : h[i] = f[i] /\ f[i] \in S
  BY <1>13 DEF P
<1>15. QED  BY <1>14 DEF h

\* A fence that is longer than the reserve is one that HasLongFence names.
LEMMA LongFence ==
  ASSUME NEW text \in Seq(Letters), NEW line, FenceIn(line, text),
         Len(line) > Overhead - 3, line # <<>>
  PROVE  HasLongFence(text)
<1>1. line \in Seq(Letters) /\ OneLine(line) /\ IsFence(line) /\ PieceOf(line, text)
  BY DEF FenceIn
<1>2. Len(line) \in Nat /\ Len(line) >= 1 /\ Len(text) \in Nat
  BY <1>1
<1>3. PICK d \in Nat : /\ d + Len(line) <= Len(text)
                       /\ \A k \in 1 .. Len(line) : line[k] = text[d + k]
  BY <1>1 DEF PieceOf
<1> DEFINE p == d + 1
           q == d + Len(line)
           t == SubSeq(text, p, q)
<1>4. p \in 1 .. Len(text) /\ q \in p .. Len(text) /\ q - p + 1 = Len(line)
  BY <1>2, <1>3
<1>5. t = line
  <2>1. t \in Seq(Letters) /\ Len(t) = Len(line)
    BY <1>4, StretchIsPiece
  <2>2. \A i \in p .. q : text[i] \in Letters
    <3>1. \A i \in p .. q : i \in 1 .. Len(text)
      BY <1>2, <1>4
    <3>2. QED  BY <3>1, ElementOfSeq
  <2>3. p \in Int /\ q \in Int
    BY <1>2
  <2>4. \A i \in 1 .. q - p + 1 : t[i] = text[p + i - 1]
    <3> HIDE DEF p, q
    <3>1. QED  BY <2>2, <2>3, SubSeqProperties
  <2>5. ASSUME NEW i \in 1 .. Len(line) PROVE t[i] = line[i]
    <3>1. i \in 1 .. q - p + 1 /\ p + i - 1 = d + i
      BY <1>2, <1>4
    <3> HIDE DEF p, q, t
    <3>2. t[i] = text[p + i - 1]
      BY <2>4, <3>1
    <3>3. QED  BY <1>3, <3>1, <3>2
  <2> HIDE DEF t
  <2>6. QED  BY <1>1, <2>1, <2>5, SeqEqual
<1>6. "n" \notin {text[k] : k \in p .. q}
  <2>1. ASSUME NEW k \in p .. q PROVE text[k] # "n"
    <3>1. k - d \in 1 .. Len(line) /\ d + (k - d) = k
      BY <1>2, <1>4
    <3>2. line[k - d] = text[k] /\ line[k - d] # "n"
      BY <1>1, <1>3, <3>1 DEF OneLine
    <3>3. QED  BY <3>2
  <2>2. QED  BY <2>1
<1>7. DOMAIN text = 1 .. Len(text) /\ q \in 1 .. Len(text)
  BY <1>2, <1>4
<1> HIDE DEF p, q
<1>8. IsFence(SubSeq(text, p, q))
  BY <1>1, <1>5
<1>9. QED  BY <1>4, <1>6, <1>7, <1>8 DEF HasLongFence

\* The marker of a fence is one letter, and it is ```, if the text has no other.
LEMMA MarkerIsOne ==
  ASSUME NEW text \in Seq(Letters), ~HasOtherMarker(text),
         NEW line, FenceIn(line, text), line # <<>>
  PROVE  \E p : Marker(line) = {p} /\ line[p] = "f"
<1>1. line \in Seq(Letters) /\ IsFence(line) /\ PieceOf(line, text)
  BY DEF FenceIn
<1>2. DOMAIN line = 1 .. Len(line) /\ Len(line) \in Nat /\ Len(text) \in Nat
      /\ DOMAIN text = 1 .. Len(text)
  BY <1>1
<1>3. PICK d \in Nat : /\ d + Len(line) <= Len(text)
                       /\ \A k \in 1 .. Len(line) : line[k] = text[d + k]
  BY <1>1 DEF PieceOf
<1>4. \A k \in 1 .. Len(line) : line[k] # "g"
  <2>1. ASSUME NEW k \in 1 .. Len(line) PROVE line[k] # "g"
    <3>1. d + k \in 1 .. Len(text)
      BY <1>2, <1>3
    <3>2. text[d + k] # "g"
      BY <1>2, <3>1 DEF HasOtherMarker
    <3>3. QED  BY <1>3, <3>2
  <2>2. QED  BY <2>1
<1>5. \A k \in 2 .. Len(line) : ~(line[k - 1] = "f" /\ line[k] = "f")
  <2>1. ASSUME NEW k \in 2 .. Len(line) PROVE ~(line[k - 1] = "f" /\ line[k] = "f")
    <3>1. /\ d + k \in 1 .. Len(text) /\ d + k > 1 /\ (d + k) - 1 = d + (k - 1)
          /\ k - 1 \in 1 .. Len(line) /\ k \in 1 .. Len(line)
      BY <1>2, <1>3
    <3>2. ~(text[(d + k) - 1] = "f" /\ text[d + k] = "f")
      BY <1>2, <3>1 DEF HasOtherMarker
    <3>3. QED  BY <1>3, <3>1, <3>2
  <2>2. QED  BY <2>1
<1>6. PICK p : p \in Marker(line)
  BY <1>1 DEF IsFence
<1>7. \A q \in Marker(line) : q \in 1 .. Len(line) /\ line[q] = "f"
  BY <1>2, <1>4 DEF Marker
<1>8. ASSUME NEW p1 \in Marker(line), NEW p2 \in Marker(line), p1 < p2 PROVE FALSE
  <2>1. p1 \in 1 .. Len(line) /\ p2 \in 1 .. Len(line) /\ line[p1] = "f" /\ line[p2] = "f"
    BY <1>7
  <2>2. PICK q \in 1 .. p2 : /\ \A k \in 1 .. q - 1 : line[k] = "_"
                             /\ \A k \in q .. p2 : line[k] = line[p2]
    BY DEF Marker
  <2>0. p1 \in Nat /\ p2 \in Nat /\ q \in Nat /\ p1 >= 1 /\ p2 <= Len(line) /\ q <= p2
    <3>1. Len(line) \in Nat
      BY <1>2
    <3>2. p1 \in 1 .. Len(line) /\ p2 \in 1 .. Len(line) /\ q \in 1 .. p2
      BY <2>1
    <3>3. QED  BY <3>1, <3>2
  <2>3. q <= p1
    <3>1. ASSUME q > p1 PROVE FALSE
      <4>1. p1 \in 1 .. q - 1
        BY <2>0, <3>1
      <4>2. line[p1] = "_"
        BY <2>2, <4>1
      <4>3. QED  BY <2>1, <4>2
    <3>2. QED  BY <2>0, <3>1
  <2>4. p2 - 1 \in q .. p2 /\ p2 \in 2 .. Len(line)
    BY <1>2, <1>8, <2>0, <2>3
  <2>5. line[p2 - 1] = "f"
    BY <2>1, <2>2, <2>4
  <2>6. QED  BY <1>5, <2>1, <2>4, <2>5
<1>9. \A q \in Marker(line) : q = p
  <2>1. ASSUME NEW q \in Marker(line) PROVE q = p
    <3>1. ~(q < p) /\ ~(p < q)
      BY <1>6, <1>8
    <3>2. q \in Nat /\ p \in Nat
      BY <1>6, <1>7
    <3>3. QED  BY <3>1, <3>2
  <2>2. QED  BY <2>1
<1>10. QED  BY <1>6, <1>7, <1>9

\* A line of one ``` closes it.
LEMMA OneMarkerCloses ==
  ASSUME NEW text \in Seq(Letters), ~HasOtherMarker(text),
         NEW open, FenceIn(open, text), open # <<>>
  PROVE  Fence(open, <<"f">>) = <<>>
<1> DEFINE line == <<"f">>
<1>1. PICK p : Marker(open) = {p} /\ open[p] = "f"
  BY MarkerIsOne
<1>2. DOMAIN line = {1} /\ line[1] = "f"
  OBVIOUS
<1> HIDE DEF line
<1>3. Marker(line) = {1}
  <2>1. 1 \in Marker(line)
    <3>1. /\ 1 \in 1 .. 1 /\ \A k \in 1 .. 1 - 1 : line[k] = "_"
          /\ \A k \in 1 .. 1 : line[k] = line[1]
      OBVIOUS
    <3>2. QED  BY <1>2, <3>1 DEF Marker
  <2>2. Marker(line) \subseteq {1}
    BY <1>2 DEF Marker
  <2>3. QED  BY <2>1, <2>2
<1>4. Cardinality(Marker(line)) = 1 /\ Cardinality(Marker(open)) = 1
  BY <1>1, <1>3, FS_Singleton
<1>5. Closes(line, open)
  <2>1. Cardinality(Marker(line)) >= Cardinality(Marker(open))
    BY <1>4
  <2>2. line[1] = open[p] /\ 1 \in Marker(line) /\ p \in Marker(open)
    BY <1>1, <1>2, <1>3
  <2>3. DOMAIN line \ Marker(line) = {}
    BY <1>2, <1>3
  <2>4. QED  BY <2>1, <2>2, <2>3 DEF Closes
<1>6. IsFence(line)
  BY <1>3 DEF IsFence
<1>7. QED  BY <1>5, <1>6 DEF Fence, line

\* A chunk that is closed with a newline and a marker is longer by them, and
\* leaves no fence open.
LEMMA ClosedIs ==
  ASSUME NEW text \in Seq(Letters), NEW c \in Seq(Letters),
         FenceIn(FindOpenFence(c), text), FindOpenFence(c) # <<>>
  PROVE  /\ Len(Closed(c)) <= Len(c) + 2
         /\ ~HasOtherMarker(text) => FindOpenFence(Closed(c)) = <<>>
<1> DEFINE open == FindOpenFence(c)
           marker == <<"f">>
           empty == <<>>
           ended == IF c[Len(c)] = "n" THEN c ELSE Append(c, "n")
           after == EndState(ended)
<1>1. "n" \in Letters /\ "f" \in Letters
  BY DEF Letters
<1>2. ~IsFence(empty) /\ empty \in Seq(Letters) /\ Append(empty, "f") = marker
  <2>1. DOMAIN empty = {} /\ empty \in Seq(Letters) /\ Append(empty, "f") = marker
    OBVIOUS
  <2>2. QED  BY <2>1 DEF IsFence, Marker
<1>3. Closed(c) = ended \o marker
  BY DEF Closed
<1>4. open = Fence(EndState(c).open, EndState(c).line)
  BY DEF FindOpenFence, EndState
<1>5. /\ ended \in Seq(Letters) /\ Len(ended) <= Len(c) + 1
      /\ after \in ScanState /\ after.open = open /\ after.line = empty
  <2>1. CASE c[Len(c)] = "n"
    <3>1. Len(c) \in Nat /\ ended = c
      BY <2>1
    <3>2. EndState(c) \in ScanState
      BY <1>1, OneMoreLetter
    <3>3. CASE Len(c) = 0
      <4>1. EndState(c) = [open |-> <<>>, line |-> <<>>]
        BY <3>3, ScanSteps DEF EndState
      <4>2. open = <<>>
        BY <1>2, <1>4, <4>1 DEF Fence
      <4>3. QED  BY <4>2
    <3>4. CASE Len(c) # 0
      <4> DEFINE s == Scan(c)[Len(c) - 1]
      <4>1. Len(c) \in 1 .. Len(c)
        BY <3>1, <3>4
      <4>2. EndState(c) = Read(s, "n")
        BY <2>1, <4>1, ScanSteps DEF EndState
      <4>3. EndState(c).line = empty
        BY <4>2 DEF Read
      <4>4. open = EndState(c).open
        BY <1>2, <1>4, <4>3 DEF Fence
      <4>5. QED  BY <3>1, <3>2, <4>3, <4>4
    <3>5. QED  BY <3>3, <3>4
  <2>2. CASE c[Len(c)] # "n"
    <3>1. ended = Append(c, "n") /\ Len(c) \in Nat
      BY <2>2
    <3>2. ended \in Seq(Letters) /\ Len(ended) = Len(c) + 1
      BY <1>1, <3>1, AppendProperties
    <3>3. after \in ScanState
      BY <1>1, <3>2, OneMoreLetter
    <3>4. after = Read(EndState(c), "n")
      BY <1>1, <3>1, OneMoreLetter
    <3>5. after.open = open /\ after.line = empty
      BY <1>4, <3>4 DEF Read
    <3>6. QED  BY <3>1, <3>2, <3>3, <3>5
  <2>3. QED  BY <2>1, <2>2
<1> HIDE DEF ended
<1>6. Closed(c) = Append(ended, "f")
  BY <1>1, <1>3, <1>5, AppendIsConcat
<1>7. Len(Closed(c)) = Len(ended) + 1 /\ Len(ended) \in Nat /\ Len(c) \in Nat
  BY <1>1, <1>5, <1>6, AppendProperties
<1>8. EndState(Closed(c)) = Read(after, "f")
  BY <1>1, <1>5, <1>6, OneMoreLetter
<1>9. EndState(Closed(c)).open = open /\ EndState(Closed(c)).line = marker
  <2> HIDE DEF open, marker, after, empty
  <2>1. Read(after, "f") = [after EXCEPT !.line = Append(after.line, "f")]
    BY DEF Read
  <2>2. QED  BY <1>2, <1>5, <1>8, <2>1 DEF ScanState
<1>10. FindOpenFence(Closed(c)) = Fence(open, marker)
  BY <1>9 DEF FindOpenFence, EndState
<1>11. ~HasOtherMarker(text) => FindOpenFence(Closed(c)) = <<>>
  BY <1>10, OneMarkerCloses
<1>12. Len(Closed(c)) <= Len(c) + 2
  BY <1>5, <1>7
<1>13. QED  BY <1>11, <1>12

\* So each chunk is within the limit and its fences are closed, but for the
\* two exceptions.
LEMMA ChunkIsSound ==
  ASSUME NEW text \in Seq(Letters), NEW max \in Nat, max > Overhead, Overhead \in Nat,
         NEW open, FenceIn(open, text),
         NEW raw \in Seq(Letters), PieceOf(raw, text), Len(raw) <= max - Overhead
  PROVE  LET chunk == Closed(Reopened(open, raw))
         IN  /\ Len(chunk) <= max \/ HasLongFence(text)
             /\ FindOpenFence(chunk) = <<>> \/ HasOtherMarker(text)
<1> DEFINE c == Reopened(open, raw)
           left == FindOpenFence(c)
<1>1. /\ c \in Seq(Letters) /\ Len(raw) \in Nat
      /\ Len(c) = IF open = <<>> THEN Len(raw) ELSE Len(open) + 1 + Len(raw)
  BY ReopenedIs
<1>2. FenceIn(left, text)
  BY OpenAfterOne
<1> HIDE DEF c
<1>3. open \in Seq(Letters) /\ Len(open) \in Nat
  BY DEF FenceIn
<1>4. SUFFICES /\ ~HasLongFence(text) => Len(Closed(c)) <= max
               /\ ~HasOtherMarker(text) => FindOpenFence(Closed(c)) = <<>>
  BY DEF c
<1>5. CASE left = <<>>
  <2>1. Closed(c) = c
    BY <1>5 DEF Closed
  <2>2. ASSUME ~HasLongFence(text) PROVE Len(c) <= max
    <3>1. CASE open = <<>>
      BY <1>1, <3>1
    <3>2. CASE open # <<>>
      <4>1. ~(Len(open) > Overhead - 3)
        BY <2>2, <3>2, LongFence
      <4>2. QED  BY <1>1, <1>3, <3>2, <4>1
    <3>3. QED  BY <3>1, <3>2
  <2>3. QED  BY <1>5, <2>1, <2>2
<1>6. CASE left # <<>>
  <2>1. /\ Len(Closed(c)) <= Len(c) + 2 /\ Len(Closed(c)) \in Nat
        /\ ~HasOtherMarker(text) => FindOpenFence(Closed(c)) = <<>>
    BY <1>1, <1>2, <1>6, ClosedIs
  <2>2. ASSUME ~HasLongFence(text) PROVE Len(c) <= max - 2
    <3>1. CASE open = <<>>
      <4>1. ~(Len(left) > Overhead - 3) /\ left \in Seq(Letters)
        BY <1>2, <1>6, <2>2, LongFence DEF FenceIn
      <4>2. Len(left) >= 1 /\ Len(left) \in Nat
        <5> HIDE DEF left
        <5>1. QED  BY <1>6, <4>1
      <4>3. Overhead >= 4
        BY <4>1, <4>2
      <4>4. QED  BY <1>1, <3>1, <4>3
    <3>2. CASE open # <<>>
      <4>1. ~(Len(open) > Overhead - 3)
        BY <2>2, <3>2, LongFence
      <4>2. QED  BY <1>1, <1>3, <3>2, <4>1
    <3>3. QED  BY <3>1, <3>2
  <2>3. Len(c) \in Nat
    BY <1>1
  <2>4. QED  BY <2>1, <2>2, <2>3
<1>7. QED  BY <1>5, <1>6

\* For every text and every limit that leaves room for the fences, the splitter
\* of Discord messages keeps the text, keeps each chunk within the limit unless
\* a fence line is longer than the room, and leaves no fence open unless it has
\* another marker than three backticks (split_message_chunks).
THEOREM EveryTextSplitsSoundly ==
  ASSUME NEW text \in Seq(Letters), NEW max \in Nat, max > Overhead, Len(text) > max
  PROVE  SplitsSoundly(text, max)
<1> DEFINE limit == EffectiveLimit(max)
           raws == SplitAtBoundaries(text, limit)
           chunks == SplitMessageChunks(text, max)
           open == OpenAfter(raws)
           n == Len(raws)
<1>1. Overhead \in Nat /\ limit = max - Overhead /\ Len(text) \in Nat
  BY ChunkAssumption DEF EffectiveLimit
<1>2. limit \in Nat /\ limit > 0 /\ limit <= max
  BY <1>1
<1> HIDE DEF limit
<1>3. raws \in Seq(Seq(Letters)) /\ FlattenSeq(raws) = text /\ AllFit(raws, text, limit)
  BY <1>2, SplitKeepsTheText
<1>4. chunks = BalanceCodeFences(raws)
  <2>1. ~(Len(text) <= max)
    BY <1>1
  <2>2. QED  BY <2>1 DEF SplitMessageChunks, limit
<1> HIDE DEF raws, chunks
<1>5. n \in Nat /\ \A k \in 1 .. n : /\ raws[k] \in Seq(Letters) /\ PieceOf(raws[k], text)
                                     /\ Len(raws[k]) <= limit
  BY <1>3, ElementOfSeq DEF AllFit
<1>6. n # 0
  <2>1. SUFFICES ASSUME n = 0 PROVE FALSE
    OBVIOUS
  <2>2. FlattenSeq(raws) = raws
    BY <2>1 DEF FlattenSeq
  <2>3. Len(text) = 0
    BY <1>3, <2>1, <2>2
  <2>4. QED  BY <1>1, <2>3
<1>7. n # 1
  <2>1. SUFFICES ASSUME n = 1 PROVE FALSE
    OBVIOUS
  <2>0. Len(raws) > 0
    BY <2>1
  <2>2. PICK f : Flattens(raws, f) /\ FlattenSeq(raws) = f[n]
    BY <1>3, <2>0, FlattenIs
  <2>3. f[1] = raws[1]
    BY <2>1, <2>2 DEF Flattens
  <2>4. text = raws[1] /\ Len(raws[1]) <= limit
    BY <1>3, <1>5, <2>1, <2>2, <2>3
  <2>5. QED  BY <1>1, <1>2, <2>4
<1>8. chunks = [k \in 1 .. n |-> Closed(Reopened(open[k - 1], raws[k]))]
  <2>1. ~(n <= 1)
    <3>1. n \in Nat /\ n # 0 /\ n # 1
      BY <1>5, <1>6, <1>7
    <3> HIDE DEF n
    <3>2. QED  BY <3>1
  <2>2. QED  BY <1>4, <2>1 DEF BalanceCodeFences
<1>9. \A k \in 0 .. n : FenceIn(open[k], text)
  BY <1>3, <1>5, OpenAfterIs
<1> HIDE DEF open
<1>10. ASSUME NEW k \in DOMAIN chunks
       PROVE  /\ Len(chunks[k]) <= max \/ HasLongFence(text)
              /\ FindOpenFence(chunks[k]) = <<>> \/ HasOtherMarker(text)
  <2>1. k \in 1 .. n /\ k - 1 \in 0 .. n
    BY <1>5, <1>8
  <2>2. chunks[k] = Closed(Reopened(open[k - 1], raws[k])) /\ FenceIn(open[k - 1], text)
    BY <1>8, <1>9, <2>1
  <2>3. raws[k] \in Seq(Letters) /\ PieceOf(raws[k], text) /\ Len(raws[k]) <= max - Overhead
    BY <1>1, <1>5, <2>1
  <2>4. QED  BY <1>1, <2>2, <2>3, ChunkIsSound
<1>11. QED  BY <1>3, <1>10 DEF SplitsSoundly, raws, chunks, limit

\* So whatever is in the outgoing queue of Discord, its chunks are the text,
\* within the limit and with their fences closed (outgoing_loop).
THEOREM ChunksStaySound == Spec => []ChunksAreSound
<1>1. TextsSplitSoundly
  <2>1. ASSUME NEW text \in Texts, NEW max \in Limits, Len(text) > max
        PROVE  SplitsSoundly(text, max)
    <3>1. text \in Seq(Letters) /\ max \in Nat /\ max > Overhead
      BY ChunkAssumption
    <3>2. QED  BY <2>1, <3>1, EveryTextSplitsSoundly
  <2>2. QED  BY <2>1 DEF TextsSplitSoundly
<1>2. ChunksAreSound
  BY <1>1 DEF ChunksAreSound
<1>3. QED  BY <1>2, PTL
=============================================================================
