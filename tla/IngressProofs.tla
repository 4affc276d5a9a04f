--------------------------- MODULE IngressProofs ---------------------------
(***************************************************************************)
(* Proofs about Ingress for every number of messages, every mode and every *)
(* bound on faults: a message is missed only for a reason, it is written   *)
(* twice only if it was forgotten, and the typing indicator has a cause.   *)
(***************************************************************************)
EXTENDS Ingress, FiniteSetTheorems, TLAPS

Offered(m) == \E k \in Kinds : <<m, k>> \in pending
Past(m) == step[m] \in {"new", "admitted", "ready"}
InHand(m) == step[m] = "received" \/ Past(m)
Resolved(m) == copies[m] > 0 \/ m \in excused \/ m \notin Allowed

One(b) == IF b THEN 1 ELSE 0

\* What the state of each mode looks like, and that what is not posted yet is
\* nowhere.
Shape ==
  /\ mode # "socket" => pending \subseteq Msgs \X {"message"}
  /\ mode = "poll" => pending = {} /\ cursor <= posted
  /\ mode \in {"socket", "discord"} => inbox = {}
  /\ mode # "telegram" => unconfirmed = {}
  /\ mode # "discord" => answered = {} /\ ~typing
                         /\ \A m \in Msgs : step[m] # "enqueued"
  /\ mode = "discord" => \A m \in Msgs : step[m] # "received"
  /\ \A m \in Msgs : m > posted =>
       /\ \A k \in Kinds : <<m, k>> \notin pending
       /\ m \notin inbox /\ step[m] = Idle /\ copies[m] = 0

\* How often a message may still be written, now and after what is under way.
Coming(m) ==
  IF Slack THEN One(Past(m))
  ELSE One(InHand(m)) + One(m \in inbox)
         + One(Offered(m) /\ m \notin unconfirmed)

Spent(m) == IF Slack /\ m \notin recent THEN 0 ELSE 1

Counted == \A m \in Msgs : copies[m] + Coming(m) <= forgotten[m] + Spent(m)

\* What was taken from the platform is in hand until it is resolved.
Followed ==
  \A m \in Msgs :
    /\ m \in unconfirmed => m \in inbox \/ step[m] # Idle \/ Resolved(m)
    /\ Slack /\ m \in recent /\ ~Past(m) => Resolved(m)
    /\ step[m] = "enqueued" => copies[m] > 0

\* A reply comes after the message, and early ones are remembered.
Replied ==
  /\ \A m \in answered : copies[m] > 0
  /\ \A m \in Msgs : step[m] = "enqueued" /\ m \in answered => m \in mute
  /\ mode = "discord" =>
       \A m \in Msgs : /\ Offered(m) => step[m] = Idle /\ copies[m] = 0
                       /\ InHand(m) => copies[m] = 0

IInv ==
  /\ TypeOK /\ Shape /\ Counted /\ Followed /\ MissedHasCause
  /\ Replied /\ TypingHasCause

USE IngressAssumption DEF Msgs, Kinds, Steps, Unset, Idle, Slack

\* The events that are pending, and the messages they announce.
LEMMA PendingAnnounces ==
  ASSUME TypeOK
  PROVE  /\ {e[1] : e \in pending} \subseteq Msgs
         /\ \A m \in Msgs : m \in {e[1] : e \in pending} <=> Offered(m)
         /\ \A e \in pending : e = <<e[1], e[2]>> /\ e[2] \in Kinds
<1>1. \A e \in pending : e = <<e[1], e[2]>> /\ e[1] \in Msgs /\ e[2] \in Kinds
  BY DEF TypeOK
<1>2. {e[1] : e \in pending} \subseteq Msgs
  BY <1>1
<1>3. ASSUME NEW m \in Msgs
      PROVE  m \in {e[1] : e \in pending} <=> Offered(m)
  <2>1. ASSUME NEW e \in pending, m = e[1]
        PROVE  Offered(m)
    BY <1>1, <2>1 DEF Offered
  <2>2. ASSUME NEW k \in Kinds, <<m, k>> \in pending
        PROVE  m \in {e[1] : e \in pending}
    <3>1. <<m, k>>[1] = m
      OBVIOUS
    <3> QED BY <2>2, <3>1
  <2> QED BY <2>1, <2>2 DEF Offered
<1> QED BY <1>1, <1>2, <1>3

\* A page is never empty, and its newest message is the last that was posted.
LEMMA PageReachesPosted ==
  ASSUME TypeOK,
         NEW new, new = {m \in Msgs : cursor < m /\ m <= posted}, new # {}
  PROVE  LatestSeen(Page(new)) = posted /\ posted \in Msgs
<1>1. posted \in new
  BY DEF TypeOK
<1>2. {n \in new : n > posted} = {}
  BY DEF TypeOK
<1>3. posted \in Page(new)
  BY <1>1, <1>2, FS_EmptySet DEF Page
<1>4. \A n \in Page(new) : n \in Msgs /\ n <= posted
  BY DEF Page
<1> DEFINE last == CHOOSE m \in Page(new) : \A n \in Page(new) : n <= m
<1>5. last \in Page(new) /\ \A n \in Page(new) : n <= last
  BY <1>3, <1>4
<1>6. LatestSeen(Page(new)) = last
  BY <1>3 DEF LatestSeen
<1> HIDE DEF last
<1> QED BY <1>3, <1>4, <1>5, <1>6

\* A new message is announced, unheard, or ahead of the cursor.
LEMMA PostKeeps ==
  ASSUME IInv, Post
  PROVE  IInv'
<1>1. TypeOK'
  <2>1. posted + 1 \in Msgs
    BY DEF IInv, TypeOK, Post
  <2>2. Events(posted + 1) \in SUBSET (Msgs \X Kinds)
    BY <2>1 DEF Events, Unheard
  <2>3. pending' \in SUBSET (Msgs \X Kinds)
    BY <2>2 DEF IInv, TypeOK, Post
  <2>4. posted' \in 0 .. N /\ excused' \in SUBSET Msgs
    BY <2>1 DEF IInv, TypeOK, Post, Unheard
  <2> QED
    BY <2>1, <2>2, <2>3, <2>4 DEF IInv, TypeOK, Post, linkVars, replyVars,
       boundVars
<1>2. Shape'
  BY SMTT(30) DEF IInv, TypeOK, Shape, Post, boundVars, replyVars, linkVars,
         Unheard, Events
<1>3. Counted'
  <2> SUFFICES ASSUME NEW n \in Msgs
               PROVE  copies'[n] + Coming(n)' <= forgotten'[n] + Spent(n)'
    BY DEF Counted
  <2>1. copies[n] + Coming(n) <= forgotten[n] + Spent(n)
    BY DEF IInv, Counted
  <2>2. copies[n] \in Nat /\ forgotten[n] \in Nat
    BY DEF IInv, TypeOK
  <2>3. /\ Coming(n) \in Nat /\ Coming(n)' \in Nat
        /\ Spent(n) \in {0, 1} /\ Spent(n)' \in {0, 1}
    BY DEF Coming, Spent, One
  <2>4. CASE n # posted + 1
    BY <2>1, <2>2, <2>3, <2>4 DEF IInv, TypeOK, Post, Events, Unheard, Spent,
       platformVars, linkVars,
         Coming, Past, InHand, Offered, One
  <2>5. CASE n = posted + 1
    BY <2>1, <2>2, <2>3, <2>5 DEF IInv, TypeOK, Shape, Post, Events, Unheard,
       Spent, platformVars,
         linkVars, Coming, Past, InHand, Offered, One
  <2> QED
    BY <2>1, <2>2, <2>3, <2>4, <2>5
<1>4. Followed'
  BY DEF IInv, TypeOK, Followed, Resolved, Past, Post, boundVars, replyVars,
         linkVars, Unheard, Events
<1>5. MissedHasCause'
  <2>1. CASE Unheard
    BY <2>1 DEF IInv, TypeOK, Shape, MissedHasCause, OnItsWay, Post, Events,
         linkVars
  <2>2. CASE ~Unheard /\ mode = "poll"
    BY <2>2 DEF IInv, TypeOK, Shape, MissedHasCause, OnItsWay, Post, Events,
         linkVars
  <2>3. CASE ~Unheard /\ mode # "poll"
    <3>1. <<posted + 1, "message">> \in pending' /\ pending \subseteq pending'
      BY <2>3 DEF Post, Events
    <3>2. posted' = posted + 1 /\ excused' = excused
      BY <2>3 DEF Post
    <3>3. UNCHANGED <<mode, cursor, inbox, step, copies>>
      BY DEF Post, linkVars
    <3>4. \A m \in Msgs : m = posted + 1 => OnItsWay(m)'
      BY <3>1 DEF OnItsWay
    <3>5. \A m \in Msgs : OnItsWay(m) => OnItsWay(m)'
      BY <3>1, <3>3 DEF OnItsWay
    <3>6. \A m \in Msgs : m <= posted' => m <= posted \/ m = posted + 1
      BY <3>2 DEF IInv, TypeOK
    <3> QED
      BY <3>2, <3>3, <3>4, <3>5, <3>6 DEF IInv, MissedHasCause
  <2> QED BY <2>1, <2>2, <2>3
<1>6. Replied'
  BY DEF IInv, TypeOK, Replied, InHand, Past, Offered, Shape, Post, boundVars,
         replyVars, linkVars, Unheard, Events
<1>7. TypingHasCause'
  BY DEF IInv, TypeOK, TypingHasCause, Post, boundVars, replyVars, linkVars,
         Unheard, Events
<1> QED BY <1>1, <1>2, <1>3, <1>4, <1>5, <1>6, <1>7 DEF IInv

\* A connection that opens moves no message.
LEMMA OpenSocketKeeps ==
  ASSUME IInv, OpenSocket
  PROVE  IInv'
<1>1. TypeOK'
  BY DEF IInv, TypeOK, OpenSocket, Connected, boundVars, replyVars,
         platformVars
<1>2. Shape'
  BY DEF IInv, TypeOK, Shape, OpenSocket, Connected, boundVars, replyVars,
         platformVars
<1>3. Counted'
  BY DEF IInv, TypeOK, Counted, Spent, Coming, Offered, One, InHand, Past,
         OpenSocket, Connected, boundVars, replyVars, platformVars
<1>4. Followed'
  BY DEF IInv, TypeOK, Followed, Resolved, Past, OpenSocket, Connected,
         boundVars, replyVars, platformVars
<1>5. MissedHasCause'
  BY DEF IInv, TypeOK, MissedHasCause, OnItsWay, OpenSocket, Connected,
         boundVars, replyVars, platformVars
<1>6. Replied'
  BY DEF IInv, TypeOK, Replied, InHand, Past, Offered, OpenSocket, Connected,
         boundVars, replyVars, platformVars
<1>7. TypingHasCause'
  BY DEF IInv, TypeOK, TypingHasCause, OpenSocket, Connected, boundVars,
         replyVars, platformVars
<1> QED BY <1>1, <1>2, <1>3, <1>4, <1>5, <1>6, <1>7 DEF IInv

\* Nor does the discovery of channels.
LEMMA DiscoverChannelsKeeps ==
  ASSUME IInv, DiscoverChannels
  PROVE  IInv'
<1>1. TypeOK'
  BY DEF IInv, TypeOK, DiscoverChannels, Connected, boundVars, replyVars,
         platformVars
<1>2. Shape'
  BY DEF IInv, TypeOK, Shape, DiscoverChannels, Connected, boundVars,
         replyVars, platformVars
<1>3. Counted'
  BY DEF IInv, TypeOK, Counted, Spent, Coming, Offered, One, InHand, Past,
         DiscoverChannels, Connected, boundVars, replyVars, platformVars
<1>4. Followed'
  BY DEF IInv, TypeOK, Followed, Resolved, Past, DiscoverChannels, Connected,
         boundVars, replyVars, platformVars
<1>5. MissedHasCause'
  BY DEF IInv, TypeOK, MissedHasCause, OnItsWay, DiscoverChannels, Connected,
         boundVars, replyVars, platformVars
<1>6. Replied'
  BY DEF IInv, TypeOK, Replied, InHand, Past, Offered, DiscoverChannels,
         Connected, boundVars, replyVars, platformVars
<1>7. TypingHasCause'
  BY DEF IInv, TypeOK, TypingHasCause, DiscoverChannels, Connected, boundVars,
         replyVars, platformVars
<1> QED BY <1>1, <1>2, <1>3, <1>4, <1>5, <1>6, <1>7 DEF IInv

\* Nor the start of the repl.
LEMMA StartReplKeeps ==
  ASSUME IInv, StartRepl
  PROVE  IInv'
<1>1. TypeOK'
  BY DEF IInv, TypeOK, StartRepl, Connected, boundVars, replyVars,
         platformVars
<1>2. Shape'
  BY DEF IInv, TypeOK, Shape, StartRepl, Connected, boundVars, replyVars,
         platformVars
<1>3. Counted'
  BY DEF IInv, TypeOK, Counted, Spent, Coming, Offered, One, InHand, Past,
         StartRepl, Connected, boundVars, replyVars, platformVars
<1>4. Followed'
  BY DEF IInv, TypeOK, Followed, Resolved, Past, StartRepl, Connected,
         boundVars, replyVars, platformVars
<1>5. MissedHasCause'
  BY DEF IInv, TypeOK, MissedHasCause, OnItsWay, StartRepl, Connected,
         boundVars, replyVars, platformVars
<1>6. Replied'
  BY DEF IInv, TypeOK, Replied, InHand, Past, Offered, StartRepl, Connected,
         boundVars, replyVars, platformVars
<1>7. TypingHasCause'
  BY DEF IInv, TypeOK, TypingHasCause, StartRepl, Connected, boundVars,
         replyVars, platformVars
<1> QED BY <1>1, <1>2, <1>3, <1>4, <1>5, <1>6, <1>7 DEF IInv

\* Nor a session that opens or is resumed.
LEMMA OpenSessionKeeps ==
  ASSUME IInv, OpenSession
  PROVE  IInv'
<1>1. TypeOK'
  BY DEF IInv, TypeOK, OpenSession, Connected, boundVars, replyVars,
         platformVars
<1>2. Shape'
  BY DEF IInv, TypeOK, Shape, OpenSession, Connected, boundVars, replyVars,
         platformVars
<1>3. Counted'
  BY DEF IInv, TypeOK, Counted, Spent, Coming, Offered, One, InHand, Past,
         OpenSession, Connected, boundVars, replyVars, platformVars
<1>4. Followed'
  BY DEF IInv, TypeOK, Followed, Resolved, Past, OpenSession, Connected,
         boundVars, replyVars, platformVars
<1>5. MissedHasCause'
  BY DEF IInv, TypeOK, MissedHasCause, OnItsWay, OpenSession, Connected,
         boundVars, replyVars, platformVars
<1>6. Replied'
  BY DEF IInv, TypeOK, Replied, InHand, Past, Offered, OpenSession, Connected,
         boundVars, replyVars, platformVars
<1>7. TypingHasCause'
  BY DEF IInv, TypeOK, TypingHasCause, OpenSession, Connected, boundVars,
         replyVars, platformVars
<1> QED BY <1>1, <1>2, <1>3, <1>4, <1>5, <1>6, <1>7 DEF IInv

\* Nor a socket that closes while no handler runs.
LEMMA SocketClosesKeeps ==
  ASSUME IInv, SocketCloses
  PROVE  IInv'
<1>1. TypeOK'
  BY DEF IInv, TypeOK, SocketCloses, replyVars, platformVars, Fault,
         HandlerFree
<1>2. Shape'
  BY DEF IInv, TypeOK, Shape, SocketCloses, replyVars, platformVars, Fault,
         HandlerFree
<1>3. Counted'
  BY DEF IInv, TypeOK, Counted, Spent, Coming, Offered, One, InHand, Past,
         SocketCloses, replyVars, platformVars, Fault, HandlerFree
<1>4. Followed'
  BY DEF IInv, TypeOK, Followed, Resolved, Past, SocketCloses, replyVars,
         platformVars, Fault, HandlerFree
<1>5. MissedHasCause'
  BY DEF IInv, TypeOK, MissedHasCause, OnItsWay, SocketCloses, replyVars,
         platformVars, Fault, HandlerFree
<1>6. Replied'
  BY DEF IInv, TypeOK, Replied, InHand, Past, Offered, SocketCloses,
         replyVars, platformVars, Fault, HandlerFree
<1>7. TypingHasCause'
  BY DEF IInv, TypeOK, TypingHasCause, SocketCloses, replyVars, platformVars,
         Fault, HandlerFree
<1> QED BY <1>1, <1>2, <1>3, <1>4, <1>5, <1>6, <1>7 DEF IInv

\* Nor a session that breaks.
LEMMA SessionBreaksKeeps ==
  ASSUME IInv, SessionBreaks
  PROVE  IInv'
<1>1. TypeOK'
  BY SMTT(30) DEF IInv, TypeOK, SessionBreaks, replyVars, platformVars, Fault
<1>2. Shape'
  BY DEF IInv, TypeOK, Shape, SessionBreaks, replyVars, platformVars, Fault
<1>3. Counted'
  BY DEF IInv, TypeOK, Counted, Spent, Coming, Offered, One, InHand, Past,
         SessionBreaks, replyVars, platformVars, Fault
<1>4. Followed'
  BY DEF IInv, TypeOK, Followed, Resolved, Past, SessionBreaks, replyVars,
         platformVars, Fault
<1>5. MissedHasCause'
  BY DEF IInv, TypeOK, MissedHasCause, OnItsWay, SessionBreaks, replyVars,
         platformVars, Fault
<1>6. Replied'
  BY DEF IInv, TypeOK, Replied, InHand, Past, Offered, SessionBreaks,
         replyVars, platformVars, Fault
<1>7. TypingHasCause'
  BY DEF IInv, TypeOK, TypingHasCause, SessionBreaks, replyVars, platformVars,
         Fault
<1> QED BY <1>1, <1>2, <1>3, <1>4, <1>5, <1>6, <1>7 DEF IInv

\* What GetUpdates confirms was followed to its end, the rest is in the inbox.
LEMMA GetUpdatesKeeps ==
  ASSUME IInv, GetUpdates
  PROVE  IInv'
<1>1. TypeOK'
  <2>1. pending' \in SUBSET (Msgs \X Kinds)
    BY DEF IInv, TypeOK, GetUpdates
  <2>2. unconfirmed' \subseteq {e[1] : e \in pending}
    BY DEF IInv, TypeOK, GetUpdates
  <2>3. unconfirmed' \in SUBSET Msgs /\ inbox' \in SUBSET Msgs
    BY <2>2, PendingAnnounces DEF IInv, TypeOK, GetUpdates
  <2> QED
    BY <2>1, <2>2, <2>3 DEF IInv, TypeOK, GetUpdates, replyVars, boundVars
<1>2. Shape'
  BY DEF IInv, TypeOK, Shape, GetUpdates, boundVars, replyVars
<1>3. Counted'
  <2> SUFFICES ASSUME NEW n \in Msgs
               PROVE  copies'[n] + Coming(n)' <= forgotten'[n] + Spent(n)'
    BY DEF Counted
  <2>1. copies[n] + Coming(n) <= forgotten[n] + Spent(n)
    BY DEF IInv, Counted
  <2>2. copies[n] \in Nat /\ forgotten[n] \in Nat
    BY DEF IInv, TypeOK
  <2>3. /\ Coming(n) \in Nat /\ Coming(n)' \in Nat
        /\ Spent(n) \in {0, 1} /\ Spent(n)' \in {0, 1}
    BY DEF Coming, Spent, One
  <2>4. Offered(n) /\ n \notin unconfirmed <=> n \in unconfirmed'
    <3> DEFINE kept == {e \in pending : e[1] \notin unconfirmed}
    <3>1. unconfirmed' = {e[1] : e \in kept}
      BY DEF GetUpdates
    <3>2. ASSUME Offered(n), n \notin unconfirmed
          PROVE  n \in unconfirmed'
      <4>1. PICK k \in Kinds : <<n, k>> \in pending
        BY <3>2 DEF Offered
      <4>2. <<n, k>>[1] = n
        OBVIOUS
      <4>3. <<n, k>> \in kept
        BY <3>2, <4>1, <4>2
      <4> QED BY <3>1, <4>2, <4>3
    <3>3. ASSUME n \in unconfirmed'
          PROVE  Offered(n) /\ n \notin unconfirmed
      <4>1. PICK e \in kept : n = e[1]
        BY <3>1, <3>3
      <4> QED BY <4>1, PendingAnnounces DEF IInv
    <3> QED BY <3>2, <3>3
  <2>5. ~(Offered(n)' /\ n \notin unconfirmed')
    BY <2>4 DEF GetUpdates, Offered
  <2>6. Coming(n)' <= Coming(n)
    BY <2>4, <2>5 DEF GetUpdates, Coming, Past, InHand, One
  <2>7. UNCHANGED <<copies, forgotten, Spent(n)>>
    BY DEF GetUpdates, Spent, platformVars
  <2> QED
    BY <2>1, <2>2, <2>3, <2>4, <2>5, <2>6, <2>7
<1>4. Followed'
  BY DEF IInv, TypeOK, Followed, Resolved, Past, GetUpdates, boundVars,
         replyVars
<1>5. MissedHasCause'
  BY DEF IInv, TypeOK, MissedHasCause, OnItsWay, Shape, Followed, Resolved,
         Past, GetUpdates, boundVars, replyVars
<1>6. Replied'
  BY DEF IInv, TypeOK, Replied, InHand, Past, Offered, GetUpdates, boundVars,
         replyVars
<1>7. TypingHasCause'
  BY DEF IInv, TypeOK, TypingHasCause, GetUpdates, boundVars, replyVars
<1> QED BY <1>1, <1>2, <1>3, <1>4, <1>5, <1>6, <1>7 DEF IInv

\* The first cursor excuses everything before it.
LEMMA FirstFetchKeeps ==
  ASSUME IInv, FirstFetch
  PROVE  IInv'
<1>1. TypeOK'
  <2>1. cursor' \in Msgs \cup {Unset, 0} /\ excused' \in SUBSET Msgs
    BY DEF IInv, TypeOK, FirstFetch
  <2> QED
    BY <2>1 DEF IInv, TypeOK, FirstFetch, platformVars, replyVars, boundVars
<1>2. Shape'
  BY DEF IInv, TypeOK, Shape, FirstFetch, boundVars, replyVars, platformVars
<1>3. Counted'
  BY DEF IInv, TypeOK, Counted, Spent, Coming, Offered, One, InHand, Past,
         FirstFetch, boundVars, replyVars, platformVars
<1>4. Followed'
  BY DEF IInv, TypeOK, Followed, Resolved, Past, FirstFetch, boundVars,
         replyVars, platformVars
<1>5. MissedHasCause'
  BY DEF IInv, TypeOK, MissedHasCause, OnItsWay, FirstFetch, boundVars,
         replyVars, platformVars
<1>6. Replied'
  BY DEF IInv, TypeOK, Replied, InHand, Past, Offered, FirstFetch, boundVars,
         replyVars, platformVars
<1>7. TypingHasCause'
  BY DEF IInv, TypeOK, TypingHasCause, FirstFetch, boundVars, replyVars,
         platformVars
<1> QED BY <1>1, <1>2, <1>3, <1>4, <1>5, <1>6, <1>7 DEF IInv

\* What the page leaves out is excused, the cursor is at the newest message.
LEMMA FetchHistoryKeeps ==
  ASSUME IInv, FetchHistory
  PROVE  IInv'
<1>1. /\ posted \in Msgs /\ cursor' = posted
      /\ inbox' \in SUBSET Msgs /\ excused' \in SUBSET Msgs
  BY PageReachesPosted DEF IInv, TypeOK, FetchHistory, Page
<1>8. TypeOK'
  BY <1>1 DEF IInv, TypeOK, FetchHistory, boundVars, replyVars, platformVars
<1>2. Shape'
  <2>1. \A m \in Msgs : m > posted => m \notin inbox'
    BY <1>1 DEF IInv, TypeOK, FetchHistory, Page
  <2>2. /\ mode = "poll" /\ cursor' <= posted'
        /\ UNCHANGED <<mode, posted, pending, unconfirmed, step, copies,
              typing, answered>>
    BY <1>1 DEF FetchHistory, replyVars, platformVars
  <2> QED
    BY <2>1, <2>2 DEF IInv, Shape
<1>3. Counted'
  BY DEF IInv, TypeOK, Counted, Spent, Coming, Offered, One, InHand, Past,
         FetchHistory, boundVars, replyVars, platformVars, HandlerFree
<1>4. Followed'
  BY DEF IInv, TypeOK, Followed, Resolved, Past, FetchHistory, boundVars,
         replyVars, platformVars, HandlerFree
<1>5. MissedHasCause'
  BY DEF IInv, TypeOK, MissedHasCause, OnItsWay, FetchHistory, boundVars,
         replyVars, platformVars, HandlerFree
<1>6. Replied'
  BY DEF IInv, TypeOK, Replied, InHand, Past, Offered, FetchHistory,
         boundVars, replyVars, platformVars, HandlerFree
<1>7. TypingHasCause'
  BY DEF IInv, TypeOK, TypingHasCause, FetchHistory, boundVars, replyVars,
         platformVars, HandlerFree
<1> QED BY <1>1, <1>2, <1>3, <1>4, <1>5, <1>6, <1>7, <1>8 DEF IInv

\* What is in hand and not offered again is excused, and all is forgotten.
LEMMA CrashKeeps ==
  ASSUME IInv, Crash
  PROVE  IInv'
<1>1. TypeOK'
  <2>1. pending' \in SUBSET (Msgs \X Kinds) /\ excused' \in SUBSET Msgs
    BY PendingAnnounces DEF IInv, TypeOK, Crash
  <2>2. forgotten' \in [Msgs -> Nat] /\ step' \in [Msgs -> Steps]
    BY DEF IInv, TypeOK, Crash
  <2>3. cursor' \in Msgs \cup {Unset, 0} /\ unconfirmed' \in SUBSET Msgs
           /\ inbox' \in SUBSET Msgs
    BY DEF IInv, TypeOK, Crash
  <2>4. faults' \in 0 .. MaxFaults /\ crashes' \in 0 .. MaxCrashes
    BY DEF IInv, TypeOK, Crash
  <2> QED
    BY <2>1, <2>2, <2>3, <2>4 DEF IInv, TypeOK, Crash, platformVars, linkVars,
       replyVars, boundVars
<1>2. Shape'
  BY DEF IInv, TypeOK, Shape, Crash
<1>3. Counted'
  <2> SUFFICES ASSUME NEW n \in Msgs
               PROVE  copies'[n] + Coming(n)' <= forgotten'[n] + Spent(n)'
    BY DEF Counted
  <2>1. copies[n] + Coming(n) <= forgotten[n] + Spent(n)
    BY DEF IInv, Counted
  <2>2. copies[n] \in Nat /\ forgotten[n] \in Nat
    BY DEF IInv, TypeOK
  <2>3. /\ Coming(n) \in Nat /\ Coming(n)' \in Nat
        /\ Spent(n) \in {0, 1} /\ Spent(n)' \in {0, 1}
    BY DEF Coming, Spent, One
  <2>4. copies'[n] = copies[n] /\ forgotten'[n] = forgotten[n] + 1
    BY DEF IInv, TypeOK, Crash
  <2>5. Coming(n)' <= Spent(n)'
    BY DEF Crash, Spent, Coming, Past, InHand, Offered, One
  <2> QED
    BY <2>1, <2>2, <2>3, <2>4, <2>5
<1>4. Followed'
  BY DEF IInv, TypeOK, Followed, Resolved, Past, Crash
<1>5. MissedHasCause'
  <2> SUFFICES ASSUME NEW m \in Allowed, m <= posted, copies[m] = 0,
                      m \notin excused'
               PROVE  OnItsWay(m)'
    BY DEF MissedHasCause, Crash
  <2>1. m \in Msgs /\ m \notin excused
    BY DEF Crash
  <2>2. OnItsWay(m)
    BY <2>1 DEF IInv, MissedHasCause
  <2>3. step[m] # "enqueued"
    BY <2>1 DEF IInv, Followed
  <2>4. CASE mode = "poll"
    BY <2>1, <2>4 DEF OnItsWay, Crash, IInv, TypeOK
  <2>5. CASE mode = "discord"
    BY <2>1, <2>2, <2>3, <2>5, PendingAnnounces
    DEF OnItsWay, Crash, IInv, Offered
  <2>6. CASE mode \notin {"poll", "discord"}
    BY <2>1, <2>2, <2>3, <2>6, PendingAnnounces
    DEF OnItsWay, Crash, IInv, Offered
  <2> QED BY <2>4, <2>5, <2>6
<1>6. Replied'
  BY DEF IInv, TypeOK, Replied, InHand, Past, Offered, Crash
<1>7. TypingHasCause'
  BY DEF IInv, TypeOK, TypingHasCause, Crash
<1> QED BY <1>1, <1>2, <1>3, <1>4, <1>5, <1>6, <1>7 DEF IInv

\* An event that is given up is excused.
LEMMA PlatformGivesUpKeeps ==
  ASSUME IInv, NEW e \in pending, PlatformGivesUp(e)
  PROVE  IInv'
<1>1. TypeOK'
  <2>1. pending' \in SUBSET (Msgs \X Kinds) /\ excused' \in SUBSET Msgs
    BY DEF IInv, TypeOK, PlatformGivesUp
  <2>2. faults' \in 0 .. MaxFaults /\ crashes' \in 0 .. MaxCrashes
    BY DEF IInv, TypeOK, PlatformGivesUp, Fault
  <2> QED
    BY <2>1, <2>2 DEF IInv, TypeOK, PlatformGivesUp, linkVars, replyVars
<1>2. Shape'
  BY DEF IInv, TypeOK, Shape, PlatformGivesUp, replyVars, linkVars, Fault
<1>3. Counted'
  <2> SUFFICES ASSUME NEW n \in Msgs
               PROVE  copies'[n] + Coming(n)' <= forgotten'[n] + Spent(n)'
    BY DEF Counted
  <2>1. copies[n] + Coming(n) <= forgotten[n] + Spent(n)
    BY DEF IInv, Counted
  <2>2. copies[n] \in Nat /\ forgotten[n] \in Nat
    BY DEF IInv, TypeOK
  <2>3. /\ Coming(n) \in Nat /\ Coming(n)' \in Nat
        /\ Spent(n) \in {0, 1} /\ Spent(n)' \in {0, 1}
    BY DEF Coming, Spent, One
  <2>4. Coming(n)' <= Coming(n)
    BY DEF PlatformGivesUp, linkVars, Coming, Past, InHand, Offered, One
  <2>5. UNCHANGED <<copies, forgotten, Spent(n)>>
    BY DEF PlatformGivesUp, Spent, platformVars
  <2> QED
    BY <2>1, <2>2, <2>3, <2>4, <2>5
<1>4. Followed'
  BY DEF IInv, TypeOK, Followed, Resolved, Past, PlatformGivesUp, replyVars,
         linkVars, Fault
<1>5. MissedHasCause'
  BY DEF IInv, TypeOK, MissedHasCause, OnItsWay, PlatformGivesUp, replyVars,
         linkVars, Fault
<1>6. Replied'
  BY DEF IInv, TypeOK, Replied, InHand, Past, Offered, PlatformGivesUp,
         replyVars, linkVars, Fault
<1>7. TypingHasCause'
  BY DEF IInv, TypeOK, TypingHasCause, PlatformGivesUp, replyVars, linkVars,
         Fault
<1> QED BY <1>1, <1>2, <1>3, <1>4, <1>5, <1>6, <1>7 DEF IInv

\* An acknowledged event is in hand.
LEMMA ReceiveEnvelopeKeeps ==
  ASSUME IInv, NEW e \in pending, ReceiveEnvelope(e)
  PROVE  IInv'
<1>1. TypeOK'
  BY DEF IInv, TypeOK, ReceiveEnvelope, boundVars, replyVars, linkVars, Goto,
         HandlerFree
<1>2. Shape'
  BY DEF IInv, TypeOK, Shape, ReceiveEnvelope, boundVars, replyVars, linkVars,
         Goto, HandlerFree
<1>3. Counted'
  BY DEF IInv, TypeOK, Counted, Spent, Coming, Offered, One, InHand, Past,
         ReceiveEnvelope, boundVars, replyVars, linkVars, Goto, HandlerFree
<1>4. Followed'
  BY DEF IInv, TypeOK, Followed, Resolved, Past, ReceiveEnvelope, boundVars,
         replyVars, linkVars, Goto, HandlerFree
<1>5. MissedHasCause'
  BY DEF IInv, TypeOK, MissedHasCause, OnItsWay, ReceiveEnvelope, boundVars,
         replyVars, linkVars, Goto, HandlerFree
<1>6. Replied'
  BY DEF IInv, TypeOK, Replied, InHand, Past, Offered, ReceiveEnvelope,
         boundVars, replyVars, linkVars, Goto, HandlerFree
<1>7. TypingHasCause'
  BY DEF IInv, TypeOK, TypingHasCause, ReceiveEnvelope, boundVars, replyVars,
         linkVars, Goto, HandlerFree
<1> QED BY <1>1, <1>2, <1>3, <1>4, <1>5, <1>6, <1>7 DEF IInv

\* An event whose acknowledgement is lost is in hand, and pending.
LEMMA LoseAckKeeps ==
  ASSUME IInv, NEW e \in pending, LoseAck(e)
  PROVE  IInv'
<1>1. TypeOK'
  <2>1. e[1] \in Msgs
    BY DEF IInv, TypeOK, LoseAck
  <2>2. step' \in [Msgs -> Steps]
    BY DEF IInv, TypeOK, LoseAck, Goto
  <2>3. faults' \in 0 .. MaxFaults /\ crashes' \in 0 .. MaxCrashes
    BY DEF IInv, TypeOK, LoseAck, Fault
  <2> QED
    BY <2>1, <2>2, <2>3 DEF IInv, TypeOK, LoseAck, platformVars, linkVars,
       replyVars
<1>2. Shape'
  BY DEF IInv, TypeOK, Shape, LoseAck, replyVars, linkVars, platformVars,
         Goto, Fault, HandlerFree
<1>3. Counted'
  BY DEF IInv, TypeOK, Counted, Spent, Coming, Offered, One, InHand, Past,
         LoseAck, replyVars, linkVars, platformVars, Goto, Fault, HandlerFree
<1>4. Followed'
  BY DEF IInv, TypeOK, Followed, Resolved, Past, LoseAck, replyVars, linkVars,
         platformVars, Goto, Fault, HandlerFree
<1>5. MissedHasCause'
  BY DEF IInv, TypeOK, MissedHasCause, OnItsWay, LoseAck, replyVars, linkVars,
         platformVars, Goto, Fault, HandlerFree
<1>6. Replied'
  BY DEF IInv, TypeOK, Replied, InHand, Past, Offered, LoseAck, replyVars,
         linkVars, platformVars, Goto, Fault, HandlerFree
<1>7. TypingHasCause'
  BY DEF IInv, TypeOK, TypingHasCause, LoseAck, replyVars, linkVars,
         platformVars, Goto, Fault, HandlerFree
<1> QED BY <1>1, <1>2, <1>3, <1>4, <1>5, <1>6, <1>7 DEF IInv

\* A dispatched event is in hand and no longer pending.
LEMMA DispatchKeeps ==
  ASSUME IInv, NEW e \in pending, Dispatch(e)
  PROVE  IInv'
<1>1. TypeOK'
  BY DEF IInv, TypeOK, Dispatch, boundVars, replyVars, linkVars, Goto
<1>2. Shape'
  BY DEF IInv, TypeOK, Shape, Dispatch, boundVars, replyVars, linkVars, Goto
<1>3. Counted'
  <2> SUFFICES ASSUME NEW n \in Msgs
               PROVE  copies'[n] + Coming(n)' <= forgotten'[n] + Spent(n)'
    BY DEF Counted
  <2>1. copies[n] + Coming(n) <= forgotten[n] + Spent(n)
    BY DEF IInv, Counted
  <2>2. copies[n] \in Nat /\ forgotten[n] \in Nat
    BY DEF IInv, TypeOK
  <2>3. /\ Coming(n) \in Nat /\ Coming(n)' \in Nat
        /\ Spent(n) \in {0, 1} /\ Spent(n)' \in {0, 1}
    BY DEF Coming, Spent, One
  <2>4. /\ e = <<e[1], "message">>
        /\ \A k \in Kinds : <<n, k>> \in pending => k = "message"
    BY DEF IInv, Shape, Dispatch
  <2>5. step'[n] = IF n = e[1] THEN "new" ELSE step[n]
    BY DEF IInv, TypeOK, Dispatch, Goto
  <2>6. n \notin unconfirmed /\ UNCHANGED <<unconfirmed, inbox, mode>>
    BY DEF IInv, Shape, Dispatch, platformVars, linkVars
  <2>7. Coming(n)' <= Coming(n)
    <3>1. CASE n = e[1]
      <4>1. Offered(n) /\ ~Offered(n)' /\ step[n] = Idle
        BY <2>4, <3>1 DEF IInv, Replied, Dispatch, Offered
      <4> QED
        BY <2>5, <2>6, <4>1, <3>1 DEF Coming, Past, InHand, One, Dispatch
    <3>2. CASE n # e[1]
      <4>1. Offered(n)' => Offered(n)
        BY DEF Dispatch, Offered
      <4> QED
        BY <2>5, <2>6, <4>1, <3>2 DEF Coming, Past, InHand, One
    <3> QED BY <3>1, <3>2
  <2>8. UNCHANGED <<copies, forgotten, Spent(n)>>
    BY DEF Dispatch, Spent, platformVars
  <2> QED
    BY <2>1, <2>2, <2>3, <2>4, <2>5, <2>6, <2>7, <2>8
<1>4. Followed'
  BY DEF IInv, TypeOK, Followed, Resolved, Past, Dispatch, boundVars,
         replyVars, linkVars, Goto
<1>5. MissedHasCause'
  BY DEF IInv, TypeOK, MissedHasCause, OnItsWay, Dispatch, boundVars,
         replyVars, linkVars, Goto
<1>6. Replied'
  BY DEF IInv, TypeOK, Replied, InHand, Past, Offered, Shape, Dispatch,
         boundVars, replyVars, linkVars, Goto
<1>7. TypingHasCause'
  BY DEF IInv, TypeOK, TypingHasCause, Dispatch, boundVars, replyVars,
         linkVars, Goto
<1> QED BY <1>1, <1>2, <1>3, <1>4, <1>5, <1>6, <1>7 DEF IInv

\* From the inbox into the hand.
LEMMA TakeNextKeeps ==
  ASSUME IInv, NEW m \in Msgs, TakeNext(m)
  PROVE  IInv'
<1>1. TypeOK'
  BY DEF IInv, TypeOK, TakeNext, boundVars, replyVars, platformVars, Goto,
         HandlerFree
<1>2. Shape'
  BY DEF IInv, TypeOK, Shape, TakeNext, boundVars, replyVars, platformVars,
         Goto, HandlerFree
<1>3. Counted'
  <2> SUFFICES ASSUME NEW n \in Msgs
               PROVE  copies'[n] + Coming(n)' <= forgotten'[n] + Spent(n)'
    BY DEF Counted
  <2>1. copies[n] + Coming(n) <= forgotten[n] + Spent(n)
    BY DEF IInv, Counted
  <2>2. copies[n] \in Nat /\ forgotten[n] \in Nat
    BY DEF IInv, TypeOK
  <2>3. /\ Coming(n) \in Nat /\ Coming(n)' \in Nat
        /\ Spent(n) \in {0, 1} /\ Spent(n)' \in {0, 1}
    BY DEF Coming, Spent, One
  <2>4. Coming(n)' <= Coming(n)
    BY DEF IInv, TypeOK, TakeNext, HandlerFree, Goto, platformVars, Coming,
         Past, InHand, Offered, One
  <2>5. UNCHANGED <<copies, forgotten, Spent(n)>>
    BY DEF TakeNext, Spent, platformVars
  <2> QED
    BY <2>1, <2>2, <2>3, <2>4, <2>5
<1>4. Followed'
  BY DEF IInv, TypeOK, Followed, Resolved, Past, TakeNext, boundVars,
         replyVars, platformVars, Goto, HandlerFree
<1>5. MissedHasCause'
  BY DEF IInv, TypeOK, MissedHasCause, OnItsWay, TakeNext, boundVars,
         replyVars, platformVars, Goto, HandlerFree
<1>6. Replied'
  BY DEF IInv, TypeOK, Replied, InHand, Past, Offered, Shape, TakeNext,
         boundVars, replyVars, platformVars, Goto, HandlerFree
<1>7. TypingHasCause'
  BY DEF IInv, TypeOK, TypingHasCause, TakeNext, boundVars, replyVars,
         platformVars, Goto, HandlerFree
<1> QED BY <1>1, <1>2, <1>3, <1>4, <1>5, <1>6, <1>7 DEF IInv

\* A key that is known belongs to a message that was resolved.
LEMMA DedupKeeps ==
  ASSUME IInv, NEW m \in Msgs, Dedup(m)
  PROVE  IInv'
<1>1. TypeOK'
  BY DEF IInv, TypeOK, Dedup, boundVars, replyVars, linkVars, platformVars,
         Goto
<1>2. Shape'
  BY DEF IInv, TypeOK, Shape, Dedup, boundVars, replyVars, linkVars,
         platformVars, Goto
<1>3. Counted'
  BY DEF IInv, TypeOK, Counted, Spent, Coming, Offered, One, InHand, Past,
         Dedup, boundVars, replyVars, linkVars, platformVars, Goto
<1>4. Followed'
  BY DEF IInv, TypeOK, Followed, Resolved, Past, Dedup, boundVars, replyVars,
         linkVars, platformVars, Goto
<1>5. MissedHasCause'
  <2>1. m \in recent => Resolved(m)
    BY DEF IInv, Followed, Dedup, Past
  <2>2. \A n \in Msgs : n # m => (OnItsWay(n)' <=> OnItsWay(n))
    BY DEF IInv, TypeOK, Dedup, Goto, OnItsWay, platformVars, linkVars
  <2>3. m \notin recent => OnItsWay(m)'
    BY DEF IInv, TypeOK, Dedup, Goto, OnItsWay
  <2> QED
    BY <2>1, <2>2, <2>3 DEF IInv, MissedHasCause, Resolved, Dedup, platformVars
<1>6. Replied'
  BY DEF IInv, TypeOK, Replied, InHand, Past, Offered, Dedup, boundVars,
         replyVars, linkVars, platformVars, Goto
<1>7. TypingHasCause'
  BY DEF IInv, TypeOK, TypingHasCause, Dedup, boundVars, replyVars, linkVars,
         platformVars, Goto
<1> QED BY <1>1, <1>2, <1>3, <1>4, <1>5, <1>6, <1>7 DEF IInv

\* A download leaves the message in hand.
LEMMA DownloadFirstKeeps ==
  ASSUME IInv, NEW m \in Msgs, DownloadFirst(m)
  PROVE  IInv'
<1>1. TypeOK'
  BY DEF IInv, TypeOK, DownloadFirst, boundVars, replyVars, linkVars,
         platformVars, Goto
<1>2. Shape'
  BY DEF IInv, TypeOK, Shape, DownloadFirst, boundVars, replyVars, linkVars,
         platformVars, Goto
<1>3. Counted'
  <2> SUFFICES ASSUME NEW n \in Msgs
               PROVE  copies'[n] + Coming(n)' <= forgotten'[n] + Spent(n)'
    BY DEF Counted
  <2>1. copies[n] + Coming(n) <= forgotten[n] + Spent(n)
    BY DEF IInv, Counted
  <2>2. copies[n] \in Nat /\ forgotten[n] \in Nat
    BY DEF IInv, TypeOK
  <2>3. /\ Coming(n) \in Nat /\ Coming(n)' \in Nat
        /\ Spent(n) \in {0, 1} /\ Spent(n)' \in {0, 1}
    BY DEF Coming, Spent, One
  <2>4. Coming(n)' <= Coming(n)
    BY DEF IInv, TypeOK, DownloadFirst, Goto, platformVars, linkVars, Coming,
         Past, InHand, Offered, One
  <2>5. UNCHANGED <<copies, forgotten, Spent(n)>>
    BY DEF DownloadFirst, Spent, platformVars
  <2> QED
    BY <2>1, <2>2, <2>3, <2>4, <2>5
<1>4. Followed'
  BY DEF IInv, TypeOK, Followed, Resolved, Past, DownloadFirst, boundVars,
         replyVars, linkVars, platformVars, Goto
<1>5. MissedHasCause'
  BY DEF IInv, TypeOK, MissedHasCause, OnItsWay, DownloadFirst, boundVars,
         replyVars, linkVars, platformVars, Goto
<1>6. Replied'
  BY DEF IInv, TypeOK, Replied, InHand, Past, Offered, DownloadFirst,
         boundVars, replyVars, linkVars, platformVars, Goto
<1>7. TypingHasCause'
  BY DEF IInv, TypeOK, TypingHasCause, DownloadFirst, boundVars, replyVars,
         linkVars, platformVars, Goto
<1> QED BY <1>1, <1>2, <1>3, <1>4, <1>5, <1>6, <1>7 DEF IInv

\* The gate lets go only of messages that are not allowed.
LEMMA GateKeeps ==
  ASSUME IInv, NEW m \in Msgs, Gate(m)
  PROVE  IInv'
<1>1. TypeOK'
  BY DEF IInv, TypeOK, Gate, boundVars, replyVars, linkVars, platformVars,
         Goto
<1>2. Shape'
  BY DEF IInv, TypeOK, Shape, Gate, boundVars, replyVars, linkVars,
         platformVars, Goto
<1>3. Counted'
  <2> SUFFICES ASSUME NEW n \in Msgs
               PROVE  copies'[n] + Coming(n)' <= forgotten'[n] + Spent(n)'
    BY DEF Counted
  <2>1. copies[n] + Coming(n) <= forgotten[n] + Spent(n)
    BY DEF IInv, Counted
  <2>2. copies[n] \in Nat /\ forgotten[n] \in Nat
    BY DEF IInv, TypeOK
  <2>3. /\ Coming(n) \in Nat /\ Coming(n)' \in Nat
        /\ Spent(n) \in {0, 1} /\ Spent(n)' \in {0, 1}
    BY DEF Coming, Spent, One
  <2>4. Coming(n)' <= Coming(n)
    BY DEF IInv, TypeOK, Gate, Goto, platformVars, linkVars, Coming, Past,
         InHand, Offered, One
  <2>5. UNCHANGED <<copies, forgotten, Spent(n)>>
    BY DEF Gate, Spent, platformVars
  <2> QED
    BY <2>1, <2>2, <2>3, <2>4, <2>5
<1>4. Followed'
  BY DEF IInv, TypeOK, Followed, Resolved, Past, Gate, boundVars, replyVars,
         linkVars, platformVars, Goto
<1>5. MissedHasCause'
  BY DEF IInv, TypeOK, MissedHasCause, OnItsWay, Gate, boundVars, replyVars,
         linkVars, platformVars, Goto
<1>6. Replied'
  BY DEF IInv, TypeOK, Replied, InHand, Past, Offered, Gate, boundVars,
         replyVars, linkVars, platformVars, Goto
<1>7. TypingHasCause'
  BY DEF IInv, TypeOK, TypingHasCause, Gate, boundVars, replyVars, linkVars,
         platformVars, Goto
<1> QED BY <1>1, <1>2, <1>3, <1>4, <1>5, <1>6, <1>7 DEF IInv

\* A download leaves the message in hand.
LEMMA DownloadKeeps ==
  ASSUME IInv, NEW m \in Msgs, Download(m)
  PROVE  IInv'
<1>1. TypeOK'
  BY DEF IInv, TypeOK, Download, boundVars, replyVars, linkVars, platformVars,
         Goto
<1>2. Shape'
  BY DEF IInv, TypeOK, Shape, Download, boundVars, replyVars, linkVars,
         platformVars, Goto
<1>3. Counted'
  <2> SUFFICES ASSUME NEW n \in Msgs
               PROVE  copies'[n] + Coming(n)' <= forgotten'[n] + Spent(n)'
    BY DEF Counted
  <2>1. copies[n] + Coming(n) <= forgotten[n] + Spent(n)
    BY DEF IInv, Counted
  <2>2. copies[n] \in Nat /\ forgotten[n] \in Nat
    BY DEF IInv, TypeOK
  <2>3. /\ Coming(n) \in Nat /\ Coming(n)' \in Nat
        /\ Spent(n) \in {0, 1} /\ Spent(n)' \in {0, 1}
    BY DEF Coming, Spent, One
  <2>4. Coming(n)' <= Coming(n)
    BY DEF IInv, TypeOK, Download, Goto, platformVars, linkVars, Coming, Past,
         InHand, Offered, One
  <2>5. UNCHANGED <<copies, forgotten, Spent(n)>>
    BY DEF Download, Spent, platformVars
  <2> QED
    BY <2>1, <2>2, <2>3, <2>4, <2>5
<1>4. Followed'
  BY DEF IInv, TypeOK, Followed, Resolved, Past, Download, boundVars,
         replyVars, linkVars, platformVars, Goto
<1>5. MissedHasCause'
  BY DEF IInv, TypeOK, MissedHasCause, OnItsWay, Download, boundVars,
         replyVars, linkVars, platformVars, Goto
<1>6. Replied'
  BY DEF IInv, TypeOK, Replied, InHand, Past, Offered, Download, boundVars,
         replyVars, linkVars, platformVars, Goto
<1>7. TypingHasCause'
  BY DEF IInv, TypeOK, TypingHasCause, Download, boundVars, replyVars,
         linkVars, platformVars, Goto
<1> QED BY <1>1, <1>2, <1>3, <1>4, <1>5, <1>6, <1>7 DEF IInv

\* A message that is written is no longer coming.
LEMMA EnqueueKeeps ==
  ASSUME IInv, NEW m \in Msgs, Enqueue(m)
  PROVE  IInv'
<1>1. TypeOK'
  <2>1. step' \in [Msgs -> Steps]
    BY DEF IInv, TypeOK, Enqueue, Goto
  <2>2. copies' \in [Msgs -> Nat]
    BY DEF IInv, TypeOK, Enqueue
  <2> QED
    BY <2>1, <2>2 DEF IInv, TypeOK, Enqueue, platformVars, linkVars,
       replyVars, boundVars
<1>2. Shape'
  BY DEF IInv, TypeOK, Shape, Enqueue, boundVars, replyVars, linkVars,
         platformVars, Goto
<1>3. Counted'
  <2> SUFFICES ASSUME NEW n \in Msgs
               PROVE  copies'[n] + Coming(n)' <= forgotten'[n] + Spent(n)'
    BY DEF Counted
  <2>1. copies[n] + Coming(n) <= forgotten[n] + Spent(n)
    BY DEF IInv, Counted
  <2>2. copies[n] \in Nat /\ forgotten[n] \in Nat
    BY DEF IInv, TypeOK
  <2>3. /\ Coming(n) \in Nat /\ Coming(n)' \in Nat
        /\ Spent(n) \in {0, 1} /\ Spent(n)' \in {0, 1}
    BY DEF Coming, Spent, One
  <2>4. CASE n = m
    BY <2>1, <2>2, <2>3, <2>4 DEF IInv, TypeOK, Enqueue, Goto, Spent,
       platformVars, linkVars, Coming,
         Past, InHand, Offered, One
  <2>5. CASE n # m
    BY <2>1, <2>2, <2>3, <2>5 DEF IInv, TypeOK, Enqueue, Goto, Spent,
       platformVars, linkVars, Coming,
         Past, InHand, Offered, One
  <2> QED
    BY <2>1, <2>2, <2>3, <2>4, <2>5
<1>4. Followed'
  BY DEF IInv, TypeOK, Followed, Resolved, Past, Enqueue, boundVars,
         replyVars, linkVars, platformVars, Goto
<1>5. MissedHasCause'
  BY DEF IInv, TypeOK, MissedHasCause, OnItsWay, Enqueue, boundVars,
         replyVars, linkVars, platformVars, Goto
<1>6. Replied'
  <2>1. \A n \in Msgs : /\ copies'[n] >= copies[n]
                        /\ n # m => copies'[n] = copies[n]
    BY DEF IInv, TypeOK, Enqueue
  <2>2. step' = [step EXCEPT ![m] =
                   IF mode = "discord" THEN "enqueued" ELSE Idle]
    BY DEF Enqueue, Goto
  <2>3. /\ \A n \in answered : copies'[n] > 0
        /\ UNCHANGED <<answered, mute, pending, mode>>
    BY <2>1 DEF IInv, TypeOK, Replied, Enqueue, replyVars, platformVars
  <2>4. mode = "discord" => ~Offered(m) /\ m \notin answered
    BY DEF IInv, TypeOK, Replied, Enqueue, InHand, Past
  <2>5. \A n \in Msgs : step'[n] = "enqueued" /\ n \in answered => n \in mute
    BY <2>2, <2>4 DEF IInv, TypeOK, Replied
  <2>6. ASSUME mode = "discord", NEW n \in Msgs
        PROVE  /\ Offered(n) => step'[n] = Idle /\ copies'[n] = 0
               /\ step'[n] \in {"received", "new", "admitted", "ready"}
                     => copies'[n] = 0
    BY <2>1, <2>2, <2>4, <2>6 DEF IInv, TypeOK, Replied, InHand, Past
  <2> QED
    BY <2>3, <2>5, <2>6 DEF Replied, Offered, InHand, Past
<1>7. TypingHasCause'
  BY DEF IInv, TypeOK, TypingHasCause, Enqueue, boundVars, replyVars,
         linkVars, platformVars, Goto
<1> QED BY <1>1, <1>2, <1>3, <1>4, <1>5, <1>6, <1>7 DEF IInv

\* A typing task is started for a message that was written.
LEMMA StartTypingKeeps ==
  ASSUME IInv, NEW m \in Msgs, StartTyping(m)
  PROVE  IInv'
<1>1. TypeOK'
  BY DEF IInv, TypeOK, StartTyping, boundVars, linkVars, platformVars, Goto
<1>2. Shape'
  BY DEF IInv, TypeOK, Shape, StartTyping, boundVars, linkVars, platformVars,
         Goto
<1>3. Counted'
  <2> SUFFICES ASSUME NEW n \in Msgs
               PROVE  copies'[n] + Coming(n)' <= forgotten'[n] + Spent(n)'
    BY DEF Counted
  <2>1. copies[n] + Coming(n) <= forgotten[n] + Spent(n)
    BY DEF IInv, Counted
  <2>2. copies[n] \in Nat /\ forgotten[n] \in Nat
    BY DEF IInv, TypeOK
  <2>3. /\ Coming(n) \in Nat /\ Coming(n)' \in Nat
        /\ Spent(n) \in {0, 1} /\ Spent(n)' \in {0, 1}
    BY DEF Coming, Spent, One
  <2>4. Coming(n)' <= Coming(n)
    BY DEF IInv, TypeOK, StartTyping, Goto, platformVars, linkVars, Coming,
         Past, InHand, Offered, One
  <2>5. UNCHANGED <<copies, forgotten, Spent(n)>>
    BY DEF StartTyping, Spent, platformVars
  <2> QED
    BY <2>1, <2>2, <2>3, <2>4, <2>5
<1>4. Followed'
  BY DEF IInv, TypeOK, Followed, Resolved, Past, StartTyping, boundVars,
         linkVars, platformVars, Goto
<1>5. MissedHasCause'
  BY DEF IInv, TypeOK, MissedHasCause, OnItsWay, Shape, Followed, Resolved,
         Past, StartTyping, boundVars, linkVars, platformVars, Goto
<1>6. Replied'
  BY DEF IInv, TypeOK, Replied, InHand, Past, Offered, StartTyping, boundVars,
         linkVars, platformVars, Goto
<1>7. TypingHasCause'
  BY DEF IInv, TypeOK, TypingHasCause, Replied, InHand, Past, Offered,
         Followed, Resolved, StartTyping, boundVars, linkVars, platformVars,
         Goto
<1> QED BY <1>1, <1>2, <1>3, <1>4, <1>5, <1>6, <1>7 DEF IInv

\* A message whose handler failed is excused.
LEMMA HandlerFailsKeeps ==
  ASSUME IInv, NEW m \in Msgs, HandlerFails(m)
  PROVE  IInv'
<1>1. TypeOK'
  <2>1. step' \in [Msgs -> Steps]
    BY DEF IInv, TypeOK, HandlerFails, Goto
  <2>2. faults' \in 0 .. MaxFaults /\ crashes' \in 0 .. MaxCrashes
    BY DEF IInv, TypeOK, HandlerFails, Fault
  <2>3. excused' \in SUBSET Msgs
    BY DEF IInv, TypeOK, HandlerFails
  <2> QED
    BY <2>1, <2>2, <2>3 DEF IInv, TypeOK, HandlerFails, platformVars,
       linkVars, replyVars
<1>2. Shape'
  BY DEF IInv, TypeOK, Shape, HandlerFails, replyVars, linkVars, platformVars,
         Goto, Fault
<1>3. Counted'
  <2> SUFFICES ASSUME NEW n \in Msgs
               PROVE  copies'[n] + Coming(n)' <= forgotten'[n] + Spent(n)'
    BY DEF Counted
  <2>1. copies[n] + Coming(n) <= forgotten[n] + Spent(n)
    BY DEF IInv, Counted
  <2>2. copies[n] \in Nat /\ forgotten[n] \in Nat
    BY DEF IInv, TypeOK
  <2>3. /\ Coming(n) \in Nat /\ Coming(n)' \in Nat
        /\ Spent(n) \in {0, 1} /\ Spent(n)' \in {0, 1}
    BY DEF Coming, Spent, One
  <2>4. Coming(n)' <= Coming(n)
    BY DEF IInv, TypeOK, HandlerFails, Goto, platformVars, linkVars, Coming,
         Past, InHand, Offered, One
  <2>5. UNCHANGED <<copies, forgotten, Spent(n)>>
    BY DEF HandlerFails, Spent, platformVars
  <2> QED
    BY <2>1, <2>2, <2>3, <2>4, <2>5
<1>4. Followed'
  BY DEF IInv, TypeOK, Followed, Resolved, Past, HandlerFails, replyVars,
         linkVars, platformVars, Goto, Fault
<1>5. MissedHasCause'
  BY DEF IInv, TypeOK, MissedHasCause, OnItsWay, HandlerFails, replyVars,
         linkVars, platformVars, Goto, Fault
<1>6. Replied'
  BY DEF IInv, TypeOK, Replied, InHand, Past, Offered, HandlerFails,
         replyVars, linkVars, platformVars, Goto, Fault
<1>7. TypingHasCause'
  BY DEF IInv, TypeOK, TypingHasCause, HandlerFails, replyVars, linkVars,
         platformVars, Goto, Fault
<1> QED BY <1>1, <1>2, <1>3, <1>4, <1>5, <1>6, <1>7 DEF IInv

\* A key that is forgotten allows one more file.
LEMMA WindowPassesKeeps ==
  ASSUME IInv, NEW m \in Msgs, WindowPasses(m)
  PROVE  IInv'
<1>1. TypeOK'
  <2>1. forgotten' \in [Msgs -> Nat] /\ recent' \in SUBSET Msgs
    BY SMTT(30) DEF IInv, TypeOK, WindowPasses
  <2> QED
    BY <2>1 DEF IInv, TypeOK, WindowPasses, platformVars, linkVars, replyVars,
         boundVars
<1>2. Shape'
  BY DEF IInv, TypeOK, Shape, WindowPasses, boundVars, replyVars, linkVars,
         platformVars
<1>3. Counted'
  BY DEF IInv, TypeOK, Counted, Spent, Coming, Offered, One, InHand, Past,
         WindowPasses, boundVars, replyVars, linkVars, platformVars
<1>4. Followed'
  BY DEF IInv, TypeOK, Followed, Resolved, Past, WindowPasses, boundVars,
         replyVars, linkVars, platformVars
<1>5. MissedHasCause'
  BY DEF IInv, TypeOK, MissedHasCause, OnItsWay, WindowPasses, boundVars,
         replyVars, linkVars, platformVars
<1>6. Replied'
  BY DEF IInv, TypeOK, Replied, InHand, Past, Offered, WindowPasses,
         boundVars, replyVars, linkVars, platformVars
<1>7. TypingHasCause'
  BY DEF IInv, TypeOK, TypingHasCause, WindowPasses, boundVars, replyVars,
         linkVars, platformVars
<1> QED BY <1>1, <1>2, <1>3, <1>4, <1>5, <1>6, <1>7 DEF IInv

\* A reply ends the typing, or is remembered as early.
LEMMA ReplyKeeps ==
  ASSUME IInv, NEW m \in Msgs, Reply(m)
  PROVE  IInv'
<1>1. TypeOK'
  BY DEF IInv, TypeOK, Reply, boundVars, linkVars, platformVars, Answerable
<1>2. Shape'
  BY DEF IInv, TypeOK, Shape, Reply, boundVars, linkVars, platformVars,
         Answerable
<1>3. Counted'
  BY DEF IInv, TypeOK, Counted, Spent, Coming, Offered, One, InHand, Past,
         Reply, boundVars, linkVars, platformVars, Answerable
<1>4. Followed'
  BY DEF IInv, TypeOK, Followed, Resolved, Past, Reply, boundVars, linkVars,
         platformVars, Answerable
<1>5. MissedHasCause'
  BY DEF IInv, TypeOK, MissedHasCause, OnItsWay, Reply, boundVars, linkVars,
         platformVars, Answerable
<1>6. Replied'
  BY DEF IInv, TypeOK, Replied, InHand, Past, Offered, Reply, boundVars,
         linkVars, platformVars, Answerable
<1>7. TypingHasCause'
  BY DEF IInv, TypeOK, TypingHasCause, Reply, boundVars, linkVars,
         platformVars, Answerable
<1> QED BY <1>1, <1>2, <1>3, <1>4, <1>5, <1>6, <1>7 DEF IInv

\* A message without a reply is remembered.
LEMMA NoReplyKeeps ==
  ASSUME IInv, NEW m \in Msgs, NoReply(m)
  PROVE  IInv'
<1>1. TypeOK'
  <2>1. answered' \in SUBSET Msgs /\ mute' \in SUBSET Msgs
    BY DEF IInv, TypeOK, NoReply
  <2>2. faults' \in 0 .. MaxFaults /\ crashes' \in 0 .. MaxCrashes
    BY DEF IInv, TypeOK, NoReply, Fault
  <2> QED
    BY <2>1, <2>2 DEF IInv, TypeOK, NoReply, linkVars, platformVars
<1>2. Shape'
  BY DEF IInv, TypeOK, Shape, NoReply, linkVars, platformVars, Fault,
         Answerable
<1>3. Counted'
  BY DEF IInv, TypeOK, Counted, Spent, Coming, Offered, One, InHand, Past,
         NoReply, linkVars, platformVars, Fault, Answerable
<1>4. Followed'
  BY DEF IInv, TypeOK, Followed, Resolved, Past, NoReply, linkVars,
         platformVars, Fault, Answerable
<1>5. MissedHasCause'
  BY DEF IInv, TypeOK, MissedHasCause, OnItsWay, NoReply, linkVars,
         platformVars, Fault, Answerable
<1>6. Replied'
  BY DEF IInv, TypeOK, Replied, InHand, Past, Offered, NoReply, linkVars,
         platformVars, Fault, Answerable
<1>7. TypingHasCause'
  BY DEF IInv, TypeOK, TypingHasCause, NoReply, linkVars, platformVars, Fault,
         Answerable
<1> QED BY <1>1, <1>2, <1>3, <1>4, <1>5, <1>6, <1>7 DEF IInv

-----------------------------------------------------------------------------
\* The invariant holds at the start ...
LEMMA InitHolds == Init => IInv
<1> SUFFICES ASSUME Init
             PROVE  IInv
  OBVIOUS
<1> USE DEF Init
<1>1. TypeOK
  <2>1. step \in [Msgs -> Steps] /\ copies \in [Msgs -> Nat]
           /\ forgotten \in [Msgs -> Nat]
    OBVIOUS
  <2>2. posted \in 0 .. N /\ faults \in 0 .. MaxFaults
           /\ crashes \in 0 .. MaxCrashes
    OBVIOUS
  <2> QED BY <2>1, <2>2 DEF TypeOK
<1>2. Shape /\ Counted
  BY DEF Shape, Counted, Coming, Spent, Past, InHand, Offered, One
<1>3. Followed /\ MissedHasCause
  BY DEF Followed, Past, MissedHasCause
<1>4. Replied /\ TypingHasCause
  BY DEF Replied, Offered, InHand, Past, TypingHasCause
<1> QED BY <1>1, <1>2, <1>3, <1>4 DEF IInv

\* ... and every step keeps it.
LEMMA NextKeeps == IInv /\ [Next]_vars => IInv'
<1> SUFFICES ASSUME IInv, [Next]_vars
             PROVE  IInv'
  OBVIOUS
<1>1. CASE UNCHANGED vars
  <2> USE <1>1 DEF vars, platformVars, linkVars, replyVars, boundVars, IInv
  <2>1. TypeOK' /\ Shape'
    BY DEF TypeOK, Shape
  <2>2. Counted'
    BY DEF Counted, Coming, Spent, Past, InHand, Offered, One
  <2>3. Followed' /\ MissedHasCause'
    BY DEF Followed, Resolved, Past, MissedHasCause, OnItsWay
  <2>4. Replied' /\ TypingHasCause'
    BY DEF Replied, Offered, InHand, Past, TypingHasCause
  <2> QED BY <2>1, <2>2, <2>3, <2>4
<1>2. CASE \E e \in pending : PlatformGivesUp(e) \/ ReceiveEnvelope(e)
                             \/ LoseAck(e) \/ Dispatch(e)
  BY <1>2, PlatformGivesUpKeeps, ReceiveEnvelopeKeeps, LoseAckKeeps,
     DispatchKeeps
<1>3. CASE \E m \in Msgs : TakeNext(m) \/ Handle(m) \/ HandlerFails(m)
                          \/ WindowPasses(m) \/ Reply(m) \/ NoReply(m)
  BY <1>3, TakeNextKeeps, DedupKeeps, DownloadFirstKeeps, GateKeeps,
     DownloadKeeps, EnqueueKeeps, StartTypingKeeps, HandlerFailsKeeps,
     WindowPassesKeeps, ReplyKeeps, NoReplyKeeps DEF Handle
<1>4. CASE Connect \/ SocketCloses \/ SessionBreaks
  BY <1>4, OpenSocketKeeps, DiscoverChannelsKeeps, StartReplKeeps,
     OpenSessionKeeps, SocketClosesKeeps, SessionBreaksKeeps DEF Connect
<1>5. CASE Post \/ GetUpdates \/ FirstFetch \/ FetchHistory \/ Crash
  BY <1>5, PostKeeps, GetUpdatesKeeps, FirstFetchKeeps, FetchHistoryKeeps,
     CrashKeeps
<1> QED BY <1>1, <1>2, <1>3, <1>4, <1>5 DEF Next

\* Every variable keeps its type.
THEOREM TypeCorrect == Spec => []TypeOK
<1>1. IInv => TypeOK
  BY DEF IInv
<1> QED BY <1>1, InitHolds, NextKeeps, PTL DEF Spec

\* For any number of messages and faults, and in every mode: a message of an
\* allowed sender that is neither on its way nor written to queue/incoming was
\* given up for one of the listed reasons.
THEOREM NothingIsMissed == Spec => []MissedHasCause
<1>1. IInv => MissedHasCause
  BY DEF IInv
<1> QED BY <1>1, InitHolds, NextKeeps, PTL DEF Spec

\* A message is written once, and once more each time it was forgotten.
THEOREM NothingIsDoubled == Spec => []CopiesHaveCause
<1>1. IInv => CopiesHaveCause
  <2> SUFFICES ASSUME IInv, NEW m \in Msgs
               PROVE  copies[m] <= 1 + forgotten[m]
    BY DEF CopiesHaveCause
  <2>1. copies[m] + Coming(m) <= forgotten[m] + Spent(m)
    BY DEF IInv, Counted
  <2>2. copies[m] \in Nat /\ forgotten[m] \in Nat
    BY DEF IInv, TypeOK
  <2>3. Coming(m) \in Nat /\ Spent(m) \in {0, 1}
    BY DEF Coming, Spent, One
  <2> QED BY <2>1, <2>2, <2>3
<1> QED BY <1>1, InitHolds, NextKeeps, PTL DEF Spec

\* The typing indicator runs for a message in work, or for one whose reply
\* came too early or never.
THEOREM TypingIsExplained == Spec => []TypingHasCause
<1>1. IInv => TypingHasCause
  BY DEF IInv
<1> QED BY <1>1, InitHolds, NextKeeps, PTL DEF Spec

=============================================================================
