-------------------------- MODULE OutgoingDelivery --------------------------
(***************************************************************************)
(* The outgoing queue of one channel: producers write a file per message   *)
(* into queue/outgoing (enqueue_outgoing_message), and the connector's     *)
(* outgoing_loop (telegram, discord and slack crates) lists the files,     *)
(* sends them part by part and removes those it has sent.                  *)
(*                                                                         *)
(* A message is the number that its file name begins with: the timestamp,  *)
(* which orders the files of a listing.  A part is what the platform       *)
(* accepts in one call: a text, a chunk of a long text, an attachment.     *)
(* (Discord takes the attachments with the first chunk; that a failure may *)
(* fall between them here only adds behaviours.)                           *)
(***************************************************************************)
EXTENDS Integers

CONSTANTS
  Messages,        \* names of the files
  PartsOf,         \* into how many parts a message is sent
  Attached,        \* parts that telegram or Discord skips if their file is gone
  Refused,         \* messages whose last part the platform always refuses
  Recognized,      \* those whose error is on the connector's list of permanent ones
  DropsNoAccess,   \* are the errors of a lost access on that list?
  MaxFaults,       \* bound: transient failures, of the platform or the disk
  MaxCrashes,      \* bound: how often the daemon may stop
  MaxCount         \* bound: where the histories stop counting

\* Part p of message m is <<m, p>>.
Parts == UNION {{m} \X (1 .. PartsOf[m]) : m \in Messages}

ASSUME DeliveryAssumption ==
  /\ Messages \in SUBSET Nat
  /\ PartsOf \in [Messages -> Nat \ {0}]
  /\ Attached \subseteq Parts
  /\ DropsNoAccess \in BOOLEAN
  /\ Recognized \subseteq Refused /\ Refused \subseteq Messages
  /\ MaxFaults \in Nat /\ MaxCrashes \in Nat /\ MaxCount \in Nat \ {0}

VARIABLES
  file,     \* state of a message's file
  phase,    \* what the loop is doing
  seen,     \* files that were whole when the listing began
  unread,   \* those of them that the listing failed to read
  batch,    \* messages of this round still to be sent, in order of name
  part,     \* parts of the first of them that were sent
  missing,  \* attached files that are gone
  access,   \* may the bot write to the channel?
  faults,   \* transient failures so far
  crashes,  \* how often the daemon has stopped
  copies,   \* history: how often a part has reached the platform
  aborted   \* history: how often a message was sent without being removed

loopVars == <<phase, seen, unread, batch, part>>
worldVars == <<missing, access>>
vars == <<file, loopVars, worldVars, faults, crashes, copies, aborted>>

Count(n) == IF n < MaxCount THEN n + 1 ELSE n

TypeOK ==
  /\ file \in [Messages -> {"absent", "torn", "orphan", "whole", "removed"}]
  /\ phase \in {"idle", "listing", "sending", "acking"}
  /\ seen \subseteq Messages /\ unread \subseteq seen
  /\ missing \subseteq Attached /\ access \in BOOLEAN
  /\ batch \subseteq Messages
  /\ part \in Nat
  /\ faults \in 0 .. MaxFaults
  /\ crashes \in 0 .. MaxCrashes
  /\ copies \in [Parts -> 0 .. MaxCount]
  /\ aborted \in [Messages -> 0 .. MaxCount]

Init ==
  /\ file = [m \in Messages |-> "absent"]
  /\ phase = "idle" /\ seen = {} /\ unread = {} /\ batch = {} /\ part = 0
  /\ missing = {} /\ access = TRUE
  /\ faults = 0 /\ crashes = 0
  /\ copies = [x \in Parts |-> 0]
  /\ aborted = [m \in Messages |-> 0]

In(states) == {m \in Messages : file[m] \in states}

-----------------------------------------------------------------------------
(* enqueue_outgoing_message.                                               *)

\* The name is the time of the call.
EnqueueOpen(m) ==
  /\ file[m] = "absent"
  /\ \A earlier \in Messages : earlier < m => file[earlier] # "absent"
  /\ file' = [file EXCEPT ![m] = "torn"]
  /\ UNCHANGED <<loopVars, worldVars, faults, crashes, copies, aborted>>

EnqueueClose(m) ==
  /\ file[m] = "torn"
  /\ file' = [file EXCEPT ![m] = "whole"]
  /\ UNCHANGED <<loopVars, worldVars, faults, crashes, copies, aborted>>

-----------------------------------------------------------------------------
(* outgoing_loop.                                                          *)

\* list_outgoing_messages reads one file after the other.  A file that is
\* whole at the beginning is in the list, unless it cannot be read; one that
\* becomes whole meanwhile may be; one that does not parse is skipped.
BeginListing ==
  /\ phase = "idle"
  /\ phase' = "listing"
  /\ seen' = In({"whole"}) /\ unread' = {}
  /\ UNCHANGED <<file, batch, part, worldVars, faults, crashes, copies, aborted>>

\* If the directory cannot be read, no file is.
EndListing ==
  /\ phase = "listing"
  /\ unread' \in SUBSET seen
  /\ IF unread' = {} THEN UNCHANGED faults
                     ELSE faults < MaxFaults /\ faults' = faults + 1
  /\ \E late \in SUBSET (In({"whole"}) \ seen) : batch' = (seen \ unread') \cup late
  /\ phase' = IF batch' = {} THEN "idle" ELSE "sending"
  /\ UNCHANGED <<file, seen, part, worldVars, crashes, copies, aborted>>

\* Mutant: the newest message comes first.
NewestFirst(m) == m \in batch /\ \A n \in batch : n <= m

\* The listing is sorted by path: m is the message the for loop is at.
Current(m) == m \in batch /\ \A n \in batch : m <= n

\* The for loop goes on to the next message of the batch, or sleeps.
NextMessage(m) ==
  /\ batch' = batch \ {m}
  /\ part' = 0
  /\ phase' = IF batch' = {} THEN "idle" ELSE "sending"
  /\ UNCHANGED <<seen, unread>>

\* Mutant: an error ends the round.
NextRound(m) ==
  /\ batch' = {}
  /\ part' = 0
  /\ phase' = "idle"
  /\ UNCHANGED <<seen, unread>>

\* After an error the message is left for the next round.
AfterError(m) == NextMessage(m)

\* The platform refuses every part in a channel that the bot has no access to.
Refuses(m, p) == ~access \/ (m \in Refused /\ p = PartsOf[m])

\* is_permanent_send_error: is the text of the error on the list?  telegram has
\* none.
Known(m) == IF access THEN m \in Recognized ELSE DropsNoAccess

Sending(m) == phase = "sending" /\ Current(m)
Acking(m) == phase = "acking" /\ Current(m)

Received(m, p) == copies' = [copies EXCEPT ![<<m, p>>] = Count(@)]

\* The parts that are an attachment whose file is not there are skipped.
Skipped(m, p) == <<m, p>> \in missing

Sent(m, p) ==
  /\ part' = p
  /\ phase' = IF p = PartsOf[m] THEN "acking" ELSE "sending"

\* send_outgoing sends the parts of a message in order.
SendPart(m) ==
  LET p == part + 1
  IN  /\ Sending(m)
      /\ ~Skipped(m, p) /\ ~Refuses(m, p)
      /\ Received(m, p)
      /\ Sent(m, p)
      /\ UNCHANGED <<file, seen, unread, batch, worldVars, faults, crashes, aborted>>

\* A warning, and the next part.
SkipPart(m) ==
  LET p == part + 1
  IN  /\ Sending(m)
      /\ Skipped(m, p)
      /\ Sent(m, p)
      /\ UNCHANGED <<file, seen, unread, batch, worldVars, faults, crashes, copies,
                     aborted>>

Unlink(m) == file' = [file EXCEPT ![m] = "removed"]
Abort(m) == aborted' = [aborted EXCEPT ![m] = Count(@)]

\* The call fails before or after the platform has taken the part, or the file
\* of a refused message cannot be removed: the message will be sent again from
\* its first part.
SendFails(m) ==
  /\ Sending(m) /\ ~Skipped(m, part + 1) /\ faults < MaxFaults
  /\ faults' = faults + 1
  /\ \/ UNCHANGED copies
     \/ ~Refuses(m, part + 1) /\ Received(m, part + 1)
  /\ Abort(m)
  /\ AfterError(m)
  /\ UNCHANGED <<file, worldVars, crashes>>

\* Mutant: every error counts as permanent.
DropAnyFailure(m) ==
  /\ Sending(m) /\ ~Skipped(m, part + 1)
  /\ Refuses(m, part + 1) \/ faults < MaxFaults
  /\ faults' = IF faults < MaxFaults THEN faults + 1 ELSE faults
  /\ Unlink(m)
  /\ AfterError(m)
  /\ UNCHANGED <<worldVars, crashes, copies, aborted>>

\* The platform refuses, and the error is taken to be permanent: one refusal is
\* enough, although an access that is missing may be given again.
DropRefused(m) ==
  /\ Sending(m) /\ ~Skipped(m, part + 1) /\ Refuses(m, part + 1)
  /\ Known(m)
  /\ Unlink(m)
  /\ NextMessage(m)
  /\ UNCHANGED <<worldVars, faults, crashes, copies, aborted>>

\* telegram, or an error that is not on the list: as any other failure.
RetryRefused(m) ==
  /\ Sending(m) /\ ~Skipped(m, part + 1) /\ Refuses(m, part + 1)
  /\ ~Known(m)
  /\ Abort(m)
  /\ AfterError(m)
  /\ UNCHANGED <<file, worldVars, faults, crashes, copies>>

\* Mutant: a message that was sent stays in the queue.
ForgetAck(m) ==
  /\ Acking(m)
  /\ NextMessage(m)
  /\ UNCHANGED <<file, worldVars, faults, crashes, copies, aborted>>

\* ack_outgoing_message.
Ack(m) ==
  /\ Acking(m)
  /\ Unlink(m)
  /\ NextMessage(m)
  /\ UNCHANGED <<worldVars, faults, crashes, copies, aborted>>

AckFails(m) ==
  /\ Acking(m) /\ faults < MaxFaults
  /\ faults' = faults + 1
  /\ Abort(m)
  /\ NextMessage(m)
  /\ UNCHANGED <<file, worldVars, crashes, copies>>

\* The daemon stops.  A file that was being written is never completed and
\* skipped by every listing; the queue processor runs the message again and
\* writes its reply under a new name.
Crash ==
  /\ crashes < MaxCrashes
  /\ crashes' = crashes + 1
  /\ phase' = "idle" /\ seen' = {} /\ unread' = {} /\ batch' = {} /\ part' = 0
  /\ file' = [m \in Messages |-> IF file[m] = "torn" THEN "orphan" ELSE file[m]]
  /\ UNCHANGED <<worldVars, faults, copies, aborted>>

-----------------------------------------------------------------------------
(* Around the loop.                                                        *)

\* An agent's run, or somebody else, removes a file that is to be sent.
RemoveAttachment(x) ==
  /\ x \in Attached \ missing
  /\ missing' = missing \cup {x}
  /\ UNCHANGED <<file, loopVars, access, faults, crashes, copies, aborted>>

\* The bot is put out of the channel, or its token is revoked.
LoseAccess ==
  /\ access /\ access' = FALSE
  /\ faults < MaxFaults /\ faults' = faults + 1
  /\ UNCHANGED <<file, loopVars, missing, crashes, copies, aborted>>

RegainAccess ==
  /\ ~access /\ access' = TRUE
  /\ UNCHANGED <<file, loopVars, missing, faults, crashes, copies, aborted>>

-----------------------------------------------------------------------------

Loop ==
  \/ BeginListing
  \/ EndListing
  \/ \E m \in Messages :
       SendPart(m) \/ SkipPart(m) \/ DropRefused(m) \/ RetryRefused(m) \/ Ack(m)

Next ==
  \/ \E m \in Messages : EnqueueOpen(m) \/ EnqueueClose(m)
  \/ Loop
  \/ \E m \in Messages : SendFails(m) \/ AckFails(m)
  \/ Crash
  \/ \E x \in Attached : RemoveAttachment(x)
  \/ LoseAccess
  \/ RegainAccess

Spec == Init /\ [][Next]_vars

(* The loop sleeps between rounds and is polled; platform and disk answer. *)
FairSpec == Spec /\ WF_vars(Loop)

-----------------------------------------------------------------------------
(* Properties.                                                             *)

Whole(m) == file[m] = "whole"

\* A message leaves the queue only when every part of it has reached the platform
\* or is a file that is gone, or when the platform refuses it with an error that
\* the connector takes to be permanent: for ever, or because the bot has no access
\* to the channel at that moment.  No other failure drops a message.
RemovedHasCause ==
  [][\A m \in Messages :
       Whole(m) /\ file'[m] = "removed" =>
         \/ \A p \in 1 .. PartsOf[m] : copies[<<m, p>>] > 0 \/ <<m, p>> \in missing
         \/ m \in Recognized
         \/ ~access /\ DropsNoAccess]_vars

\* Every copy but one of a part is owed to a round that failed after sending
\* it, or to a crash: without faults nothing is delivered twice.
CopiesBounded ==
  \A m \in Messages : \A p \in 1 .. PartsOf[m] :
    copies[<<m, p>>] < MaxCount => copies[<<m, p>>] <= 1 + aborted[m] + crashes

\* A part of n reaches the platform.
Reaches(n) == \E p \in 1 .. PartsOf[n] : copies'[<<n, p>>] # copies[<<n, p>>]

\* Messages reach the platform in the order of their names, unless the earlier
\* one was not whole when the round began, could not be read then, or failed.
OvertakingHasCause ==
  [][\A m, n \in Messages :
       m < n /\ m \in seen /\ Whole(m) /\ Reaches(n) =>
         m \in unread \/ aborted[m] > 0]_vars

\* A message that the platform takes is eventually delivered, or dropped for want
\* of access, and one that it keeps refusing does not hold the others up.
EveryMessageLeaves ==
  \A m \in Messages \ Refused : Whole(m) ~> file[m] = "removed"
=============================================================================
