---------------------------- MODULE SenderAccess ----------------------------
(***************************************************************************)
(* Pairing of one sender of a channel: the record in the state store       *)
(* (sender_access, crates/store/src/lib.rs), the handlers of the sender's  *)
(* direct messages (handle_message of the telegram, discord and slack      *)
(* crates, with dm_policy = "pairing"), and the operators who approve or   *)
(* reject (Office API, CLI).  Senders do not share records, so one is      *)
(* enough.                                                                 *)
(*                                                                         *)
(* Every call of the store is one step here; that calls of two instances   *)
(* of the store may overlap is the subject of StateStore.  Handlers run    *)
(* beside each other and every call may fail, which ends the handler.      *)
(*                                                                         *)
(* Codes are numbered in the order in which they are generated.            *)
(***************************************************************************)
EXTENDS Integers, FiniteSets

CONSTANTS
  Msgs,               \* messages of the sender
  Operators,          \* requests that approve by code, Office or CLI
  MaxFailedAttempts,  \* [pairing] max_failed_attempts
  MaxCodes,           \* bound: codes that are generated
  IoFaults            \* may a store call or an enqueue fail?

ASSUME AccessAssumption ==
  /\ MaxFailedAttempts \in Nat /\ MaxCodes \in Nat
  /\ IoFaults \in BOOLEAN

NoCode == 0
Wrong == -1     \* looks like a code and was never generated
Plain == -2     \* does not look like a code
Codes == 1 .. MaxCodes

VARIABLES
  entry,      \* the SenderAccessRecord
  expired,    \* generated codes whose time is over
  generated,  \* how many codes were generated
  told,       \* codes that were sent to the sender
  step,       \* where the handler of a message stands
  text,       \* what a message says
  fresh,      \* the code a handler has generated
  desk,       \* where a request of an operator stands
  rejections, \* history: did an operator reject the sender?
  faults      \* history: did a call fail?

handlerVars == <<step, text, fresh>>
vars == <<entry, expired, generated, told, handlerVars, desk, rejections,
          faults>>

TypeOK ==
  /\ entry \in [status : {"none", "pending", "approved", "rejected"},
                code : {NoCode} \cup Codes,
                attempts : Nat,
                lock : {"none", "locked", "over"}]
  /\ expired \subseteq 1 .. generated
  /\ generated \in 0 .. MaxCodes
  /\ told \subseteq 1 .. generated
  /\ step \in [Msgs -> {"idle", "arrived", "unapproved", "issue", "notify",
                        "ended"}]
  /\ text \in [Msgs -> {Plain, Wrong} \cup Codes]
  /\ fresh \in [Msgs -> 0 .. generated]
  /\ \A m \in Msgs : step[m] = "notify" => fresh[m] # NoCode
  /\ desk \in [Operators -> {"idle", "found", "approved", "ended"}]
  /\ rejections \in BOOLEAN /\ faults \in BOOLEAN

Init ==
  /\ entry = [status |-> "none", code |-> NoCode, attempts |-> 0,
              lock |-> "none"]
  /\ expired = {} /\ generated = 0 /\ told = {}
  /\ step = [m \in Msgs |-> "idle"]
  /\ text = [m \in Msgs |-> Plain]
  /\ fresh = [m \in Msgs |-> NoCode]
  /\ desk = [o \in Operators |-> "idle"]
  /\ rejections = FALSE /\ faults = FALSE

Goto(m, next) == step' = [step EXCEPT ![m] = next]

-----------------------------------------------------------------------------
(* Time.                                                                   *)

CodeExpires ==
  /\ \E c \in (1 .. generated) \ expired : expired' = expired \cup {c}
  /\ UNCHANGED <<entry, generated, told, handlerVars, desk, rejections,
                 faults>>

LockoutPasses ==
  /\ entry.lock = "locked"
  /\ entry' = [entry EXCEPT !.lock = "over"]
  /\ UNCHANGED <<expired, generated, told, handlerVars, desk, rejections,
                 faults>>

-----------------------------------------------------------------------------
(* handle_message.                                                         *)

\* The sender writes anything, a code that was sent to him among it.
Arrive(m) ==
  /\ step[m] = "idle"
  /\ Goto(m, "arrived")
  /\ \E t \in {Plain, Wrong} \cup told : text' = [text EXCEPT ![m] = t]
  /\ UNCHANGED <<entry, expired, generated, told, fresh, desk, rejections,
                 faults>>

\* is_sender_approved and evaluate_ingress_policy: Allow enqueues the
\* message and ends the handler.
CheckAccess(m) ==
  /\ step[m] = "arrived"
  /\ Goto(m, IF entry.status = "approved" THEN "ended" ELSE "unapproved")
  /\ UNCHANGED <<entry, expired, generated, told, text, fresh, desk,
                 rejections, faults>>

\* Mutant: an existing entry is reset to pending, approved or not.
PendingAgain(e) == [e EXCEPT !.status = "pending"]

Reregistered(e) ==
  IF e.status = "approved" THEN e ELSE [e EXCEPT !.status = "pending"]

\* Only a new entry gets a code.
Register(m) ==
  /\ step[m] = "unapproved" /\ text[m] = Plain
  /\ IF entry.status = "none"
       THEN /\ entry' = [entry EXCEPT !.status = "pending"]
            /\ Goto(m, "issue")
       ELSE /\ entry' = Reregistered(entry)
            /\ Goto(m, "ended")
  /\ UNCHANGED <<expired, generated, told, text, fresh, desk, rejections,
                 faults>>

\* verify_pairing_code: a lockout that is over is reset, in the file only if
\* the call goes on to persist the entry.
Unlocked(e) ==
  IF e.lock = "over" THEN [e EXCEPT !.lock = "none", !.attempts = 0] ELSE e

\* Mutant: > for >= in the limit.
CountGenerously(e) ==
  [e EXCEPT !.attempts = @ + 1,
            !.lock = IF e.attempts + 1 > MaxFailedAttempts THEN "locked"
                     ELSE @]

CountFailure(e) ==
  [e EXCEPT !.attempts = @ + 1,
            !.lock = IF e.attempts + 1 >= MaxFailedAttempts THEN "locked"
                     ELSE @]

Verifiable(m) ==
  /\ step[m] = "unapproved" /\ text[m] # Plain
  /\ entry.status # "none" /\ entry.lock # "locked" /\ entry.code # NoCode

\* InvalidCode or LockedOut before any comparison; only a notice follows.
VerifyRefused(m) ==
  /\ step[m] = "unapproved" /\ text[m] # Plain
  /\ ~Verifiable(m)
  /\ Goto(m, "ended")
  /\ UNCHANGED <<entry, expired, generated, told, text, fresh, desk,
                 rejections, faults>>

VerifyExpired(m) ==
  /\ Verifiable(m)
  /\ entry.code \in expired
  /\ Goto(m, "issue")
  /\ UNCHANGED <<entry, expired, generated, told, text, fresh, desk,
                 rejections, faults>>

VerifyCompared(m) ==
  /\ Verifiable(m)
  /\ entry.code \notin expired
  /\ entry' = IF text[m] = entry.code
                THEN [status |-> "approved", code |-> NoCode, attempts |-> 0,
                      lock |-> "none"]
                ELSE CountFailure(Unlocked(entry))
  /\ Goto(m, "ended")
  /\ UNCHANGED <<expired, generated, told, text, fresh, desk, rejections,
                 faults>>

\* Mutant: the code is sent to the sender but not stored.
OnlyNotify(m) ==
  /\ step[m] = "issue"
  /\ generated < MaxCodes
  /\ generated' = generated + 1
  /\ fresh' = [fresh EXCEPT ![m] = generated + 1]
  /\ Goto(m, "notify")
  /\ UNCHANGED <<entry, expired, told, text, desk, rejections, faults>>

\* generate_code and store_pairing_code.
IssueCode(m) ==
  /\ step[m] = "issue"
  /\ generated < MaxCodes
  /\ generated' = generated + 1
  /\ fresh' = [fresh EXCEPT ![m] = generated + 1]
  /\ entry' = [entry EXCEPT !.code = generated + 1]
  /\ Goto(m, "notify")
  /\ UNCHANGED <<expired, told, text, desk, rejections, faults>>

\* enqueue_pairing_response.
NotifySender(m) ==
  /\ step[m] = "notify"
  /\ told' = told \cup {fresh[m]}
  /\ Goto(m, "ended")
  /\ UNCHANGED <<entry, expired, generated, text, fresh, desk, rejections,
                 faults>>

\* A call fails, or the daemon stops: the rest of the handler is lost, and the
\* channel does not deliver the message again.
HandlerFails(m) ==
  /\ IoFaults
  /\ step[m] \notin {"idle", "ended"}
  /\ Goto(m, "ended")
  /\ faults' = TRUE
  /\ UNCHANGED <<entry, expired, generated, told, text, fresh, desk,
                 rejections>>

-----------------------------------------------------------------------------
(* Operators.                                                              *)

\* find_pending_by_code and the check of its expiry, with a code that the
\* sender has shown to the operator.
FindByCode(o) ==
  /\ desk[o] = "idle"
  /\ entry.status = "pending" /\ entry.code \in told \ expired
  /\ desk' = [desk EXCEPT ![o] = "found"]
  /\ UNCHANGED <<entry, expired, generated, told, handlerVars, rejections,
                 faults>>

ApproveFound(o) ==
  /\ desk[o] = "found"
  /\ entry' = [entry EXCEPT !.status = "approved"]
  /\ desk' = [desk EXCEPT ![o] = "approved"]
  /\ UNCHANGED <<expired, generated, told, handlerVars, rejections, faults>>

\* clear_pairing_code clears whatever code is stored by then.
ClearCode(o) ==
  /\ desk[o] = "approved"
  /\ entry' = [entry EXCEPT !.code = NoCode]
  /\ desk' = [desk EXCEPT ![o] = "ended"]
  /\ UNCHANGED <<expired, generated, told, handlerVars, rejections, faults>>

RequestFails(o) ==
  /\ IoFaults
  /\ desk[o] \in {"found", "approved"}
  /\ desk' = [desk EXCEPT ![o] = "ended"]
  /\ faults' = TRUE
  /\ UNCHANGED <<entry, expired, generated, told, handlerVars, rejections>>

\* approve_sender_access and reject_sender_access leave the code alone.
Approve ==
  /\ entry.status # "none"
  /\ entry' = [entry EXCEPT !.status = "approved"]
  /\ UNCHANGED <<expired, generated, told, handlerVars, desk, rejections,
                 faults>>

Reject ==
  /\ entry.status # "none"
  /\ entry' = [entry EXCEPT !.status = "rejected"]
  /\ rejections' = TRUE
  /\ UNCHANGED <<expired, generated, told, handlerVars, desk, faults>>

-----------------------------------------------------------------------------

Verify(m) == VerifyRefused(m) \/ VerifyExpired(m) \/ VerifyCompared(m)

Next ==
  \/ CodeExpires
  \/ LockoutPasses
  \/ \E m \in Msgs :
       \/ Arrive(m)
       \/ CheckAccess(m)
       \/ Register(m)
       \/ Verify(m)
       \/ IssueCode(m)
       \/ NotifySender(m)
       \/ HandlerFails(m)
  \/ \E o \in Operators :
       FindByCode(o) \/ ApproveFound(o) \/ ClearCode(o) \/ RequestFails(o)
  \/ Approve
  \/ Reject

Spec == Init /\ [][Next]_vars

-----------------------------------------------------------------------------
(* Properties.                                                             *)

\* The failed attempts between two lockouts never exceed max_failed_attempts
\* (a first one always fits), and reaching the limit has locked the entry,
\* whatever handlers verify beside each other.
GuessesBounded ==
  /\ entry.attempts <= MaxFailedAttempts \/ entry.attempts = 1
  /\ entry.attempts > 0 /\ entry.attempts >= MaxFailedAttempts
       => entry.lock # "none"

Resting ==
  /\ \A m \in Msgs : step[m] \in {"idle", "ended"}
  /\ \A o \in Operators : desk[o] \in {"idle", "ended"}

\* A sender who is left pending can pair: a code is stored and was sent to
\* him.  He is stuck only if a call failed between the steps of a handler, or
\* an operator had rejected him; then a plain message issues no new code.
PendingCanPair ==
  Resting /\ entry.status = "pending" /\ ~faults /\ ~rejections
    => entry.code \in told

-----------------------------------------------------------------------------
(* The inductive invariant behind PendingCanPair.                          *)

\* Only an operator's rejection undoes an approval, so a request that has
\* approved clears the code of an approved sender.
DeskInv ==
  /\ entry.status = "rejected" => rejections
  /\ \A o \in Operators :
       desk[o] = "approved" /\ ~rejections => entry.status = "approved"

\* The code of a pending sender was sent, or a handler is about to replace it,
\* or about to send it.
PairInv ==
  entry.status = "pending" /\ ~faults /\ ~rejections =>
    \/ entry.code \in told
    \/ \E m \in Msgs :
         \/ step[m] = "issue"
         \/ step[m] = "notify" /\ fresh[m] = entry.code

IInv == TypeOK /\ GuessesBounded /\ DeskInv /\ PairInv

-----------------------------------------------------------------------------
(* Approvals over time.                                                    *)

\* An approval is final unless an operator rejects the sender: no handler
\* that read the record before it was approved puts it back.
ApprovalIsKept ==
  [][entry.status = "approved" /\ entry'.status # "approved"
       => entry'.status = "rejected"]_vars
=============================================================================
