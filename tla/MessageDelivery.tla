-------------------------- MODULE MessageDelivery ---------------------------
(***************************************************************************)
(* What the incoming queue promises to a producer whose enqueue returned:  *)
(* at-least-once delivery with bounded retries.  A message stays open      *)
(* until it is answered at least once, or until more than MaxRetries       *)
(* failures have been recorded for it; then it is settled for good.        *)
(* Nothing is said of when, or of who handles it.                          *)
(***************************************************************************)
EXTENDS Integers

CONSTANTS Msgs, MaxRetries, DeadLetterEnabled

VARIABLES
  status,    \* "absent", "open", or how the message was settled
  failures,  \* failures recorded for it
  answers    \* replies written for it

vars == <<status, failures, answers>>

Init ==
  /\ status = [m \in Msgs |-> "absent"]
  /\ failures = [m \in Msgs |-> 0]
  /\ answers = [m \in Msgs |-> 0]

Become(m, s) == status' = [status EXCEPT ![m] = s]

Accept(m) ==
  /\ status[m] = "absent"
  /\ Become(m, "open")
  /\ UNCHANGED <<failures, answers>>

Answer(m) ==
  /\ status[m] = "open"
  /\ answers' = [answers EXCEPT ![m] = @ + 1]
  /\ UNCHANGED <<status, failures>>

Fail(m) ==
  /\ status[m] = "open"
  /\ failures' = [failures EXCEPT ![m] = @ + 1]
  /\ UNCHANGED <<status, answers>>

Done(m) ==
  /\ status[m] = "open"
  /\ answers[m] > 0
  /\ Become(m, "done")
  /\ UNCHANGED <<failures, answers>>

Bury(m) ==
  /\ status[m] = "open"
  /\ DeadLetterEnabled
  /\ failures[m] > MaxRetries
  /\ Become(m, "dead_letter")
  /\ UNCHANGED <<failures, answers>>

\* The last failure is counted in the step that drops the message.
Drop(m) ==
  /\ status[m] = "open"
  /\ ~DeadLetterEnabled
  /\ failures[m] + 1 > MaxRetries
  /\ failures' = [failures EXCEPT ![m] = @ + 1]
  /\ Become(m, "discarded")
  /\ UNCHANGED answers

Next == \E m \in Msgs :
  Accept(m) \/ Answer(m) \/ Fail(m) \/ Done(m) \/ Bury(m) \/ Drop(m)

Spec == Init /\ [][Next]_vars
=============================================================================
