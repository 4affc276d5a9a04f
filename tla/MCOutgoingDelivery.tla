------------------------- MODULE MCOutgoingDelivery -------------------------
(* The messages of the OutgoingDelivery run, to a Discord channel: the parts *)
(* of a message are the chunks of its text.                                  *)
EXTENDS DiscordChunks

\* Message 3 has two chunks, and 1 has one; the fence of message 2 is too
\* long to be repeated, so Discord refuses its second chunk.  Message 1 ends with
\* an attachment that is too large.
TextOf ==
  << <<"x", "n", "x">>,
     <<"f", "x", "x", "x", "_", "x", "x", "n", "x", "x", "x">>,
     <<"x", "x", "x", "x", "_", "x", "x", "x", "x", "x", "x">> >>

Limit == 10
Chunks(m) == SplitMessageChunks(TextOf[m], Limit)
TooLong(m) == {k \in DOMAIN Chunks(m) : Len(Chunks(m)[k]) > Limit}

\* Nothing is sent after the first part that is refused.
PartsSent(m) ==
  IF TooLong(m) = {} THEN Len(Chunks(m))
  ELSE CHOOSE k \in TooLong(m) : \A l \in TooLong(m) : k <= l

MCPartsOf == <<2, 2, 2>>

MCAttached == {<<1, 2>>}

\* The error "Message too large" is on the list of permanent ones; that of the
\* attachment of message 1 is not.
ASSUME TextsAgree ==
  /\ \A m \in Messages :
       MCPartsOf[m] = PartsSent(m) + Cardinality({x \in Attached : x[1] = m})
  /\ Recognized = {m \in Messages : TooLong(m) # {}}

\* With these texts, one whose fence is repeated, and all of 8 letters.
MCTexts ==
  {TextOf[m] : m \in Messages}
  \cup {<<"f", "n", "x", "n", "x", "n", "f", "n", "x", "x", "x">>}
  \cup [1 .. 8 -> {"x", "_", "n", "f"}] \cup [1 .. 8 -> {"x", "n", "g"}]
MCLimits == {7, Limit}
=============================================================================
