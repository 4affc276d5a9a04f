---------------------------- MODULE DiscordChunks ----------------------------
(***************************************************************************)
(* What the outgoing queue of Discord sends for a text that is longer than *)
(* a message may be (split_message_chunks, crates/discord/src/lib.rs).     *)
(* A text is a sequence of letters: "x" is part of a word, "_" a space,    *)
(* "n" a newline, "f" the marker ``` of a code fence and "g" its other     *)
(* marker ~~~.  Every letter counts as one character, the markers too, and *)
(* a cut through a marker is not modelled.                                 *)
(***************************************************************************)
EXTENDS OutgoingDelivery, FiniteSets, SequencesExt

CONSTANTS
  Overhead,  \* FENCE_OVERHEAD
  Limits,    \* how long a message may be: 2000 characters
  Texts      \* the texts to send

Letters == {"x", "_", "n", "f", "g"}

ASSUME ChunkAssumption ==
  /\ Overhead \in Nat
  /\ Limits \subseteq Nat /\ \A max \in Limits : max > Overhead
  /\ Texts \subseteq Seq(Letters)

-----------------------------------------------------------------------------
(* split_at_boundaries.                                                    *)

Positions(letter, text) == {p \in 1 .. Len(text) : text[p] = letter}
Latest(set) == CHOOSE p \in set : \A q \in set : q <= p

\* After which letter of a full window to cut: the last newline of its second
\* half, else the last space, else its end.
CutAfter(window) ==
  LET newlines == {p \in Positions("n", window) : p > Len(window) \div 2}
      spaces == Positions("_", window)
  IN  IF newlines # {} THEN Latest(newlines)
      ELSE IF spaces # {} THEN Latest(spaces) ELSE Len(window)

\* Where the chunk that begins after `start` ends.
EndOfChunk(text, start, max) ==
  IF Len(text) - start <= max THEN Len(text)
  ELSE start + CutAfter(SubSeq(text, start + 1, start + max))

\* One turn of the loop.
Push(loop, text, max) ==
  LET next == EndOfChunk(text, loop.start, max)
  IN  IF loop.start = Len(text) THEN loop
      ELSE [start |-> next,
            chunks |-> Append(loop.chunks, SubSeq(text, loop.start + 1, next))]

\* Each turn takes a letter at least.
Turns(text, max) ==
  LET loop[turn \in 0 .. Len(text)] ==
        IF turn = 0 THEN [start |-> 0, chunks |-> <<>>]
        ELSE Push(loop[turn - 1], text, max)
  IN  loop

SplitAtBoundaries(text, max) == Turns(text, max)[Len(text)].chunks

-----------------------------------------------------------------------------
(* find_open_fence.                                                        *)

\* The positions of the marker that a line begins with, if it does.
Marker(line) ==
  {p \in DOMAIN line :
     /\ line[p] \in {"f", "g"}
     /\ \E q \in 1 .. p : /\ \A k \in 1 .. q - 1 : line[k] = "_"
                          /\ \A k \in q .. p : line[k] = line[p]}

IsFence(line) == Marker(line) # {}

\* A line of the same marker, at least as long, and nothing else.
Closes(line, open) ==
  /\ \E p \in Marker(line), q \in Marker(open) : line[p] = open[q]
  /\ Cardinality(Marker(line)) >= Cardinality(Marker(open))
  /\ \A p \in DOMAIN line \ Marker(line) : line[p] = "_"

\* The line that opened the fence after one more line, or <<>>.
Fence(open, line) ==
  IF ~IsFence(line) THEN open
  ELSE IF open = <<>> THEN line
  ELSE IF Closes(line, open) THEN <<>> ELSE open

Read(state, letter) ==
  IF letter = "n" THEN [open |-> Fence(state.open, state.line), line |-> <<>>]
  ELSE [state EXCEPT !.line = Append(@, letter)]

\* The fence that is open before the line under way, letter by letter.
Scan(text) ==
  LET scan[n \in 0 .. Len(text)] ==
        IF n = 0 THEN [open |-> <<>>, line |-> <<>>]
        ELSE Read(scan[n - 1], text[n])
  IN  scan

FindOpenFence(text) ==
  LET end == Scan(text)[Len(text)] IN Fence(end.open, end.line)

-----------------------------------------------------------------------------
(* balance_code_fences.                                                    *)

Reopened(open, raw) == IF open = <<>> THEN raw ELSE open \o <<"n">> \o raw

\* The fence that the first k chunks leave open.
OpenAfter(raws) ==
  LET open[k \in 0 .. Len(raws)] ==
        IF k = 0 THEN <<>>
        ELSE FindOpenFence(Reopened(open[k - 1], raws[k]))
  IN  open

Closed(chunk) ==
  IF FindOpenFence(chunk) = <<>> THEN chunk
  ELSE (IF chunk[Len(chunk)] = "n" THEN chunk ELSE Append(chunk, "n")) \o <<"f">>

\* Each chunk reopens the fence that the one before it left open, and is closed.
BalanceCodeFences(raws) ==
  IF Len(raws) <= 1 THEN raws
  ELSE LET open == OpenAfter(raws)
       IN  [k \in 1 .. Len(raws) |-> Closed(Reopened(open[k - 1], raws[k]))]

\* Mutant: no room is reserved for the fences that are added.
NoReserve(max) == max

EffectiveLimit(max) == max - Overhead

SplitMessageChunks(text, max) ==
  IF Len(text) <= max THEN <<text>>
  ELSE BalanceCodeFences(SplitAtBoundaries(text, EffectiveLimit(max)))

-----------------------------------------------------------------------------

\* A line, or the end of one, that looks like a fence and is too long for the
\* reserve: it is repeated with a newline, and closed with a newline and a
\* marker.
HasLongFence(text) ==
  \E p, q \in DOMAIN text :
    /\ q - p + 1 > Overhead - 3
    /\ "n" \notin {text[k] : k \in p .. q}
    /\ IsFence(SubSeq(text, p, q))

\* Markers that the added ``` does not close.
HasOtherMarker(text) ==
  \E p \in DOMAIN text :
    \/ text[p] = "g"
    \/ p > 1 /\ text[p - 1] = "f" /\ text[p] = "f"

\* What the splitter owes a text that is too long: nothing of it is lost or
\* reordered; no chunk is too long for Discord, but for a long fence line; and no
\* chunk leaves a fence open, but for a fence that ``` does not close.
SplitsSoundly(text, max) ==
  LET raws == SplitAtBoundaries(text, EffectiveLimit(max))
      chunks == SplitMessageChunks(text, max)
  IN  /\ FlattenSeq(raws) = text
      /\ \A k \in DOMAIN chunks :
           /\ Len(chunks[k]) <= max \/ HasLongFence(text)
           /\ FindOpenFence(chunks[k]) = <<>> \/ HasOtherMarker(text)

TextsSplitSoundly ==
  \A text \in Texts, max \in Limits : Len(text) > max => SplitsSoundly(text, max)

\* Whatever text a message in the queue has, its chunks are that text, each
\* within Discord's limit and with its code fences closed; the two exceptions
\* are fence lines longer than the reserve of split_message_chunks and fences
\* of the other kind, or longer ones.
ChunksAreSound == In({"whole"}) # {} => TextsSplitSoundly
=============================================================================
