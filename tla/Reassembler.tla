----------------------------- MODULE Reassembler -----------------------------
(***************************************************************************)
(* Messages too long for the transport: split and the reassembler          *)
(* (internal/frameo/multipart.go).  A sender cuts messages into numbered   *)
(* parts; parts "of different messages may interleave", "may arrive out of *)
(* order and a piece may repeat", and the receiver may discard everything  *)
(* part-received between any two of them (discardPending, media.go).       *)
(*                                                                         *)
(* A message is a sequence of pieces, the bytes of the code.  Positions    *)
(* are 32 bits wide in the code; IntMax is the largest, here.              *)
(***************************************************************************)
EXTENDS Integers, Sequences, FiniteSets, SequencesExt

CONSTANTS
  Messages,       \* message ids in flight
  Length,         \* pieces of each message
  ChunkSize,      \* pieces in a part
  MaxPartial,     \* maxPartialMessages
  MaxTotal,       \* maxTotal
  IntMax

ASSUME ReassemblerAssumption ==
  /\ IntMax \in Nat \ {0} /\ ChunkSize \in 1..IntMax
  /\ Length \in [Messages -> 1..IntMax]
  /\ MaxPartial \in Nat \ {0} /\ MaxTotal \in 1..IntMax

Whole(m) == [i \in 1..Length[m] |-> <<m, i>>]
Smaller(x, y) == IF x < y THEN x ELSE y

LastIndex(m) == (Length[m] - 1) \div ChunkSize
Part(m, i) == [id |-> m, size |-> Length[m], index |-> i,
               data |-> SubSeq(Whole(m), i * ChunkSize + 1, Smaller((i + 1) * ChunkSize, Length[m]))]

\* split, for a message that does not fit.
Split(m) == {Part(m, i): i \in 0..LastIndex(m)}

\* A part which claims a position beyond its message.
Beyond(m) == [id: {m}, size: {Length[m]}, index: (LastIndex(m) + 1)..IntMax, data: {<<>>}]

Arriving == UNION {Split(m) \cup Beyond(m) : m \in Messages}

VARIABLES
  partial,    \* what has been received of each message; Absent for nothing
  returned    \* the messages add has returned

partsVars == <<partial, returned>>

Absent == [size |-> 0, parts |-> <<>>, have |-> 0]
Tracked == {m \in Messages : partial[m] # Absent}

Data == Seq(Messages \X (1..IntMax))

\* The types; no message longer than MaxTotal is collected or returned.
PartsTypeOK ==
  /\ DOMAIN partial = Messages
  /\ \A m \in Messages:
       /\ partial[m].size \in 0..MaxTotal /\ partial[m].have \in 0..MaxTotal
       /\ DOMAIN partial[m].parts \subseteq 0..IntMax
       /\ \A i \in DOMAIN partial[m].parts: partial[m].parts[i] \in Data
  /\ returned \subseteq [id: Messages, data: Data]

PartsInit == partial = [m \in Messages |-> Absent] /\ returned = {}

-------------------------------------------------------------------------------
\* Mutant: the product is as wide as the position, and wraps.
Offset_Narrow(i) ==
  ((i * ChunkSize + IntMax + 1) % (2 * (IntMax + 1))) - (IntMax + 1)

\* "Widened deliberately": the product does not wrap.
Offset(i) == i * ChunkSize

\* The checks a part has to pass.
Accepts(part) ==
  /\ part.size <= MaxTotal
  /\ Offset(part.index) < part.size
  /\ part.id \in Tracked => partial[part.id].size = part.size
  /\ part.id \notin Tracked => Cardinality(Tracked) < MaxPartial

\* Mutant: a part that repeats is counted again.
WithPart_CountsRepeats(part) ==
  LET p == partial[part.id] IN
    [size |-> part.size,
     parts |-> [i \in DOMAIN p.parts \cup {part.index} |->
                  IF i = part.index THEN part.data ELSE p.parts[i]],
     have |-> p.have + Len(part.data)]

\* Mutant: parts are taken to arrive in order.
WithPart_InOrder(part) ==
  LET p == partial[part.id] IN
    [size |-> part.size,
     parts |-> [i \in 0..Cardinality(DOMAIN p.parts) |->
                  IF i \in DOMAIN p.parts THEN p.parts[i] ELSE part.data],
     have |-> p.have + Len(part.data)]

\* What is known of the message with this part; the first copy of a part stays.
WithPart(part) ==
  LET p == partial[part.id] IN
    IF part.index \in DOMAIN p.parts THEN p
    ELSE [size |-> part.size,
          parts |-> [i \in DOMAIN p.parts \cup {part.index} |->
                       IF i = part.index THEN part.data ELSE p.parts[i]],
          have |-> p.have + Len(part.data)]

\* The parts from the first to the last before a missing one, joined.
Joined(parts) ==
  LET n == CHOOSE k \in 0..(IntMax + 1): k \notin DOMAIN parts /\ 0..(k - 1) \subseteq DOMAIN parts
  IN  FlattenSeq([i \in 1..n |-> parts[i - 1]])

\* It is refused, and forgotten all the same, if the joined parts fall short.
Returns(p) == Len(Joined(p.parts)) = p.size

\* Takes one part.  A message with all its bytes gives up its place.
Add ==
  \E part \in Arriving:
    /\ Accepts(part)
    /\ LET p == WithPart(part) IN
         IF p.have < p.size
           THEN partial' = [partial EXCEPT ![part.id] = p] /\ UNCHANGED returned
           ELSE /\ partial' = [partial EXCEPT ![part.id] = Absent]
                /\ returned' = IF Returns(p)
                                 THEN returned \cup {[id |-> part.id, data |-> Joined(p.parts)]}
                                 ELSE returned

\* The client discards what is pending, or its reader has ended.
Reset == partial' = [m \in Messages |-> Absent] /\ UNCHANGED returned

PartsNext == Add \/ Reset

PartsSpec == PartsInit /\ [][PartsNext]_partsVars

-------------------------------------------------------------------------------
(* Properties *)

\* A message is returned as it was sent, however its parts were interleaved
\* with others', reordered, repeated, or cut off by a discard.
ReturnedWhole == \A r \in returned: r.data = Whole(r.id)

\* What is held of a message adds up: its parts are parts of that message, have
\* counts every byte that is there once, and something is missing.  And messages
\* that are begun and abandoned do not pile up.
HeldAddsUp ==
  /\ Cardinality(Tracked) <= MaxPartial
  /\ \A m \in Tracked:
       LET p == partial[m] IN
         /\ p.size = Length[m]
         /\ \A i \in DOMAIN p.parts: i <= LastIndex(m) /\ p.parts[i] = Part(m, i).data
         /\ p.have = Cardinality({b \in 1..Length[m]:
                                   \E i \in DOMAIN p.parts: <<m, b>> \in ToSet(p.parts[i])})
         /\ p.have < p.size

\* A message in progress loses what has arrived of it only by being returned or
\* with every other message: a new message never pushes it out.
NotPushedOut ==
  [][\A m \in Tracked: m \notin Tracked' =>
        [id |-> m, data |-> Whole(m)] \in returned' \/ Tracked' = {}]_partsVars
===============================================================================
