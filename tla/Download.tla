------------------------------- MODULE Download -------------------------------
(***************************************************************************)
(* Reading photos back from a frame: Client.GetMedia and getMediaOnce      *)
(* (internal/frameo/media.go), called once for each photo of a batch.  A   *)
(* data segment says nothing about the photo it belongs to; what keeps a   *)
(* slow answer to an abandoned request out of the next photo is the order  *)
(* of messages, the id in the header and the byte counts.                  *)
(*                                                                         *)
(* The connection keeps order and loses nothing (Peer.tla).  The frame is  *)
(* external: it is modelled after the double the tests run against         *)
(* (internal/frameo/frameotest/fakeframe.go).  It works on one request at  *)
(* a time, may stop anywhere in an answer, and may come back to a stalled  *)
(* answer before it takes the next request.  Photos are sequences of       *)
(* pieces, the bytes of the code, and Chunk of them travel in a segment.   *)
(* Client has the other requests of a connection, and the specification.   *)
(***************************************************************************)
EXTENDS Naturals, Sequences

CONSTANTS
  Photos,     \* ids on the frame
  NoPhoto,
  Size,       \* pieces of each photo...
  Extra,      \* ...and of the thumbnail announced with it
  Chunk,      \* pieces in a segment
  Programs,   \* what may be asked for, in order: the ids to get, then requests
  Attempts,   \* MediaAttempts
  QueueCap    \* capacity of Client.frames

ASSUME PhotosAssumption ==
  /\ NoPhoto \notin Photos
  /\ Size \in [Photos -> Nat \ {0}] /\ Extra \in [Photos -> Nat]
  /\ \A p \in Programs: p.gets \in Seq(Photos)
ASSUME BoundAssumption == Attempts \in Nat \ {0} /\ QueueCap \in Nat \ {0} /\ Chunk \in Nat \ {0}

Total(p) == Size[p] + Extra[p]

Piece(p, n) == [of |-> p, n |-> n]
Pieces(p, from, to) == [i \in 1..(to - from + 1) |-> Piece(p, from + i - 1)]
Whole(p) == Pieces(p, 1, Size[p])

VARIABLES
  program,    \* what is asked for on this connection
  call,       \* which photo of the batch is being fetched; beyond it at the end
  attempt,    \* the attempt being made
  cpc,        \* "ask" before the request is sent, "await" after
  header,     \* the photo described by the header taken, NoPhoto for none
  acc,        \* the pieces gathered behind it
  results,    \* of the calls made: what became of it, and the data returned
  over,       \* the connection has ended, or the caller's context
  queue,      \* Client.frames
  wire,       \* what the frame has sent and is not there yet
  asked,      \* requests the frame has not taken up
  stalled,    \* the answer the frame stopped in: the photo, and the next segment
  echoes      \* the frame puts the id it was asked for into its answers

callVars == <<call, attempt, cpc, results>>
accVars == <<header, acc>>
frameVars == <<asked, stalled, echoes>>
linkVars == <<over, queue, wire>>

\* Headers and refusals name a photo (id, NoPhoto when the frame names none)
\* and are about one (of); the segments of a photo are numbered.
Segment(p, k) == [type |-> "data", of |-> p, k |-> k]
Header(p) == [type |-> "media", id |-> IF echoes THEN p ELSE NoPhoto, of |-> p]
Refusal(p) == [type |-> "error", id |-> IF echoes THEN p ELSE NoPhoto, of |-> p]

LastSegment(p) == (Total(p) + Chunk - 1) \div Chunk
Segments(p, from, to) == [i \in 1..(to + 1 - from) |-> Segment(p, from + i - 1)]
Stream(p) == Segments(p, 1, LastSegment(p))
Data(m) == Pieces(m.of, (m.k - 1) * Chunk + 1,
                  IF m.k = LastSegment(m.of) THEN Total(m.of) ELSE m.k * Chunk)

MediaMsgs == [type: {"data"}, of: Photos, k: Nat] \cup [type: {"media"}, id: Photos \cup {NoPhoto}, of: Photos]
             \cup [type: {"error"}, id: Photos \cup {NoPhoto}, of: Photos]

AnyPiece == [of: Photos, n: Nat]

FetchTypes ==
  /\ call \in 1..(Len(program.gets) + 1)
  /\ attempt \in 1..Attempts
  /\ cpc \in {"ask", "await"}
  /\ header \in Photos \cup {NoPhoto}
  /\ acc \in Seq(AnyPiece)
  /\ results \in Seq([what: {"ok", "timeout", "refused", "surplus", "unfit", "over"},
                      of: Photos \cup {NoPhoto}, data: Seq(AnyPiece)])
  /\ Len(results) = call - 1
  /\ asked \in Seq(Photos)
  /\ stalled \in [of: Photos \cup {NoPhoto}, from: Nat]
  /\ echoes \in BOOLEAN

NotStalled == [of |-> NoPhoto, from |-> 1]

FetchInit ==
  /\ program \in Programs
  /\ call = 1 /\ attempt = 1 /\ cpc = "ask"
  /\ header = NoPhoto /\ acc = <<>> /\ results = <<>>
  /\ over = FALSE /\ queue = <<>> /\ wire = <<>>
  /\ asked = <<>> /\ stalled = NotStalled
  /\ echoes \in BOOLEAN

Wanted == program.gets[call]
Running == call <= Len(program.gets)

-------------------------------------------------------------------------------
(* GetMedia and getMediaOnce *)

\* The call returns, with the data of some photo or an answer about one, and
\* the next photo of the batch is fetched.
Ends(what, of, data) ==
  /\ results' = Append(results, [what |-> what, of |-> of, data |-> data])
  /\ call' = call + 1 /\ attempt' = 1 /\ cpc' = "ask"
  /\ header' = NoPhoto /\ acc' = <<>>

\* A retry first discards what is queued, what the reader queues meanwhile,
\* and the message being put together from parts: the reassembler is reset.
Discards ==
  /\ queue' = <<>>
  /\ \E lost \in 0..Len(wire): wire' = SubSeq(wire, lost + 1, Len(wire))

Asks ==
  /\ Running /\ cpc = "ask" /\ ~over
  /\ IF attempt > 1 THEN Discards ELSE UNCHANGED <<queue, wire>>
  /\ asked' = Append(asked, Wanted)
  /\ cpc' = "await"
  /\ UNCHANGED <<call, attempt, results, accVars, over, stalled, echoes>>

\* The request cannot be sent, or await reports the end.  Not tried again.
EndsEarly ==
  /\ Running /\ over
  /\ cpc = "ask" \/ cpc = "await"
  /\ Ends("over", NoPhoto, <<>>)
  /\ UNCHANGED <<over, queue, wire, frameVars>>

Takes(type) ==
  /\ Running /\ cpc = "await"
  /\ queue # <<>> /\ Head(queue).type = type
  /\ queue' = Tail(queue)
  /\ UNCHANGED <<over, wire, frameVars>>

\* Mutant: the id is not looked at.
ForUs_Any(m) == TRUE

\* A header or error naming another photo belongs to a request of the past.
ForUs(m) == m.id \in {NoPhoto, Wanted}

\* Mutant: a second header does not start the photo again.
TakesHeader_Adds ==
  /\ Takes("media")
  /\ IF ForUs(Head(queue)) THEN header' = Head(queue).of ELSE UNCHANGED header
  /\ UNCHANGED <<callVars, acc>>

\* Each header begins a transfer and replaces what came before.
TakesHeader ==
  /\ Takes("media")
  /\ IF ForUs(Head(queue)) THEN header' = Head(queue).of /\ acc' = <<>>
     ELSE UNCHANGED accVars
  /\ UNCHANGED callVars

\* An answer, if not the one hoped for: it is not asked again.
TakesRefusal ==
  /\ Takes("error")
  /\ IF ForUs(Head(queue)) THEN Ends("refused", Head(queue).of, <<>>)
     ELSE UNCHANGED <<callVars, accVars>>

\* finish: the photo is the first Size pieces.
Finished(data) == Ends("ok", header, SubSeq(data, 1, Size[header]))

TakesSegment ==
  /\ Takes("data")
  /\ LET got == acc \o Data(Head(queue)) IN
       IF header = NoPhoto THEN UNCHANGED <<callVars, accVars>>
       ELSE IF Len(got) < Total(header) THEN acc' = got /\ UNCHANGED <<callVars, header>>
       ELSE IF Len(got) > Total(header) THEN Ends("surplus", NoPhoto, <<>>)
       ELSE Finished(got)

\* What came cannot be used, whosever it is: a header or a segment that does
\* not parse, a header of nothing or of too much, or a photo that is all there,
\* also by the deadline, and is no JPEG.  Not tried again.
EndsUnfit ==
  /\ \/ Takes("media")
     \/ Takes("data") /\ header # NoPhoto
     \/ /\ Running /\ cpc = "await" /\ header # NoPhoto /\ Len(acc) >= Size[header]
        /\ UNCHANGED <<over, queue, wire, frameVars>>
  /\ Ends("unfit", NoPhoto, <<>>)

\* Mutant: a transfer that has begun is waited for without limit.
TimesOut_OnlyBefore ==
  /\ Running /\ cpc = "await"
  /\ header = NoPhoto
  /\ IF attempt < Attempts
       THEN /\ attempt' = attempt + 1 /\ cpc' = "ask"
            /\ UNCHANGED <<call, results, accVars>>
       ELSE Ends("timeout", NoPhoto, <<>>)
  /\ UNCHANGED <<over, queue, wire, frameVars>>

\* The deadline of the attempt, at any moment.  A photo that is all there is
\* taken without its thumbnail; otherwise it is asked for again, or given up.
TimesOut ==
  /\ Running /\ cpc = "await"
  /\ IF header # NoPhoto /\ Len(acc) >= Size[header] THEN Finished(acc)
     ELSE IF attempt < Attempts
       THEN /\ attempt' = attempt + 1 /\ cpc' = "ask"
            /\ header' = NoPhoto /\ acc' = <<>>
            /\ UNCHANGED <<call, results>>
     ELSE Ends("timeout", NoPhoto, <<>>)
  /\ UNCHANGED <<over, queue, wire, frameVars>>

GetMedia == \/ Asks \/ EndsEarly \/ TakesHeader \/ TakesRefusal \/ TakesSegment \/ EndsUnfit
            \/ TimesOut

-------------------------------------------------------------------------------
(* The connection and the frame *)

\* Mutant: the reader does not wait for room.
Arrives_NoLimit ==
  /\ wire # <<>>
  /\ queue' = Append(queue, Head(wire)) /\ wire' = Tail(wire)
  /\ UNCHANGED <<callVars, accVars, over, frameVars>>

Arrives ==
  /\ wire # <<>> /\ Len(queue) < QueueCap
  /\ queue' = Append(queue, Head(wire)) /\ wire' = Tail(wire)
  /\ UNCHANGED <<callVars, accVars, over, frameVars>>

ConnectionOrContextEnds ==
  /\ ~over
  /\ over' = TRUE
  /\ UNCHANGED <<callVars, accVars, queue, wire, frameVars>>

FrameUnchanged == UNCHANGED <<callVars, accVars, over, queue, echoes>>

\* It answers a request: perhaps starting over once part way,
\* perhaps stopping short.
FrameServes ==
  /\ asked # <<>> /\ ~over
  /\ asked' = Tail(asked)
  /\ LET p == Head(asked) IN
       \E cut \in 0..LastSegment(p):
         /\ \E again \in {<<>>} \cup {<<Header(p)>> \o Segments(p, 1, n) : n \in 1..(LastSegment(p) - 1)}:
              wire' = wire \o again \o <<Header(p)>> \o Segments(p, 1, cut)
         /\ stalled' = IF cut = LastSegment(p) THEN NotStalled ELSE [of |-> p, from |-> cut + 1]
  /\ FrameUnchanged

\* It has no such photo, or will not say.
FrameRefuses ==
  /\ asked # <<>> /\ ~over
  /\ asked' = Tail(asked)
  /\ wire' = Append(wire, Refusal(Head(asked)))
  /\ UNCHANGED stalled /\ FrameUnchanged

\* It sleeps through a request.
FrameIgnores ==
  /\ asked # <<>> /\ ~over
  /\ asked' = Tail(asked)
  /\ UNCHANGED <<wire, stalled>> /\ FrameUnchanged

\* It gets rid of a stalled answer: the rest of it, or all of it again.
FrameFlushes ==
  /\ stalled # NotStalled /\ ~over
  /\ wire' \in {wire \o Segments(stalled.of, stalled.from, LastSegment(stalled.of)),
                wire \o <<Header(stalled.of)>> \o Stream(stalled.of)}
  /\ stalled' = NotStalled
  /\ UNCHANGED asked /\ FrameUnchanged

FrameFetches == FrameServes \/ FrameRefuses \/ FrameIgnores \/ FrameFlushes

-------------------------------------------------------------------------------
(* Properties *)

Same(j, k) == program.gets[j] = program.gets[k]

\* A frame that names no photo in its answers "still gets the benefit of the
\* doubt" (media.go:431), which it deserves while it was asked for one only.
Told(k) == echoes \/ \A j \in 1..k: Same(j, k)

\* A photo fetched again after another one is not safe: a late header of the
\* first time is taken, the header of the other photo behind it is ignored, and
\* the segments behind that fill the transfer.  What is stated is for photos
\* with no other in between.
Unbroken(k) == \A i \in 1..k: Same(i, k) => \A j \in i..k: Same(j, k)

\* What is returned for a photo is that photo, whole and in order, or the
\* refusal of that photo, however late, repeated or interrupted the answers to
\* this request and to earlier ones.
RightPhoto ==
  \A k \in 1..Len(results): Told(k) /\ Unbroken(k) =>
    /\ results[k].what = "ok" => results[k].data = Whole(program.gets[k])
    /\ results[k].what = "refused" => results[k].of = program.gets[k]

\* "More bytes than were announced cannot be a harmless surplus": a frame that
\* answers in order, whatever it abandons and repeats, is not refused for it.
\* (Where no header names a photo none is ignored.)
NoFalseRefusal ==
  \A k \in 1..Len(results): ~echoes \/ Unbroken(k) => results[k].what # "surplus"
===============================================================================
