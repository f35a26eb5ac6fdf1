------------------------------ MODULE ClientProof ------------------------------
(***************************************************************************)
(* What a confirmation is worth in Client.tla, and what a photo that is    *)
(* returned: for any photos, programs and lengths.                         *)
(*                                                                         *)
(* For the requests, IInv is the inductive invariant: how far they are     *)
(* (TypeInv), their messages on their way to the frame, in order           *)
(* (PipeInv), what the frame made of those it has finished (DeedInv,       *)
(* LibraryInv), the answers on their way back (AnswerInv, OneListing), and *)
(* what was reported (OutcomeInv).                                         *)
(*                                                                         *)
(* For the photos it is PhotoInv, about all that is unread, with the       *)
(* segment the frame stopped at behind it (Line): each segment follows its *)
(* header or the segment before (LineInv), nothing is about a photo not    *)
(* asked for yet (GottenInv), once a photo is wanted that no other came    *)
(* between nothing else follows it (OrderInv), and what was gathered is    *)
(* the beginning of the photo announced, where the next segment goes on    *)
(* (GatherInv).                                                            *)
(***************************************************************************)
EXTENDS Client, SequenceTheorems, TLAPS

\* The state tuples, expanded wherever a step is split into its variables.
USE DEF vars, callVars, accVars, frameVars, linkVars, requestVars, deedVars

\* Sequences of anything, and what is in them.
IsSeq(s) == \E S: s \in Seq(S)
In(s) == {s[i] : i \in DOMAIN s}

TypeInv ==
  /\ program \in Programs
  /\ req \in 1..(Len(program.requests) + 1) /\ sent \in Nat
  /\ \A k \in Numbers: k = req => sent <= Messages(k)
  /\ ~Asking => sent = 0
  /\ IsSeq(outcomes) /\ Len(outcomes) = req - 1
  /\ IsSeq(queue) /\ IsSeq(wire) /\ IsSeq(toFrame) /\ IsSeq(open)
  /\ DOMAIN files = Numbers /\ DOMAIN library = Numbers
  /\ did \in [Numbers -> {"nothing", "ok", "refused"}]

FrameInv ==
  /\ program.gets \in Seq(Photos) /\ call \in Nat \ {0}
  /\ asked \in Seq(Photos)
  /\ stalled = NotStalled \/ stalled \in [of: Photos, from: Nat]

\* One message after the other, and one request after the other.
Follows(m, next) ==
  \/ next = Message(m.req, m.n + 1) /\ m.n < Messages(m.req)
  \/ m.n = Messages(m.req) /\ next.req > m.req /\ next.n = 1

\* The last message sent is the last of the request being made, or of an
\* earlier one when nothing of this one was sent.
Latest(m) ==
  \/ m.req = req /\ m.n = sent
  \/ sent = 0 /\ m.n = Messages(m.req) /\ m.req < req

PipeInv ==
  /\ \A i \in 1..Len(toFrame): /\ toFrame[i] = Message(toFrame[i].req, toFrame[i].n)
                               /\ toFrame[i].req \in Numbers
                               /\ toFrame[i].n \in 1..Messages(toFrame[i].req)
                               /\ \/ toFrame[i].req < req
                                  \/ toFrame[i].req = req /\ toFrame[i].n <= sent
  /\ \A i \in 1..(Len(toFrame) - 1): Follows(toFrame[i], toFrame[i + 1])
  /\ \A i \in 1..Len(open): open[i] = Message(open[1].req, i)
  /\ open # <<>> => /\ open[1].req \in Numbers /\ Request(open[1].req).kind = "photo"
                    /\ Len(open) < Messages(open[1].req)
                    /\ open[1].req < req \/ (open[1].req = req /\ Len(open) <= sent)
  /\ toFrame # <<>> => IF open = <<>> THEN toFrame[1].n = 1
                       ELSE toFrame[1] = Message(open[1].req, Len(open) + 1)
  /\ ~over => IF toFrame # <<>> THEN Latest(toFrame[Len(toFrame)])
              ELSE IF open # <<>> THEN req = open[1].req /\ sent = Len(open)
              ELSE \A k \in Numbers: k = req => sent \in {0, Messages(k)}

\* All the messages of a request.
Complete(k) == [n \in 1..Messages(k) |-> Message(k, n)]

\* The frame finishes the requests in order.
DeedInv ==
  \A k \in Numbers: did[k] # "nothing" =>
    /\ k < req \/ (k = req /\ sent = Messages(k))
    /\ toFrame # <<>> => k < toFrame[1].req
    /\ open # <<>> => k < open[1].req
    /\ did[k] = "ok" /\ Request(k).kind = "photo" => files[k] = Complete(k)

\* What a granted request did is to be seen until another is about the same photo.
LibraryInv ==
  \A j \in Numbers:
    /\ did[j] = "ok" /\ Request(j).kind # "list"
    /\ \A i \in Numbers: i > j /\ did[i] # "nothing" /\ Request(i).kind # "list" => Subject(i) # Subject(j)
    => Shows(library, j)

\* A listing for request l shows what was granted before it.
Tells(items, l) ==
  \A j \in Numbers:
    /\ j < l /\ did[j] = "ok" /\ Request(j).kind # "list"
    /\ \A i \in (j + 1)..(l - 1): Request(i).kind # "list" => Subject(i) # Subject(j)
    => Shows(items, j)

\* An answer is of the request it names, a listing of the one being made.
Answer(m) ==
  /\ m.type = "ack" => m.id \in Numbers /\ did[m.id] = IF m.ok THEN "ok" ELSE "refused"
  /\ m.type = "list" =>
       \/ over /\ sent = 0
       \/ /\ req \in Numbers /\ Request(req).kind = "list" /\ sent = 1 /\ did[req] = "ok"
          /\ Tells(m.items, req)

AnswerInv == \A m \in In(queue) \cup In(wire): Answer(m)

IsListing(m) == m.type = "list"

\* There is one listing at a time.
OneListing ==
  ~over =>
    /\ \A i, j \in DOMAIN queue: IsListing(queue[i]) /\ IsListing(queue[j]) => i = j
    /\ \A i, j \in DOMAIN wire: IsListing(wire[i]) /\ IsListing(wire[j]) => i = j
    /\ \A i \in DOMAIN queue, j \in DOMAIN wire: ~(IsListing(queue[i]) /\ IsListing(wire[j]))

OutcomeInv ==
  \A k \in Numbers:
    /\ \A what \in {"ok", "refused"}: Settled(k, what) => did[k] = what
    /\ Settled(k, "ok") /\ Request(k).kind = "list" => Tells(outcomes[k].items, k)
    /\ ~over /\ k < req /\ Request(k).kind = "list" => did[k] = "ok"

IInv == /\ TypeInv /\ FrameInv /\ PipeInv /\ DeedInv /\ LibraryInv
        /\ AnswerInv /\ OneListing /\ OutcomeInv

-------------------------------------------------------------------------------
(* Sequences, requests and media messages *)

LEMMA EmptyFacts == IsSeq(<<>>) /\ Len(<<>>) = 0 /\ In(<<>>) = {}
<1>1. <<>> \in Seq({})
  OBVIOUS
<1> QED
  BY <1>1 DEF IsSeq, In

LEMMA SeqFacts ==
  ASSUME NEW s, IsSeq(s)
  PROVE  /\ Len(s) \in Nat /\ DOMAIN s = 1..Len(s) /\ (s = <<>> <=> Len(s) = 0)
         /\ In(s) = {s[i] : i \in 1..Len(s)}
<1>1. PICK S: s \in Seq(S)
  BY DEF IsSeq
<1> QED
  BY <1>1 DEF In

LEMMA AppendFacts ==
  ASSUME NEW s, IsSeq(s), NEW x
  PROVE  /\ IsSeq(Append(s, x)) /\ Len(Append(s, x)) = Len(s) + 1
         /\ Append(s, x)[Len(s) + 1] = x
         /\ \A i \in 1..Len(s): Append(s, x)[i] = s[i]
         /\ In(Append(s, x)) = In(s) \cup {x}
<1>1. PICK S: s \in Seq(S)
  BY DEF IsSeq
<1>2. s \in Seq(S \cup {x}) /\ Append(s, x) \in Seq(S \cup {x})
  BY <1>1
<1>3. /\ Len(Append(s, x)) = Len(s) + 1 /\ Append(s, x)[Len(s) + 1] = x
      /\ \A i \in 1..Len(s): Append(s, x)[i] = s[i]
  BY <1>2
<1>4. In(Append(s, x)) = In(s) \cup {x}
  BY <1>2, <1>3 DEF In
<1> QED
  BY <1>2, <1>3, <1>4 DEF IsSeq

LEMMA TailFacts ==
  ASSUME NEW s, IsSeq(s), s # <<>>
  PROVE  /\ IsSeq(Tail(s)) /\ Len(Tail(s)) = Len(s) - 1 /\ Len(s) >= 1
         /\ Head(s) = s[1] /\ Head(s) \in In(s)
         /\ \A i \in 1..(Len(s) - 1): Tail(s)[i] = s[i + 1]
         /\ In(Tail(s)) \subseteq In(s)
<1>1. PICK S: s \in Seq(S)
  BY DEF IsSeq
<1>2. Tail(s) \in Seq(S) /\ Len(s) \in Nat \ {0} /\ Len(Tail(s)) = Len(s) - 1 /\ Head(s) = s[1]
  BY <1>1
<1>3. \A i \in 1..(Len(s) - 1): Tail(s)[i] = s[i + 1]
  BY <1>1, <1>2
<1>4. In(Tail(s)) \subseteq In(s) /\ Head(s) \in In(s)
  BY <1>1, <1>2, <1>3 DEF In
<1> QED
  BY <1>2, <1>3, <1>4 DEF IsSeq

\* What is left when the first ones are discarded.
LEMMA RestFacts ==
  ASSUME NEW s, IsSeq(s), NEW lost \in 0..Len(s)
  PROVE  IsSeq(SubSeq(s, lost + 1, Len(s))) /\ In(SubSeq(s, lost + 1, Len(s))) \subseteq In(s)
<1>1. PICK S: s \in Seq(S)
  BY DEF IsSeq
<1>2. SubSeq(s, lost + 1, Len(s)) \in Seq(S)
  BY <1>1
<1>3. /\ Len(SubSeq(s, lost + 1, Len(s))) = Len(s) - lost
      /\ \A i \in 1..(Len(s) - lost): SubSeq(s, lost + 1, Len(s))[i] = s[lost + i]
  BY <1>1
<1>4. \A i \in 1..(Len(s) - lost): s[lost + i] \in In(s)
  BY <1>1, SeqFacts
<1>5. IsSeq(SubSeq(s, lost + 1, Len(s)))
  BY <1>2 DEF IsSeq
<1>6. In(SubSeq(s, lost + 1, Len(s))) = {SubSeq(s, lost + 1, Len(s))[i] : i \in 1..(Len(s) - lost)}
  BY <1>3, <1>5, SeqFacts
<1> QED
  BY <1>3, <1>4, <1>5, <1>6

\* s, and messages about photos behind it.
Media == {"data", "media", "error"}
Grows(s, t) == /\ IsSeq(s) /\ IsSeq(t) /\ Len(s) <= Len(t)
               /\ \A i \in 1..Len(s): t[i] = s[i]
               /\ \A i \in (Len(s) + 1)..Len(t): t[i].type \in Media

LEMMA GrowsByOne ==
  ASSUME NEW s, IsSeq(s), NEW m, m.type \in Media
  PROVE  Grows(s, Append(s, m))
BY SeqFacts, AppendFacts DEF Grows

LEMMA GrowsBy ==
  ASSUME NEW s, NEW t, NEW u, Grows(s, t), IsSeq(u), \A i \in 1..Len(u): u[i].type \in Media
  PROVE  Grows(s, t \o u)
<1>1. PICK S, T: t \in Seq(S) /\ u \in Seq(T)
  BY DEF Grows, IsSeq
<1>2. t \in Seq(S \cup T) /\ u \in Seq(S \cup T)
  BY <1>1
<1>3. t \o u \in Seq(S \cup T) /\ Len(t \o u) = Len(t) + Len(u) /\ Len(t) \in Nat /\ Len(u) \in Nat
  BY <1>2
<1>4. /\ \A i \in 1..Len(t): (t \o u)[i] = t[i]
      /\ \A i \in (Len(t) + 1)..(Len(t) + Len(u)): (t \o u)[i] = u[i - Len(t)]
  BY <1>2
<1>5. Len(s) \in Nat
  BY SeqFacts DEF Grows
<1>6. \A i \in 1..Len(s): (t \o u)[i] = s[i]
  BY <1>3, <1>4, <1>5 DEF Grows
<1>7. ASSUME NEW i \in (Len(s) + 1)..Len(t \o u)
      PROVE  (t \o u)[i].type \in Media
  <2>1. CASE i <= Len(t)
    BY <1>3, <1>4, <1>5, <1>7, <2>1 DEF Grows
  <2>2. CASE i > Len(t)
    <3>1. i - Len(t) \in 1..Len(u) /\ (t \o u)[i] = u[i - Len(t)]
      BY <1>3, <1>4, <1>5, <1>7, <2>2
    <3> QED
      BY <3>1
  <2> QED
    BY <1>3, <1>5, <1>7, <2>1, <2>2
<1> QED
  BY <1>3, <1>5, <1>6, <1>7 DEF Grows, IsSeq

LEMMA SegmentFacts ==
  ASSUME NEW p, NEW from \in Nat, NEW to \in Nat
  PROVE  IsSeq(Segments(p, from, to)) /\ \A i \in 1..Len(Segments(p, from, to)): Segments(p, from, to)[i].type \in Media
<1> DEFINE n == IF to + 1 - from > 0 THEN to + 1 - from ELSE 0
           S == {Segment(p, from + i - 1) : i \in 1..n}
<1>1. n \in Nat /\ 1..n = 1..(to + 1 - from)
  OBVIOUS
<1>2. Segments(p, from, to) = [i \in 1..n |-> Segment(p, from + i - 1)]
  BY <1>1 DEF Segments
<1>3. \A i \in 1..n: Segment(p, from + i - 1) \in S
  OBVIOUS
<1>4. Segments(p, from, to) \in [1..n -> S]
  BY <1>2, <1>3
<1> HIDE DEF S
<1>5. Segments(p, from, to) \in Seq(S) /\ Len(Segments(p, from, to)) = n
  BY <1>1, <1>4
<1>6. \A i \in 1..n: Segments(p, from, to)[i].type \in Media
  BY <1>2 DEF Segment, Media
<1> QED
  BY <1>5, <1>6 DEF IsSeq

LEMMA LastSegmentType == ASSUME NEW p \in Photos PROVE LastSegment(p) \in Nat
<1>1. Size[p] \in Nat \ {0} /\ Extra[p] \in Nat /\ Chunk \in Nat \ {0}
  BY PhotosAssumption, BoundAssumption
<1>2. Total(p) + Chunk - 1 \in Nat
  BY <1>1 DEF Total
<1> QED
  BY <1>1, <1>2 DEF LastSegment

LEMMA RequestFacts ==
  ASSUME program \in Programs, NEW k \in Numbers
  PROVE  /\ program.requests \in Seq(Requests) /\ Len(program.requests) \in Nat
         /\ Numbers = 1..Len(program.requests) /\ k \in Nat \ {0} /\ Request(k) \in Requests
         /\ Messages(k) \in Nat \ {0} /\ (Request(k).kind # "list" => Subject(k) \in Numbers)
         /\ Request(k).kind # "photo" => Messages(k) = 1
<1>1. /\ program.requests \in Seq(Requests)
      /\ Request(k).kind \in Changes => Request(k).of \in Numbers
  BY RequestsAssumption DEF Numbers, Request
<1>2. Request(k) \in Requests /\ Numbers = 1..Len(program.requests) /\ Len(program.requests) \in Nat
  BY <1>1 DEF Numbers, Request
<1>3. Request(k).kind = "photo" => Request(k).segments \in Nat
  BY <1>2 DEF Requests, Changes
<1>4. Request(k).kind \in Changes \cup {"photo", "list"}
  BY <1>2 DEF Requests
<1>5. Messages(k) \in Nat \ {0}
  BY <1>3 DEF Messages
<1>6. Subject(k) \in Numbers \/ Request(k).kind = "list"
  BY <1>1, <1>4 DEF Subject
<1> QED
  BY <1>1, <1>2, <1>5, <1>6 DEF Messages

LEMMA SameProgram ==
  ASSUME program' = program
  PROVE  /\ Numbers' = Numbers
         /\ \A k: Request(k)' = Request(k) /\ Messages(k)' = Messages(k) /\ Subject(k)' = Subject(k)
         /\ \A items, k: Shows(items, k)' <=> Shows(items, k)
         /\ \A k: Complete(k)' = Complete(k)
BY DEF Numbers, Request, Messages, Subject, Shows, Complete

\* Every message is of one kind.
LEMMA NotMedia == \A m: m.type \in Media => m.type # "ack" /\ ~IsListing(m)
BY DEF Media, IsListing

-------------------------------------------------------------------------------
(* Steps that touch neither the requests nor what the frame made of them *)

LEMMA Undisturbed ==
  ASSUME IInv, UNCHANGED <<program, requestVars, deedVars>>, over => over',
         Running' => Running, FrameInv', IsSeq(queue'), IsSeq(wire'),
         \A m \in In(queue') \cup In(wire'): m \in In(queue) \cup In(wire) \/ m.type \in Media,
         OneListing'
  PROVE  IInv'
<1>1. TypeInv'
  BY SameProgram DEF IInv, TypeInv, Asking
<1>2. PipeInv'
  BY SameProgram DEF IInv, PipeInv, Latest, Follows
<1>3. DeedInv' /\ LibraryInv'
  BY SameProgram DEF IInv, DeedInv, LibraryInv
<1>4. \A items, l: Tells(items, l)' <=> Tells(items, l)
  BY SameProgram DEF Tells
<1>5. ASSUME NEW m \in In(queue') \cup In(wire')
      PROVE  Answer(m)'
  <2>1. CASE m.type \in Media
    BY <2>1, NotMedia DEF Answer, IsListing
  <2>2. CASE m \in In(queue) \cup In(wire)
    <3>1. Answer(m)
      BY <2>2 DEF IInv, AnswerInv
    <3> QED
      BY <3>1, <1>4, SameProgram DEF Answer
  <2> QED
    BY <1>5, <2>1, <2>2
<1>6. AnswerInv'
  BY <1>5 DEF AnswerInv
<1>7. OutcomeInv'
  BY <1>4, SameProgram DEF IInv, OutcomeInv, Settled
<1> QED
  BY <1>1, <1>2, <1>3, <1>6, <1>7 DEF IInv

LEMMA OneListingTaken ==
  ASSUME OneListing, IsSeq(queue), queue # <<>>, queue' = Tail(queue), UNCHANGED <<over, wire>>
  PROVE  OneListing'
<1>1. /\ Len(queue) \in Nat /\ DOMAIN queue = 1..Len(queue) /\ DOMAIN queue' = 1..(Len(queue) - 1)
      /\ \A i \in 1..(Len(queue) - 1): queue'[i] = queue[i + 1] /\ i + 1 \in 1..Len(queue)
  BY SeqFacts, TailFacts
<1> QED
  BY <1>1 DEF OneListing

LEMMA OneListingGrows ==
  ASSUME OneListing, Grows(wire, wire'), UNCHANGED <<over, queue>>
  PROVE  OneListing'
<1>1. /\ Len(wire) \in Nat /\ DOMAIN wire = 1..Len(wire) /\ Len(wire') \in Nat /\ DOMAIN wire' = 1..Len(wire')
  BY SeqFacts DEF Grows
<1>2. \A i \in DOMAIN wire': IsListing(wire'[i]) => i \in DOMAIN wire /\ wire'[i] = wire[i]
  BY <1>1, NotMedia DEF Grows
<1> QED
  BY <1>2 DEF OneListing

\* While photos are fetched no listing has been asked for.
LEMMA NoListing ==
  ASSUME IInv, Running, ~over, NEW m \in In(queue) \cup In(wire)
  PROVE  ~IsListing(m)
<1>1. sent = 0
  BY DEF IInv, TypeInv, Asking
<1> QED
  BY <1>1 DEF IInv, AnswerInv, Answer, IsListing

LEMMA FetchingKeeps == ASSUME IInv, Fetching PROVE IInv'
<1> USE DEF Fetching, GetMedia
<1>1. ASSUME Asks
      PROVE  IInv'
  <2>1. IsSeq(queue) /\ IsSeq(wire)
    BY DEF IInv, TypeInv
  <2>2. /\ IsSeq(queue') /\ IsSeq(wire')
        /\ In(queue') \subseteq In(queue) /\ In(wire') \subseteq In(wire)
    <3>1. CASE attempt > 1
      <4>1. PICK lost \in 0..Len(wire): wire' = SubSeq(wire, lost + 1, Len(wire))
        BY <1>1, <3>1 DEF Asks, Discards
      <4>2. queue' = <<>>
        BY <1>1, <3>1 DEF Asks, Discards
      <4>3. IsSeq(wire') /\ In(wire') \subseteq In(wire)
        BY <2>1, <4>1, RestFacts
      <4>4. IsSeq(queue') /\ In(queue') = {}
        BY <4>2, EmptyFacts
      <4> QED
        BY <4>3, <4>4
    <3>2. CASE ~(attempt > 1)
      BY <1>1, <2>1, <3>2 DEF Asks
    <3> QED
      BY <3>1, <3>2
  <2>3. FrameInv'
    <3>1. Wanted \in Photos
      BY <1>1 DEF Asks, IInv, FrameInv, Wanted, Running
    <3>2. asked' \in Seq(Photos) /\ UNCHANGED <<call, stalled, program>>
      BY <1>1, <3>1 DEF Asks, IInv, FrameInv
    <3> QED
      BY <3>2 DEF IInv, FrameInv
  <2>4. \A m \in In(queue') \cup In(wire'): ~IsListing(m)
    BY <1>1, <2>2, NoListing DEF Asks
  <2>5. OneListing'
    BY <2>4 DEF OneListing, In
  <2> QED
    BY <1>1, <2>2, <2>3, <2>5, Undisturbed DEF Asks, Running
<1>2. ASSUME Takes("media") \/ Takes("error") \/ Takes("data"), call' \in {call, call + 1}
      PROVE  IInv'
  <2>1. IsSeq(queue) /\ IsSeq(wire) /\ queue # <<>> /\ queue' = Tail(queue) /\ UNCHANGED <<over, wire, frameVars>>
    BY <1>2 DEF IInv, TypeInv, Takes
  <2>2. IsSeq(queue') /\ In(queue') \subseteq In(queue)
    BY <2>1, TailFacts
  <2>3. FrameInv' /\ (Running' => Running)
    BY <1>2, <2>1 DEF IInv, FrameInv, Running
  <2>4. OneListing'
    BY <2>1, OneListingTaken DEF IInv
  <2> QED
    BY <2>1, <2>2, <2>3, <2>4, Undisturbed
<1>8. ASSUME UNCHANGED <<over, queue, wire, frameVars>>, call' \in {call, call + 1}
      PROVE  IInv'
  <2>2. FrameInv' /\ (Running' => Running)
    BY <1>8 DEF IInv, FrameInv, Running
  <2>3. OneListing' /\ IsSeq(queue') /\ IsSeq(wire')
    BY <1>8 DEF IInv, OneListing, TypeInv
  <2>4. In(queue') = In(queue) /\ In(wire') = In(wire)
    BY <1>8 DEF In
  <2> QED
    BY <1>8, <2>2, <2>3, <2>4, Undisturbed
<1>3. ASSUME EndsEarly \/ TimesOut
      PROVE  IInv'
  <2>1. UNCHANGED <<over, queue, wire, frameVars>> /\ call' \in {call, call + 1}
    BY <1>3 DEF EndsEarly, TimesOut, Ends, Finished
  <2> QED
    BY <1>8, <2>1
<1>4. TakesHeader => call' \in {call, call + 1}
  BY DEF TakesHeader
<1>5. TakesRefusal => call' \in {call, call + 1}
  BY DEF TakesRefusal, Ends
<1>6. TakesSegment => call' \in {call, call + 1}
  BY DEF TakesSegment, Ends, Finished
<1>7. ASSUME EndsUnfit
      PROVE  IInv'
  <2>1. /\ call' \in {call, call + 1}
        /\ Takes("media") \/ Takes("data") \/ UNCHANGED <<over, queue, wire, frameVars>>
    BY <1>7 DEF EndsUnfit, Ends
  <2> QED
    BY <1>2, <1>8, <2>1
<1> QED
  BY <1>1, <1>2, <1>3, <1>4, <1>5, <1>6, <1>7 DEF TakesHeader, TakesRefusal, TakesSegment

LEMMA ElsewhereKeeps == ASSUME IInv, Elsewhere PROVE IInv'
<1>1. /\ IsSeq(queue) /\ IsSeq(wire) /\ UNCHANGED <<program, call>> /\ (Running' <=> Running)
      /\ UNCHANGED <<requestVars, deedVars>>
  BY DEF IInv, TypeInv, Elsewhere, Arrives, FrameFetches, FrameServes, FrameRefuses, FrameIgnores,
         FrameFlushes, FrameUnchanged, ConnectionOrContextEnds, Running
<1>2. ASSUME Arrives
      PROVE  IInv'
  <2> DEFINE m == Head(wire)
  <2>1. /\ wire # <<>> /\ queue' = Append(queue, m) /\ wire' = Tail(wire)
        /\ UNCHANGED <<over, frameVars>>
    BY <1>2 DEF Arrives
  <2>2. /\ Len(queue) \in Nat /\ DOMAIN queue = 1..Len(queue) /\ DOMAIN queue' = 1..(Len(queue) + 1)
        /\ IsSeq(queue') /\ queue'[Len(queue) + 1] = m
        /\ \A i \in 1..Len(queue): queue'[i] = queue[i]
    BY <1>1, <2>1, SeqFacts, AppendFacts
  <2>3. /\ Len(wire) \in Nat \ {0} /\ DOMAIN wire = 1..Len(wire) /\ DOMAIN wire' = 1..(Len(wire) - 1)
        /\ IsSeq(wire') /\ m = wire[1]
        /\ \A i \in 1..(Len(wire) - 1): wire'[i] = wire[i + 1]
    BY <1>1, <2>1, SeqFacts, TailFacts
  <2>4. In(queue') = In(queue) \cup {m} /\ In(wire') \subseteq In(wire) /\ m \in In(wire)
    BY <1>1, <2>1, AppendFacts, TailFacts
  <2>5. ASSUME ~over
        PROVE  /\ \A i, j \in DOMAIN queue': IsListing(queue'[i]) /\ IsListing(queue'[j]) => i = j
               /\ \A i, j \in DOMAIN wire': IsListing(wire'[i]) /\ IsListing(wire'[j]) => i = j
               /\ \A i \in DOMAIN queue', j \in DOMAIN wire': ~(IsListing(queue'[i]) /\ IsListing(wire'[j]))
    <3>1. /\ \A i, j \in 1..Len(queue): IsListing(queue[i]) /\ IsListing(queue[j]) => i = j
          /\ \A i, j \in 1..Len(wire): IsListing(wire[i]) /\ IsListing(wire[j]) => i = j
          /\ \A i \in 1..Len(queue), j \in 1..Len(wire): ~(IsListing(queue[i]) /\ IsListing(wire[j]))
      BY <2>2, <2>3, <2>5 DEF IInv, OneListing
    <3> HIDE DEF m
    <3>2. ASSUME NEW i \in DOMAIN queue', NEW j \in DOMAIN queue', IsListing(queue'[i]), IsListing(queue'[j])
          PROVE  i = j
      <4>1. 1 \in 1..Len(wire) /\ m = wire[1]
        BY <2>3
      <4>2. i = Len(queue) + 1 \/ (i \in 1..Len(queue) /\ queue'[i] = queue[i])
        BY <2>2, <3>2
      <4>3. j = Len(queue) + 1 \/ (j \in 1..Len(queue) /\ queue'[j] = queue[j])
        BY <2>2, <3>2
      <4> QED
        BY <2>2, <3>1, <3>2, <4>1, <4>2, <4>3
    <3>3. ASSUME NEW i \in DOMAIN wire', NEW j \in DOMAIN wire', IsListing(wire'[i]), IsListing(wire'[j])
          PROVE  i = j
      <4>1. /\ wire'[i] = wire[i + 1] /\ i + 1 \in 1..Len(wire)
            /\ wire'[j] = wire[j + 1] /\ j + 1 \in 1..Len(wire)
        BY <2>3, <3>3
      <4>2. i + 1 = j + 1
        BY <3>1, <3>3, <4>1
      <4> QED
        BY <2>3, <4>2
    <3>4. \A i \in DOMAIN queue', j \in DOMAIN wire': ~(IsListing(queue'[i]) /\ IsListing(wire'[j]))
      BY <2>2, <2>3, <3>1
    <3> QED
      BY <3>2, <3>3, <3>4
  <2>6. OneListing'
    BY <2>1, <2>5 DEF OneListing
  <2>7. FrameInv'
    BY <1>1, <2>1 DEF IInv, FrameInv
  <2> QED
    BY <1>1, <2>1, <2>2, <2>3, <2>4, <2>6, <2>7, Undisturbed
<1>3. ASSUME ConnectionOrContextEnds
      PROVE  IInv'
  <2>1. UNCHANGED <<queue, wire, frameVars>> /\ over'
    BY <1>3 DEF ConnectionOrContextEnds
  <2>2. In(queue') = In(queue) /\ In(wire') = In(wire) /\ IsSeq(queue') /\ IsSeq(wire')
    BY <1>1, <2>1 DEF In
  <2>3. OneListing' /\ FrameInv'
    BY <1>1, <2>1 DEF IInv, OneListing, FrameInv
  <2> QED
    BY <1>1, <2>1, <2>2, <2>3, Undisturbed
<1>4. ASSUME FrameFetches
      PROVE  IInv'
  <2>1. UNCHANGED <<over, queue>> /\ Grows(wire, wire)
    BY <1>1, <1>4 DEF FrameFetches, FrameServes, FrameRefuses, FrameIgnores, FrameFlushes, FrameUnchanged, Grows
  <2>2. /\ \A p: Header(p).type \in Media /\ Refusal(p).type \in Media
        /\ \A p: IsSeq(<<Header(p)>>) /\ \A i \in 1..Len(<<Header(p)>>): <<Header(p)>>[i].type \in Media
    <3>1. \A p: Header(p).type \in Media /\ Refusal(p).type \in Media
      BY DEF Header, Refusal, Media
    <3>2. ASSUME NEW p
          PROVE  IsSeq(<<Header(p)>>) /\ \A i \in 1..Len(<<Header(p)>>): <<Header(p)>>[i].type \in Media
      <4>1. <<Header(p)>> \in Seq({Header(p)}) /\ Len(<<Header(p)>>) = 1 /\ <<Header(p)>>[1] = Header(p)
        OBVIOUS
      <4>2. IsSeq(<<Header(p)>>)
        BY <4>1 DEF IsSeq
      <4> QED
        BY <3>1, <4>1, <4>2
    <3> QED
      BY <3>1, <3>2
  <2>3. asked # <<>> /\ asked' = Tail(asked) => asked' \in Seq(Photos) /\ Head(asked) \in Photos
    BY DEF IInv, FrameInv
  <2>4. ASSUME FrameServes
        PROVE  Grows(wire, wire') /\ FrameInv'
    <3> DEFINE p == Head(asked)
    <3>1. p \in Photos /\ LastSegment(p) \in Nat /\ asked' \in Seq(Photos)
      BY <2>3, <2>4, LastSegmentType DEF FrameServes
    <3>2. PICK cut \in 0..LastSegment(p),
               again \in {<<>>} \cup {<<Header(p)>> \o Segments(p, 1, n) : n \in 1..(LastSegment(p) - 1)}:
            /\ wire' = wire \o again \o <<Header(p)>> \o Segments(p, 1, cut)
            /\ stalled' = IF cut = LastSegment(p) THEN NotStalled ELSE [of |-> p, from |-> cut + 1]
      BY <2>4 DEF FrameServes
    <3> HIDE DEF p
    <3>3. Grows(wire, wire \o again)
      <4>1. CASE again = <<>>
        BY <4>1, <2>1, EmptyFacts, GrowsBy
      <4>2. CASE again # <<>>
        <5>1. PICK n \in 1..(LastSegment(p) - 1): again = <<Header(p)>> \o Segments(p, 1, n)
          BY <3>2, <4>2
        <5>2. Grows(<<>>, <<Header(p)>>) /\ n \in Nat
          BY <2>2, <3>1, EmptyFacts DEF Grows
        <5>3. Grows(<<>>, again)
          BY <5>1, <5>2, SegmentFacts, GrowsBy
        <5>4. IsSeq(again) /\ \A i \in 1..Len(again): again[i].type \in Media
          BY <5>3, EmptyFacts DEF Grows
        <5> QED
          BY <5>4, <2>1, GrowsBy
      <4> QED
        BY <4>1, <4>2
    <3>4. Grows(wire, wire \o again \o <<Header(p)>>)
      BY <3>3, <2>2, GrowsBy
    <3>5. Grows(wire, wire')
      BY <3>1, <3>2, <3>4, SegmentFacts, GrowsBy
    <3>6. FrameInv'
      BY <1>1, <3>1, <3>2 DEF IInv, FrameInv
    <3> QED
      BY <3>5, <3>6
  <2>5. ASSUME FrameRefuses
        PROVE  Grows(wire, wire') /\ FrameInv'
    <3>1. Grows(wire, wire')
      BY <1>1, <2>2, <2>5, GrowsByOne DEF FrameRefuses
    <3> QED
      BY <1>1, <2>3, <2>5, <3>1 DEF FrameRefuses, IInv, FrameInv
  <2>6. ASSUME FrameIgnores
        PROVE  Grows(wire, wire') /\ FrameInv'
    BY <1>1, <2>1, <2>3, <2>6 DEF FrameIgnores, IInv, FrameInv
  <2>7. ASSUME FrameFlushes
        PROVE  Grows(wire, wire') /\ FrameInv'
    <3> DEFINE p == stalled.of
    <3>1. p \in Photos /\ stalled.from \in Nat /\ LastSegment(p) \in Nat
      BY <2>7, LastSegmentType DEF FrameFlushes, IInv, FrameInv
    <3>2. \/ wire' = wire \o Segments(p, stalled.from, LastSegment(p))
          \/ wire' = wire \o <<Header(p)>> \o Segments(p, 1, LastSegment(p))
          \/ wire' = wire \o (<<Header(p)>> \o Segments(p, 1, LastSegment(p)))
      BY <2>7 DEF FrameFlushes, Stream
    <3> HIDE DEF p
    <3>3. CASE wire' = wire \o Segments(p, stalled.from, LastSegment(p))
      BY <1>1, <2>1, <2>7, <3>1, <3>3, SegmentFacts, GrowsBy DEF FrameFlushes, IInv, FrameInv
    <3>4. CASE wire' = wire \o <<Header(p)>> \o Segments(p, 1, LastSegment(p))
      <4>1. Grows(wire, wire \o <<Header(p)>>)
        BY <2>1, <2>2, GrowsBy
      <4> QED
        BY <1>1, <4>1, <2>7, <3>1, <3>4, SegmentFacts, GrowsBy DEF FrameFlushes, IInv, FrameInv
    <3>5. CASE wire' = wire \o (<<Header(p)>> \o Segments(p, 1, LastSegment(p)))
      <4>1. Grows(<<>>, <<Header(p)>>)
        BY <2>2, EmptyFacts DEF Grows
      <4>2. Grows(<<>>, <<Header(p)>> \o Segments(p, 1, LastSegment(p)))
        BY <3>1, <4>1, SegmentFacts, GrowsBy
      <4> DEFINE u == <<Header(p)>> \o Segments(p, 1, LastSegment(p))
      <4>3. IsSeq(u) /\ \A i \in 1..Len(u): u[i].type \in Media
        BY <4>2, EmptyFacts DEF Grows
      <4>4. Grows(wire, wire')
        BY <2>1, <3>5, <4>3, GrowsBy
      <4> QED
        BY <1>1, <4>4, <2>7 DEF FrameFlushes, IInv, FrameInv
    <3> QED
      BY <3>2, <3>3, <3>4, <3>5
  <2>8. Grows(wire, wire') /\ FrameInv'
    BY <1>4, <2>4, <2>5, <2>6, <2>7 DEF FrameFetches
  <2>9. OneListing'
    BY <2>1, <2>8, OneListingGrows DEF IInv
  <2>10. \A m \in In(wire'): m \in In(wire) \/ m.type \in Media
    BY <2>8, SeqFacts DEF Grows
  <2>11. In(queue') = In(queue) /\ IsSeq(queue') /\ IsSeq(wire')
    BY <1>1, <2>1, <2>8 DEF In, Grows
  <2> QED
    BY <1>1, <2>1, <2>8, <2>9, <2>10, <2>11, Undisturbed
<1> QED
  BY <1>2, <1>3, <1>4 DEF Elsewhere

-------------------------------------------------------------------------------
(* The requests *)

\* A request comes to its end: all of it has been sent or nothing, unless the
\* connection is over, and no listing is left behind.
LEMMA SettlesKeeps ==
  ASSUME IInv, Asking, UNCHANGED <<program, callVars, over, frameVars, deedVars>>,
         NEW what, NEW items, Settles(what, items),
         IsSeq(queue'), IsSeq(wire'), In(queue') \subseteq In(queue), In(wire') \subseteq In(wire),
         OneListing',
         over \/ sent = 0 \/ sent = Messages(req),
         \A m \in In(queue') \cup In(wire'): IsListing(m) => over,
         what \in {"ok", "refused"} => did[req] = what,
         what = "ok" /\ Request(req).kind = "list" => Tells(items, req),
         ~over /\ Request(req).kind = "list" => did[req] = "ok"
  PROVE  IInv'
<1>1. /\ req \in Numbers /\ Numbers = 1..Len(program.requests) /\ Len(program.requests) \in Nat
      /\ req' = req + 1 /\ sent' = 0 /\ req \in Nat \ {0} /\ sent \in Nat
      /\ \A k \in Numbers: k \in Nat \ {0} /\ Messages(k) \in Nat \ {0}
  BY RequestFacts DEF Asking, Settles, IInv, TypeInv
<1>2. /\ IsSeq(outcomes') /\ Len(outcomes) = req - 1 /\ Len(outcomes') = req
      /\ outcomes'[req] = [what |-> what, items |-> items]
      /\ \A k \in 1..(req - 1): outcomes'[k] = outcomes[k]
      /\ DOMAIN outcomes = 1..(req - 1) /\ DOMAIN outcomes' = 1..req
  <2>1. IsSeq(outcomes) /\ Len(outcomes) = req - 1 /\ DOMAIN outcomes = 1..(req - 1)
    BY SeqFacts DEF IInv, TypeInv
  <2>2. outcomes' = Append(outcomes, [what |-> what, items |-> items])
    BY DEF Settles
  <2>3. /\ IsSeq(outcomes') /\ Len(outcomes') = (req - 1) + 1
        /\ outcomes'[(req - 1) + 1] = [what |-> what, items |-> items]
        /\ \A k \in 1..(req - 1): outcomes'[k] = outcomes[k]
    BY <2>1, <2>2, AppendFacts
  <2>4. DOMAIN outcomes' = 1..Len(outcomes')
    BY <2>3, SeqFacts
  <2> QED
    BY <1>1, <2>1, <2>3, <2>4
<1>3. TypeInv'
  <2>1. /\ req + 1 \in 1..(Len(program.requests) + 1)
        /\ \A k \in Numbers: k = req + 1 => 0 <= Messages(k)
    BY <1>1
  <2>2. Len(outcomes') = req' - 1
    BY <1>1, <1>2
  <2> QED
    BY <1>1, <1>2, <2>1, <2>2, SameProgram DEF IInv, TypeInv
<1>4. FrameInv'
  BY DEF IInv, FrameInv
<1>5. PipeInv'
  <2>1. ASSUME NEW i \in 1..Len(toFrame)
        PROVE  toFrame[i].req < req + 1
    <3>1. toFrame[i].req \in Numbers /\ (toFrame[i].req < req \/ toFrame[i].req = req)
      BY <2>1 DEF IInv, PipeInv
    <3>2. toFrame[i].req \in Nat
      BY <1>1, <3>1
    <3> QED
      BY <1>1, <3>1, <3>2
  <2>2. open # <<>> => open[1].req < req + 1
    BY <1>1 DEF IInv, PipeInv
  <2>3. ASSUME ~over, toFrame # <<>>
        PROVE  Latest(toFrame[Len(toFrame)])'
    <3>1. Len(toFrame) \in 1..Len(toFrame)
      BY <2>3, SeqFacts DEF IInv, TypeInv
    <3>2. LET m == toFrame[Len(toFrame)]
          IN  Latest(m) /\ m.n \in 1..Messages(m.req) /\ m.req \in Numbers
      BY <2>3, <3>1 DEF IInv, PipeInv
    <3> QED
      BY <1>1, <2>3, <3>2, SameProgram DEF Latest
  <2>4. ASSUME ~over, toFrame = <<>>
        PROVE  open = <<>>
    <3>1. Len(open) \in Nat /\ (open = <<>> <=> Len(open) = 0)
      BY SeqFacts DEF IInv, TypeInv
    <3>2. open # <<>> => req = open[1].req /\ sent = Len(open) /\ Len(open) < Messages(open[1].req)
      BY <2>4 DEF IInv, PipeInv
    <3> QED
      BY <1>1, <2>4, <3>1, <3>2
  <2>5. \A m, next: Follows(m, next)' <=> Follows(m, next)
    BY SameProgram DEF Follows
  <2> QED
    BY <1>1, <2>1, <2>2, <2>3, <2>4, <2>5, SameProgram DEF IInv, PipeInv
<1>6. DeedInv' /\ LibraryInv'
  <2>1. ASSUME NEW k \in Numbers, did[k] # "nothing"
        PROVE  k < req + 1
    <3>1. k < req \/ k = req
      BY <2>1 DEF IInv, DeedInv
    <3> QED
      BY <1>1, <3>1
  <2>2. did' = did /\ files' = files /\ library' = library /\ toFrame' = toFrame /\ open' = open
    OBVIOUS
  <2>3. DeedInv'
    BY <1>1, <2>1, <2>2, SameProgram DEF IInv, DeedInv
  <2>4. LibraryInv'
    BY <2>2, SameProgram DEF IInv, LibraryInv
  <2> QED
    BY <2>3, <2>4
<1>7. \A things, l: Tells(things, l)' <=> Tells(things, l)
  BY SameProgram DEF Tells
<1>8. AnswerInv'
  <2>1. ASSUME NEW m \in In(queue') \cup In(wire')
        PROVE  Answer(m)'
    <3>1. Answer(m) /\ (m.type = "list" => over)
      BY <2>1 DEF IInv, AnswerInv, IsListing
    <3> QED
      BY <1>1, <3>1, SameProgram DEF Answer
  <2> QED
    BY <2>1 DEF AnswerInv
<1>9. OutcomeInv'
  <2>1. ASSUME NEW k \in Numbers, k # req
        PROVE  /\ \A w: Settled(k, w)' <=> Settled(k, w)
               /\ k \in DOMAIN outcomes => outcomes'[k] = outcomes[k]
    BY <1>1, <1>2, <2>1 DEF Settled
  <2>2. \A k, w: k = req => (Settled(k, w)' <=> w = what)
    BY <1>1, <1>2 DEF Settled
  <2>3. ASSUME NEW k \in Numbers
        PROVE  /\ \A w \in {"ok", "refused"}: Settled(k, w)' => did[k] = w
               /\ Settled(k, "ok")' /\ Request(k).kind = "list" => Tells(outcomes'[k].items, k)
               /\ ~over /\ k < req + 1 /\ Request(k).kind = "list" => did[k] = "ok"
    <3>1. CASE k = req
      <4>1. /\ outcomes'[k] = [what |-> what, items |-> items]
            /\ \A w: Settled(k, w)' <=> w = what
        BY <1>2, <2>2, <3>1
      <4> QED
        BY <3>1, <4>1
    <3>2. CASE k # req
      <4>1. k < req + 1 => k < req
        BY <1>1, <3>2
      <4>2. Settled(k, "ok") => k \in DOMAIN outcomes
        BY DEF Settled
      <4> QED
        BY <2>1, <3>2, <4>1, <4>2 DEF IInv, OutcomeInv
    <3> QED
      BY <3>1, <3>2
  <2> QED
    BY <1>1, <1>7, <2>3, SameProgram DEF OutcomeInv
<1> QED
  BY <1>3, <1>4, <1>5, <1>6, <1>8, <1>9 DEF IInv

LEMMA SendsKeeps == ASSUME IInv, Sends, UNCHANGED program PROVE IInv'
<1> DEFINE m == Message(req, sent + 1)
<1>1. /\ req \in Numbers /\ Numbers = 1..Len(program.requests) /\ Len(program.requests) \in Nat
      /\ req \in Nat /\ \A k \in Numbers: k \in Nat /\ Messages(k) \in Nat
      /\ Messages(req) \in Nat \ {0} /\ sent \in Nat /\ sent < Messages(req) /\ ~over
      /\ sent' = sent + 1 /\ toFrame' = Append(toFrame, m)
      /\ UNCHANGED <<callVars, accVars, linkVars, frameVars, req, outcomes, open, files, library, did>>
  BY RequestFacts DEF Asking, Sends, IInv, TypeInv
<1>2. /\ m.req = req /\ m.n = sent + 1 /\ m = Message(m.req, m.n) /\ m = Message(req, sent + 1)
  BY DEF Message
<1>3. IsSeq(toFrame) /\ Len(toFrame) \in Nat /\ (toFrame = <<>> <=> Len(toFrame) = 0)
  BY SeqFacts DEF IInv, TypeInv
<1>4. /\ IsSeq(toFrame') /\ Len(toFrame') = Len(toFrame) + 1 /\ toFrame'[Len(toFrame) + 1] = m
      /\ \A i \in 1..Len(toFrame): toFrame'[i] = toFrame[i]
      /\ toFrame' # <<>>
  BY <1>1, <1>3, AppendFacts, SeqFacts
<1> HIDE DEF m
<1>5. TypeInv'
  <2>1. Asking /\ Running' = Running /\ Asking'
    BY <1>1 DEF Sends, Asking, Running, Numbers
  <2>2. sent + 1 \in Nat /\ \A k \in Numbers: k = req => sent + 1 <= Messages(k)
    BY <1>1
  <2> QED
    BY <1>1, <1>4, <2>1, <2>2, SameProgram DEF IInv, TypeInv
<1>6. FrameInv'
  BY <1>1 DEF IInv, FrameInv
<1>7. toFrame = <<>> => IF open = <<>> THEN m.n = 1 ELSE m = Message(open[1].req, Len(open) + 1)
  BY <1>1, <1>2 DEF IInv, PipeInv
<1>8. toFrame # <<>> => Follows(toFrame[Len(toFrame)], m)
  <2>1. ASSUME toFrame # <<>>
        PROVE  Follows(toFrame[Len(toFrame)], m)
    <3> DEFINE last == toFrame[Len(toFrame)]
    <3>1. Latest(last) /\ last.n \in 1..Messages(last.req)
      BY <1>1, <1>3, <2>1 DEF IInv, PipeInv
    <3> HIDE DEF last
    <3>2. last.req = req /\ last.n = sent => Follows(last, m)
      BY <1>1, <1>2 DEF Follows
    <3>3. sent = 0 /\ last.n = Messages(last.req) /\ last.req < req => Follows(last, m)
      BY <1>1, <1>2 DEF Follows
    <3>4. Follows(last, m)
      BY <3>1, <3>2, <3>3 DEF Latest
    <3> QED
      BY <3>4 DEF last
  <2> QED
    BY <2>1
<1>9. PipeInv'
  <2>0. \A x, y: Follows(x, y)' <=> Follows(x, y)
    BY SameProgram DEF Follows
  <2>1. ASSUME NEW i \in 1..Len(toFrame')
        PROVE  /\ toFrame'[i] = Message(toFrame'[i].req, toFrame'[i].n)
               /\ toFrame'[i].req \in Numbers
               /\ toFrame'[i].n \in 1..Messages(toFrame'[i].req)
               /\ \/ toFrame'[i].req < req
                  \/ toFrame'[i].req = req /\ toFrame'[i].n <= sent + 1
    <3>1. CASE i = Len(toFrame) + 1
      BY <1>1, <1>2, <1>4, <3>1
    <3>2. CASE i \in 1..Len(toFrame)
      BY <1>1, <1>4, <3>2 DEF IInv, PipeInv
    <3> QED
      BY <1>3, <1>4, <2>1, <3>1, <3>2
  <2>2. ASSUME NEW i \in 1..(Len(toFrame') - 1)
        PROVE  Follows(toFrame'[i], toFrame'[i + 1])
    <3>1. CASE i = Len(toFrame)
      BY <1>3, <1>4, <1>8, <2>2, <3>1
    <3>2. CASE i # Len(toFrame)
      <4>1. i \in 1..(Len(toFrame) - 1) /\ toFrame'[i] = toFrame[i] /\ toFrame'[i + 1] = toFrame[i + 1]
        BY <1>3, <1>4, <2>2, <3>2
      <4> QED
        BY <4>1 DEF IInv, PipeInv
    <3> QED
      BY <3>1, <3>2
  <2>3. /\ open # <<>> => open[1].req < req \/ (open[1].req = req /\ Len(open) <= sent + 1)
        /\ IF open = <<>> THEN toFrame'[1].n = 1 ELSE toFrame'[1] = Message(open[1].req, Len(open) + 1)
    <3>1. open # <<>> => Len(open) \in Nat
      BY SeqFacts DEF IInv, TypeInv
    <3>2. CASE toFrame = <<>>
      BY <1>1, <1>3, <1>4, <1>7, <3>1, <3>2 DEF IInv, PipeInv
    <3>3. CASE toFrame # <<>>
      BY <1>1, <1>3, <1>4, <3>1, <3>3 DEF IInv, PipeInv
    <3> QED
      BY <3>2, <3>3
  <2>4. Latest(toFrame[Len(toFrame)])'
    BY <1>1, <1>2, <1>4 DEF Latest
  <2> QED
    BY <1>1, <1>4, <2>0, <2>1, <2>2, <2>3, <2>4, SameProgram DEF IInv, PipeInv
<1>10. DeedInv'
  <2>1. ASSUME NEW k \in Numbers, did[k] # "nothing"
        PROVE  k < req /\ k < toFrame'[1].req
    <3>1. k < req
      <4>1. k < req \/ (k = req /\ sent = Messages(k))
        BY <2>1 DEF IInv, DeedInv
      <4>2. ~(k = req /\ sent = Messages(k))
        BY <1>1
      <4> QED
        BY <4>1, <4>2
    <3>2. CASE toFrame = <<>>
      BY <1>2, <1>3, <1>4, <3>1, <3>2
    <3>3. CASE toFrame # <<>>
      <4>1. toFrame'[1] = toFrame[1]
        BY <1>3, <1>4, <3>3
      <4>2. k < toFrame[1].req
        BY <2>1, <3>3 DEF IInv, DeedInv
      <4> QED
        BY <3>1, <4>1, <4>2
    <3> QED
      BY <3>1, <3>2, <3>3
  <2> QED
    BY <1>1, <2>1, SameProgram DEF IInv, DeedInv
<1>11. LibraryInv'
  <2>1. library' = library /\ did' = did
    BY <1>1
  <2> QED
    BY <2>1, SameProgram DEF IInv, LibraryInv
<1>12. \A things, l: Tells(things, l)' <=> Tells(things, l)
  BY <1>1, SameProgram DEF Tells
<1>13. AnswerInv'
  <2>1. ASSUME NEW x \in In(queue') \cup In(wire')
        PROVE  Answer(x)'
    <3>1. Answer(x)
      BY <1>1, <2>1 DEF IInv, AnswerInv, In
    <3>2. x.type # "list"
      <4>1. x.type = "list" => Request(req).kind = "list" /\ sent = 1
        BY <1>1, <3>1 DEF Answer
      <4>2. Request(req).kind = "list" => Messages(req) = 1
        BY <1>1, RequestFacts DEF IInv, TypeInv
      <4> QED
        BY <1>1, <4>1, <4>2
    <3> QED
      BY <1>1, <3>1, <3>2, SameProgram DEF Answer
  <2> QED
    BY <2>1 DEF AnswerInv
<1>14. OneListing'
  BY <1>1 DEF IInv, OneListing
<1>15. OutcomeInv'
  BY <1>1, <1>12, SameProgram DEF IInv, OutcomeInv, Settled
<1> QED
  BY <1>5, <1>6, <1>9, <1>10, <1>11, <1>13, <1>14, <1>15 DEF IInv

LEMMA RequestingKeeps == ASSUME IInv, Requesting PROVE IInv'
<1>0. /\ UNCHANGED program /\ IsSeq(queue) /\ IsSeq(wire) /\ sent \in Nat
      /\ \A k \in Numbers: Messages(k) \in Nat \ {0} /\ (Request(k).kind = "list" => Messages(k) = 1)
  BY RequestFacts DEF Requesting, IInv, TypeInv
<1>1. \A m \in In(queue) \cup In(wire): IsListing(m) =>
         over \/ (Request(req).kind = "list" /\ sent = 1 /\ did[req] = "ok")
  BY DEF IInv, AnswerInv, Answer, IsListing
<1>2. UNCHANGED <<queue, wire, over>> =>
        /\ IsSeq(queue') /\ IsSeq(wire') /\ In(queue') = In(queue) /\ In(wire') = In(wire) /\ OneListing'
  BY <1>0 DEF In, IInv, OneListing
<1>3. ASSUME FindsUnfit
      PROVE  IInv'
  <2>1. UNCHANGED <<queue, wire, over>> /\ Settles("unfit", Nothing) /\ sent = 0 /\ Request(req).kind = "photo"
    BY <1>3 DEF FindsUnfit
  <2> QED
    BY <1>0, <1>1, <1>2, <1>3, <2>1, SettlesKeeps DEF FindsUnfit
<1>4. ASSUME StopsEarly
      PROVE  IInv'
  <2>1. UNCHANGED <<queue, wire, over>> /\ Settles("over", Nothing) /\ over
    BY <1>4 DEF StopsEarly
  <2> QED
    BY <1>0, <1>2, <1>4, <2>1, SettlesKeeps DEF StopsEarly
<1>5. ASSUME AckTimesOut
      PROVE  IInv'
  <2>1. UNCHANGED <<queue, wire, over>> /\ Settles("timeout", Nothing) /\ Request(req).kind # "list"
    BY <1>5 DEF AckTimesOut
  <2> QED
    BY <1>0, <1>1, <1>2, <1>5, <2>1, SettlesKeeps DEF AckTimesOut
<1>6. ASSUME TakesAnswer
      PROVE  IInv'
  <2> DEFINE m == Head(queue)
  <2>1. /\ Asking /\ req \in Numbers /\ queue # <<>> /\ queue' = Tail(queue) /\ sent = Messages(req)
        /\ UNCHANGED <<callVars, accVars, over, wire, frameVars, deedVars>>
    BY <1>6 DEF TakesAnswer, Asking
  <2>2. /\ IsSeq(queue') /\ In(queue') \subseteq In(queue) /\ m \in In(queue) /\ m = queue[1]
        /\ \A i \in 1..(Len(queue) - 1): queue'[i] = queue[i + 1]
        /\ Len(queue) \in Nat /\ DOMAIN queue' = 1..(Len(queue) - 1)
        /\ IsSeq(wire') /\ In(wire') = In(wire)
    BY <1>0, <2>1, TailFacts, SeqFacts DEF In
  <2>3. OneListing'
    BY <1>0, <2>1, OneListingTaken DEF IInv
  <2>4. Answer(m)
    BY <2>2 DEF IInv, AnswerInv
  <2>5. CASE ~Accepts(m)
    <3>1. UNCHANGED requestVars
      BY <1>6, <2>5 DEF TakesAnswer
    <3>2. FrameInv'
      BY <1>0, <2>1 DEF IInv, FrameInv
    <3> QED
      BY <1>0, <2>1, <2>2, <2>3, <3>1, <3>2, Undisturbed DEF Running
  <2>6. CASE Accepts(m) /\ m.type = "list"
    <3>1. Settles("ok", m.items)
      BY <1>6, <2>6 DEF TakesAnswer
    <3>2. Request(req).kind = "list"
      BY <2>6 DEF Accepts
    <3>3. did[req] = "ok" /\ Tells(m.items, req)
      BY <1>0, <2>1, <2>4, <2>6 DEF Answer
    <3>4. ASSUME NEW x \in In(queue') \cup In(wire'), IsListing(x), ~over
          PROVE  FALSE
      <4>1. /\ 1 \in DOMAIN queue /\ IsListing(queue[1])
            /\ \A i \in 1..(Len(queue) - 1): i + 1 \in DOMAIN queue /\ i + 1 # 1
        BY <1>0, <2>1, <2>2, <2>6, TailFacts, SeqFacts DEF IsListing
      <4>2. CASE x \in In(wire)
        BY <3>4, <4>1, <4>2 DEF IInv, OneListing, In
      <4>3. CASE x \in In(queue')
        <5>1. PICK i \in 1..(Len(queue) - 1): x = queue'[i]
          BY <2>2, <4>3 DEF In
        <5>2. IsListing(queue[i + 1])
          BY <2>2, <3>4, <5>1
        <5> QED
          BY <3>4, <4>1, <5>2 DEF IInv, OneListing
      <4> QED
        BY <2>2, <3>4, <4>2, <4>3
    <3> QED
      BY <1>0, <2>1, <2>2, <2>3, <3>1, <3>2, <3>3, <3>4, SettlesKeeps
  <2>7. CASE Accepts(m) /\ m.type # "list"
    <3>1. Request(req).kind # "list" /\ m.type = "ack" /\ m.id = req
      BY <2>7 DEF Accepts
    <3> DEFINE what == IF m.ok THEN "ok" ELSE "refused"
    <3>2. Settles(what, Nothing)
      BY <1>6, <2>7 DEF TakesAnswer
    <3>3. did[req] = what
      BY <2>4, <3>1 DEF Answer
    <3>4. \A x \in In(queue') \cup In(wire'): IsListing(x) => over
      BY <1>1, <2>2, <3>1
    <3> HIDE DEF what
    <3> QED
      BY <1>0, <2>1, <2>2, <2>3, <3>1, <3>2, <3>3, <3>4, SettlesKeeps
  <2> QED
    BY <2>5, <2>6, <2>7
<1>7. Sends => IInv'
  BY <1>0, SendsKeeps
<1> QED
  BY <1>3, <1>4, <1>5, <1>6, <1>7 DEF Requesting

-------------------------------------------------------------------------------
(* The frame *)

\* What the frame takes up is the next message of the oldest request it has not
\* finished, and no listing is under way.
LEMMA FrameTakesFacts ==
  ASSUME IInv, FrameTakes, UNCHANGED program
  PROVE  /\ Arrived = toFrame[1] /\ Arrived = Message(Arrived.req, Arrived.n)
         /\ Arrived.req \in Numbers /\ Arrived.n \in 1..Messages(Arrived.req)
         /\ Arrived.req < req \/ (Arrived.req = req /\ Arrived.n <= sent)
         /\ IF open = <<>> THEN Arrived.n = 1
            ELSE Arrived.req = open[1].req /\ Arrived.n = Len(open) + 1 /\ ArrivedKind = "photo"
         /\ \A k \in Numbers: did[k] # "nothing" => k < Arrived.req
         /\ did[Arrived.req] = "nothing"
         /\ \A m \in In(queue) \cup In(wire): ~IsListing(m)
         /\ \A k \in Numbers: k \in Nat \ {0} /\ Messages(k) \in Nat \ {0}
         /\ req \in Nat /\ sent \in Nat
<1>1. /\ toFrame # <<>> /\ Len(toFrame) \in Nat \ {0} /\ Arrived = toFrame[1] /\ ~over
      /\ req \in Nat /\ sent \in Nat
      /\ \A k \in Numbers: k \in Nat \ {0} /\ Messages(k) \in Nat \ {0}
  <2>1. toFrame # <<>> /\ ~over
    BY DEF FrameTakes
  <2>2. IsSeq(toFrame) /\ program \in Programs /\ req \in 1..(Len(program.requests) + 1) /\ sent \in Nat
    BY DEF IInv, TypeInv
  <2>3. Len(toFrame) \in Nat \ {0} /\ Arrived = toFrame[1]
    BY <2>1, <2>2, SeqFacts, TailFacts DEF Arrived
  <2>4. \A k \in Numbers: k \in Nat \ {0} /\ Messages(k) \in Nat \ {0}
    BY <2>2, RequestFacts
  <2> QED
    BY <2>1, <2>2, <2>3, <2>4
<1> DEFINE k == Arrived.req
           n == Arrived.n
<1>2. /\ Arrived = Message(k, n) /\ k \in Numbers /\ n \in 1..Messages(k)
      /\ k < req \/ (k = req /\ n <= sent)
      /\ IF open = <<>> THEN n = 1 ELSE Arrived = Message(open[1].req, Len(open) + 1)
  BY <1>1 DEF IInv, PipeInv
<1>3. open # <<>> => k = open[1].req /\ n = Len(open) + 1 /\ ArrivedKind = "photo"
  <2>1. open # <<>> => Request(open[1].req).kind = "photo"
    BY DEF IInv, PipeInv
  <2> QED
    BY <1>2, <2>1 DEF Message, ArrivedKind
<1>4. \A j \in Numbers: did[j] # "nothing" => j < k
  BY <1>1 DEF IInv, DeedInv
<1>5. did[k] = "nothing"
  BY <1>1, <1>2, <1>4
<1>6. ASSUME NEW m \in In(queue) \cup In(wire), IsListing(m)
      PROVE  FALSE
  <2>1. req \in Numbers /\ did[req] = "ok"
    BY <1>1, <1>6 DEF IInv, AnswerInv, Answer, IsListing
  <2>2. req < k
    BY <1>4, <2>1
  <2> QED
    BY <1>1, <1>2, <2>2
<1> QED
  BY <1>1, <1>2, <1>3, <1>4, <1>5, <1>6

\* The pipe without its first message; what is open stands behind it.
LEMMA PipeTaken ==
  ASSUME IInv, FrameTakes, UNCHANGED program,
         IF Arrived.n < Messages(Arrived.req)
         THEN /\ open' = IF Arrived.n = 1 THEN <<Arrived>> ELSE Append(open, Arrived)
              /\ ArrivedKind = "photo"
         ELSE open' = <<>>
  PROVE  /\ PipeInv'
         /\ toFrame' # <<>> => IF Arrived.n < Messages(Arrived.req) THEN toFrame'[1].req = Arrived.req
                               ELSE Arrived.req < toFrame'[1].req
         /\ open' # <<>> => open'[1].req = Arrived.req
         /\ IsSeq(toFrame') /\ IsSeq(open')
<1> DEFINE k == Arrived.req
           n == Arrived.n
<1>1. /\ Arrived = toFrame[1] /\ Arrived = Message(k, n)
      /\ k \in Numbers /\ n \in 1..Messages(k)
      /\ k < req \/ (k = req /\ n <= sent)
      /\ IF open = <<>> THEN n = 1
         ELSE k = open[1].req /\ n = Len(open) + 1
      /\ \A j \in Numbers: j \in Nat \ {0} /\ Messages(j) \in Nat \ {0}
      /\ req \in Nat /\ sent \in Nat
  BY FrameTakesFacts
<1>2. /\ IsSeq(toFrame) /\ toFrame # <<>> /\ toFrame' = Tail(toFrame) /\ ~over
      /\ UNCHANGED <<callVars, accVars, over, queue, frameVars, requestVars>>
      /\ IsSeq(open) /\ Len(open) \in Nat /\ (open = <<>> <=> Len(open) = 0)
  BY SeqFacts DEF FrameTakes, IInv, TypeInv
<1>3. /\ Len(toFrame) \in Nat \ {0} /\ IsSeq(toFrame') /\ Len(toFrame') = Len(toFrame) - 1
      /\ (toFrame' = <<>> <=> Len(toFrame') = 0)
      /\ \A i \in 1..(Len(toFrame) - 1): toFrame'[i] = toFrame[i + 1]
  BY <1>2, SeqFacts, TailFacts
<1>4. ASSUME n < Messages(k)
      PROVE  /\ IsSeq(open') /\ Len(open') = n /\ open' # <<>>
             /\ \A i \in 1..Len(open'): open'[i] = Message(k, i)
  <2>1. CASE open = <<>>
    <3>1. open' = <<Arrived>> /\ n = 1
      BY <1>1, <1>4, <2>1
    <3>2. open' \in Seq({Arrived}) /\ Len(open') = 1 /\ open'[1] = Arrived /\ open' # <<>>
      BY <3>1
    <3>3. IsSeq(open')
      BY <3>2 DEF IsSeq
    <3>4. Arrived = Message(k, 1)
      BY <1>1, <3>1
    <3>5. \A i \in 1..Len(open'): i = 1
      BY <3>2
    <3> QED
      BY <3>1, <3>2, <3>3, <3>4, <3>5
  <2>2. CASE open # <<>>
    <3>1. open' = Append(open, Arrived) /\ n = Len(open) + 1 /\ k = open[1].req
      BY <1>1, <1>2, <1>4, <2>2
    <3>2. /\ IsSeq(open') /\ Len(open') = Len(open) + 1 /\ open'[Len(open) + 1] = Arrived
          /\ \A i \in 1..Len(open): open'[i] = open[i]
      BY <1>2, <3>1, AppendFacts
    <3>3. \A i \in 1..Len(open): open[i] = Message(k, i)
      BY <3>1 DEF IInv, PipeInv
    <3>4. open' # <<>>
      BY <1>2, <3>2, SeqFacts
    <3>5. \A i \in 1..Len(open'): i \in 1..Len(open) \/ i = Len(open) + 1
      BY <1>2, <3>2
    <3> QED
      BY <1>1, <3>1, <3>2, <3>3, <3>4, <3>5
  <2> QED
    BY <2>1, <2>2
<1>5. ASSUME ~(n < Messages(k))
      PROVE  n = Messages(k) /\ open' = <<>> /\ IsSeq(open') /\ Len(open') = 0
  BY <1>1, <1>5, EmptyFacts
<1>6. toFrame' # <<>> => Follows(Arrived, toFrame'[1])
  <2>1. toFrame' # <<>> => 1 \in 1..(Len(toFrame) - 1) /\ toFrame'[1] = toFrame[1 + 1]
    BY <1>3
  <2>2. \A i \in 1..(Len(toFrame) - 1): Follows(toFrame[i], toFrame[i + 1])
    BY DEF IInv, PipeInv
  <2> QED
    BY <1>1, <2>1, <2>2
<1>7. toFrame' # <<>> => IF n < Messages(k) THEN toFrame'[1] = Message(k, n + 1)
                         ELSE k < toFrame'[1].req /\ toFrame'[1].n = 1
  <2>1. n \in Nat /\ Messages(k) \in Nat /\ n <= Messages(k)
    BY <1>1
  <2>2. toFrame' # <<>> => toFrame'[1].req \in Numbers
    <3>1. toFrame' # <<>> => 1 \in 1..(Len(toFrame) - 1) /\ toFrame'[1] = toFrame[1 + 1] /\ 1 + 1 \in 1..Len(toFrame)
      BY <1>3
    <3> QED
      BY <3>1 DEF IInv, PipeInv
  <2> QED
    BY <1>1, <1>6, <2>1, <2>2 DEF Follows
<1>8. PipeInv'
  <2>0. \A x, y: (Follows(x, y)' <=> Follows(x, y)) /\ (Latest(x)' <=> Latest(x))
    BY <1>2, SameProgram DEF Follows, Latest
  <2>1. ASSUME NEW i \in 1..Len(toFrame')
        PROVE  /\ toFrame'[i] = Message(toFrame'[i].req, toFrame'[i].n)
               /\ toFrame'[i].req \in Numbers
               /\ toFrame'[i].n \in 1..Messages(toFrame'[i].req)
               /\ \/ toFrame'[i].req < req
                  \/ toFrame'[i].req = req /\ toFrame'[i].n <= sent
    <3>1. toFrame'[i] = toFrame[i + 1] /\ i + 1 \in 1..Len(toFrame)
      BY <1>3, <2>1
    <3> QED
      BY <3>1 DEF IInv, PipeInv
  <2>2. ASSUME NEW i \in 1..(Len(toFrame') - 1)
        PROVE  Follows(toFrame'[i], toFrame'[i + 1])
    <3>1. toFrame'[i] = toFrame[i + 1] /\ toFrame'[i + 1] = toFrame[i + 1 + 1] /\ i + 1 \in 1..(Len(toFrame) - 1)
      BY <1>3, <2>2
    <3> QED
      BY <3>1 DEF IInv, PipeInv
  <2>3. \A i \in 1..Len(open'): open'[i] = Message(open'[1].req, i)
    <3>1. CASE n < Messages(k)
      <4>1. open'[1].req = k
        BY <1>1, <1>4, <3>1 DEF Message
      <4> QED
        BY <1>4, <3>1, <4>1
    <3>2. CASE ~(n < Messages(k))
      BY <1>5, <3>2
    <3> QED
      BY <3>1, <3>2
  <2>4. open' # <<>> => /\ n < Messages(k) /\ open'[1].req = k /\ Len(open') = n
                        /\ Request(k).kind = "photo"
    BY <1>1, <1>4, <1>5 DEF Message, ArrivedKind
  <2>5. open' = <<>> => n = Messages(k)
    BY <1>4, <1>5
  <2>6. toFrame' # <<>> => IF open' = <<>> THEN toFrame'[1].n = 1
                           ELSE toFrame'[1] = Message(open'[1].req, Len(open') + 1)
    BY <1>1, <1>7, <2>4, <2>5
  <2>7. IF toFrame' # <<>> THEN Latest(toFrame'[Len(toFrame')])
        ELSE IF open' # <<>> THEN req = open'[1].req /\ sent = Len(open')
        ELSE \A j \in Numbers: j = req => sent \in {0, Messages(j)}
    <3>1. Latest(toFrame[Len(toFrame)])
      BY <1>2 DEF IInv, PipeInv
    <3>2. CASE toFrame' # <<>>
      <4>1. toFrame'[Len(toFrame')] = toFrame[Len(toFrame)]
        BY <1>3, <3>2
      <4> QED
        BY <3>1, <3>2, <4>1
    <3>3. CASE toFrame' = <<>>
      <4>1. Latest(Arrived)
        <5>1. Len(toFrame) = 1
          BY <1>3, <3>3
        <5> QED
          BY <1>1, <3>1, <5>1
      <4> QED
        BY <1>1, <2>4, <2>5, <3>3, <4>1 DEF Latest
    <3> QED
      BY <3>2, <3>3
  <2>8. open' # <<>> => /\ open'[1].req \in Numbers /\ Len(open') < Messages(open'[1].req)
                        /\ open'[1].req < req \/ (open'[1].req = req /\ Len(open') <= sent)
    BY <1>1, <2>4
  <2> QED
    BY <1>2, <2>0, <2>1, <2>2, <2>3, <2>4, <2>6, <2>7, <2>8, SameProgram DEF PipeInv
<1>9. toFrame' # <<>> => IF n < Messages(k) THEN toFrame'[1].req = k ELSE k < toFrame'[1].req
  BY <1>7 DEF Message
<1>10. open' # <<>> => open'[1].req = k
  BY <1>1, <1>4, <1>5 DEF Message
<1> QED
  BY <1>3, <1>4, <1>5, <1>8, <1>9, <1>10

\* What a listing tells does not change with a request not finished before it.
LEMMA TellsKeeps ==
  ASSUME program' = program, NEW j \in Numbers, did[j] = "nothing", NEW l \in Numbers, l < j \/ l = j,
         \A k \in Numbers: k \in Nat,
         \A k \in Numbers \ {j}: did'[k] = did[k]
  PROVE  \A items: Tells(items, l)' <=> Tells(items, l)
<1>1. \A k \in Numbers: k < l => did'[k] = did[k]
  OBVIOUS
<1> QED
  BY <1>1, SameProgram DEF Tells

\* The deeds and answers of a step that finishes the request taken up, given
\* what becomes of the library.
LEMMA FinishKeeps ==
  ASSUME IInv, FrameTakes, UNCHANGED program, Arrived.n = Messages(Arrived.req), open' = <<>>,
         did' \in [Numbers -> {"nothing", "ok", "refused"}],
         did'[Arrived.req] \in {"ok", "refused"}, \A k \in Numbers \ {Arrived.req}: did'[k] = did[k],
         Request(Arrived.req).kind = "list" => did'[Arrived.req] = "ok",
         DOMAIN files' = Numbers, DOMAIN library' = Numbers,
         \A k \in Numbers \ {Arrived.req}: files'[k] = files[k],
         did'[Arrived.req] = "ok" /\ ArrivedKind = "photo" => files'[Arrived.req] = Complete(Arrived.req),
         LibraryInv',
         NEW m, wire' \in {wire, Append(wire, m)}, Answer(m)', IsListing(m) => ~over
  PROVE  IInv'
<1> DEFINE k == Arrived.req
<1>1. /\ Arrived = toFrame[1] /\ Arrived = Message(k, Arrived.n)
      /\ k \in Numbers
      /\ k < req \/ (k = req /\ Messages(k) <= sent)
      /\ \A j \in Numbers: did[j] # "nothing" => j < k
      /\ did[k] = "nothing"
      /\ \A x \in In(queue) \cup In(wire): ~IsListing(x)
      /\ \A j \in Numbers: j \in Nat \ {0} /\ Messages(j) \in Nat \ {0}
      /\ req \in Nat /\ sent \in Nat
  BY FrameTakesFacts
<1>2. UNCHANGED <<callVars, accVars, over, queue, frameVars, requestVars>> /\ ~over
  BY DEF FrameTakes
<1>3. /\ PipeInv' /\ IsSeq(toFrame') /\ IsSeq(open')
      /\ toFrame' # <<>> => k < toFrame'[1].req
  BY <1>1, PipeTaken
<1>4. /\ did \in [Numbers -> {"nothing", "ok", "refused"}]
      /\ did' \in [Numbers -> {"nothing", "ok", "refused"}] /\ did'[k] \in {"ok", "refused"}
      /\ \A j \in Numbers \ {k}: did'[j] = did[j]
  BY <1>1 DEF IInv, TypeInv
<1>5. /\ IsSeq(queue) /\ IsSeq(wire) /\ IsSeq(wire')
      /\ In(wire') \subseteq In(wire) \cup {m} /\ In(queue') = In(queue)
  <2>1. IsSeq(queue) /\ IsSeq(wire)
    BY DEF IInv, TypeInv
  <2>2. In(queue') = In(queue)
    BY <1>2 DEF In
  <2>3. CASE wire' = wire
    BY <2>1, <2>2, <2>3 DEF In
  <2>4. CASE wire' = Append(wire, m)
    BY <2>1, <2>2, <2>4, AppendFacts
  <2> QED
    BY <2>3, <2>4
<1>6. TypeInv'
  <2>1. \A j \in Numbers: j = req => sent <= Messages(j)
    BY DEF IInv, TypeInv
  <2>2. (~Asking)' => ~Asking
    BY <1>2 DEF Asking, Running, Numbers
  <2> QED
    BY <1>2, <1>3, <1>4, <1>5, <2>1, <2>2, SameProgram DEF IInv, TypeInv
<1>7. FrameInv'
  BY <1>2 DEF IInv, FrameInv
<1>8. DeedInv'
  <2>1. ASSUME NEW j \in Numbers, did'[j] # "nothing"
        PROVE  /\ j < req \/ (j = req /\ sent = Messages(j))
               /\ toFrame' # <<>> => j < toFrame'[1].req
               /\ did'[j] = "ok" /\ Request(j).kind = "photo" => files'[j] = Complete(j)
    <3>1. CASE j = k
      <4>1. k = req => sent <= Messages(k)
        BY <1>1 DEF IInv, TypeInv
      <4>2. k < req \/ (k = req /\ sent = Messages(k))
        <5>1. Messages(k) \in Nat
          BY <1>1
        <5> QED
          BY <1>1, <4>1, <5>1
      <4> QED
        BY <1>3, <1>4, <3>1, <4>2 DEF ArrivedKind
    <3>2. CASE j # k
      <4>1. did'[j] = did[j] /\ files'[j] = files[j] /\ j < k
        BY <1>1, <1>4, <2>1, <3>2
      <4>2. /\ j < req \/ (j = req /\ sent = Messages(j))
            /\ did[j] = "ok" /\ Request(j).kind = "photo" => files[j] = Complete(j)
        BY <2>1, <4>1 DEF IInv, DeedInv
      <4>3. toFrame' # <<>> => j < toFrame'[1].req
        <5>1. ASSUME toFrame' # <<>>
              PROVE  j < toFrame'[1].req
          <6>1. toFrame'[1].req \in Nat
            <7>1. 1 \in 1..Len(toFrame')
              BY <1>3, <5>1, SeqFacts
            <7>2. toFrame'[1].req \in Numbers
              BY <1>3, <7>1, SameProgram DEF PipeInv
            <7> QED
              BY <1>1, <7>2
          <6> QED
            <7>1. j \in Nat /\ k \in Nat /\ k < toFrame'[1].req
              BY <1>1, <1>3, <5>1
            <7> QED
              BY <4>1, <6>1, <7>1
        <5> QED
          BY <5>1
      <4> QED
        BY <4>1, <4>2, <4>3
    <3> QED
      BY <3>1, <3>2
  <2> QED
    BY <1>2, <2>1, SameProgram DEF DeedInv
<1>9. AnswerInv'
  <2>1. ASSUME NEW x \in In(queue) \cup In(wire)
        PROVE  Answer(x)'
    <3>1. Answer(x) /\ x.type # "list"
      BY <1>1, <2>1 DEF IInv, AnswerInv, IsListing
    <3>2. x.type = "ack" => x.id \in Numbers /\ x.id # k /\ did'[x.id] = did[x.id]
      BY <1>1, <1>4, <3>1 DEF Answer
    <3> QED
      BY <3>1, <3>2, SameProgram DEF Answer
  <2>2. \A x \in In(queue') \cup In(wire'): x = m \/ x \in In(queue) \cup In(wire)
    BY <1>5
  <2> QED
    BY <2>1, <2>2 DEF AnswerInv
<1>10. OneListing'
  <2>1. /\ DOMAIN queue = 1..Len(queue) /\ \A i \in DOMAIN queue: queue[i] \in In(queue)
        /\ DOMAIN wire = 1..Len(wire) /\ \A i \in DOMAIN wire: wire[i] \in In(wire)
        /\ Len(wire) \in Nat
    BY <1>5, SeqFacts DEF In
  <2>2. \A i \in DOMAIN wire': (i \in DOMAIN wire /\ wire'[i] = wire[i]) \/ i = Len(wire) + 1
    <3>1. CASE wire' = wire
      BY <2>1, <3>1
    <3>2. CASE wire' = Append(wire, m)
      <4>1. DOMAIN wire' = 1..(Len(wire) + 1) /\ \A i \in 1..Len(wire): wire'[i] = wire[i]
        BY <1>5, <3>2, AppendFacts, SeqFacts
      <4> QED
        BY <2>1, <4>1
    <3> QED
      BY <3>1, <3>2
  <2> QED
    BY <1>1, <1>2, <2>1, <2>2 DEF OneListing
<1>11. OutcomeInv'
  <2>1. ASSUME NEW j \in Numbers
        PROVE  /\ \A w \in {"ok", "refused"}: Settled(j, w) => did'[j] = w
               /\ Settled(j, "ok") /\ Request(j).kind = "list" => Tells(outcomes[j].items, j)'
               /\ j < req /\ Request(j).kind = "list" => did'[j] = "ok"
    <3>1. \A w \in {"ok", "refused"}: Settled(j, w) => did[j] = w
      BY DEF IInv, OutcomeInv
    <3>2. did[j] # "nothing" => did'[j] = did[j] /\ j < k
      BY <1>1, <1>4
    <3>3. j < req /\ Request(j).kind = "list" => did'[j] = "ok"
      <4>1. j < req /\ Request(j).kind = "list" => did[j] = "ok"
        BY <1>2 DEF IInv, OutcomeInv
      <4> QED
        BY <3>2, <4>1
    <3>4. ASSUME Settled(j, "ok"), Request(j).kind = "list"
          PROVE  Tells(outcomes[j].items, j)'
      <4>1. Tells(outcomes[j].items, j) /\ j < k
        BY <3>1, <3>2, <3>4 DEF IInv, OutcomeInv
      <4>2. \A items: Tells(items, j)' <=> Tells(items, j)
        BY <1>1, <1>4, <4>1, TellsKeeps
      <4>3. outcomes' = outcomes
        BY <1>2
      <4> QED
        BY <4>1, <4>2, <4>3
    <3> QED
      BY <3>1, <3>2, <3>3, <3>4
  <2> QED
    BY <1>2, <2>1, SameProgram DEF OutcomeInv, Settled
<1> QED
  BY <1>3, <1>6, <1>7, <1>8, <1>9, <1>10, <1>11 DEF IInv

LEMMA FrameWorksKeeps == ASSUME IInv, FrameWorks PROVE IInv'
<1> DEFINE k == Arrived.req
<1>1. FrameTakes /\ UNCHANGED program
  BY DEF FrameWorks, FrameCollects, FrameActs, FrameLists
<1>2. /\ k \in Numbers /\ Arrived.n \in 1..Messages(k)
      /\ IF open = <<>> THEN Arrived.n = 1
         ELSE k = open[1].req /\ Arrived.n = Len(open) + 1 /\ ArrivedKind = "photo"
      /\ \A j \in Numbers: did[j] # "nothing" => j < k
      /\ did[k] = "nothing"
      /\ \A x \in In(queue) \cup In(wire): ~IsListing(x)
      /\ \A j \in Numbers: j \in Nat \ {0} /\ Messages(j) \in Nat \ {0}
      /\ k < req \/ (k = req /\ Arrived.n <= sent)
      /\ req \in Nat /\ sent \in Nat /\ Arrived = Message(k, Arrived.n)
  BY <1>1, FrameTakesFacts
<1>3. /\ Request(k) \in Requests /\ (ArrivedKind # "photo" => Messages(k) = 1)
      /\ ArrivedKind # "list" => Subject(k) \in Numbers
      /\ ArrivedKind = Request(k).kind
  BY <1>1, <1>2, RequestFacts DEF IInv, TypeInv, ArrivedKind
<1>4. UNCHANGED <<callVars, accVars, over, queue, frameVars, requestVars>> /\ ~over
  BY <1>1 DEF FrameTakes
<1>5. /\ did \in [Numbers -> {"nothing", "ok", "refused"}]
      /\ DOMAIN files = Numbers /\ DOMAIN library = Numbers
      /\ IsSeq(queue) /\ IsSeq(wire) /\ IsSeq(open)
  BY DEF IInv, TypeInv
<1>6. ASSUME FrameCollects
      PROVE  IInv'
  <2>1. /\ Arrived.n < Messages(k) /\ UNCHANGED <<wire, files, library, did>>
        /\ open' = IF Arrived.n = 1 THEN <<Arrived>> ELSE Append(open, Arrived)
    BY <1>6 DEF FrameCollects
  <2>2. ArrivedKind = "photo"
    BY <1>2, <1>3, <2>1
  <2>3. /\ PipeInv' /\ (toFrame' # <<>> => toFrame'[1].req = k) /\ (open' # <<>> => open'[1].req = k)
        /\ IsSeq(toFrame') /\ IsSeq(open')
    BY <1>1, <2>1, <2>2, PipeTaken
  <2>4. TypeInv'
    <3>1. (~Asking)' => ~Asking
      BY <1>1, <1>4 DEF Asking, Running, Numbers
    <3> QED
      BY <1>1, <1>4, <2>1, <2>3, <3>1, SameProgram DEF IInv, TypeInv
  <2>5. FrameInv' /\ LibraryInv' /\ OneListing'
    BY <1>1, <1>4, <2>1, SameProgram DEF IInv, FrameInv, LibraryInv, OneListing
  <2>6. DeedInv'
    BY <1>1, <1>2, <1>4, <2>1, <2>3, SameProgram DEF IInv, DeedInv
  <2>7. \A items, l: Tells(items, l)' <=> Tells(items, l)
    BY <1>1, <2>1, SameProgram DEF Tells
  <2>8. AnswerInv'
    <3>1. ASSUME NEW x \in In(queue') \cup In(wire')
          PROVE  Answer(x)'
      <4>1. Answer(x)
        BY <1>4, <2>1, <3>1 DEF IInv, AnswerInv, In
      <4> QED
        BY <1>1, <1>4, <2>1, <2>7, <4>1, SameProgram DEF Answer
    <3> QED
      BY <3>1 DEF AnswerInv
  <2>9. OutcomeInv'
    BY <1>1, <1>4, <2>1, <2>7, SameProgram DEF IInv, OutcomeInv, Settled
  <2> QED
    BY <2>3, <2>4, <2>5, <2>6, <2>8, <2>9 DEF IInv
<1>7. ASSUME FrameActs
      PROVE  IInv'
  <2>1. Arrived.n = Messages(k) /\ ArrivedKind # "list"
    BY <1>7 DEF FrameActs
  <2>2. PICK ok \in BOOLEAN:
          /\ files' = IF ok /\ ArrivedKind = "photo" THEN [files EXCEPT ![k] = Append(open, Arrived)] ELSE files
          /\ library' = IF ok THEN Granted(k) ELSE library
          /\ did' = [did EXCEPT ![k] = IF ok THEN "ok" ELSE "refused"]
          /\ wire' \in {wire, Append(wire, Ack(k, ok))}
    BY <1>7 DEF FrameActs
  <2>3. open' = <<>>
    BY <1>2, <1>7 DEF FrameActs
  <2>4. /\ DOMAIN files' = Numbers
        /\ \A j \in Numbers \ {k}: files'[j] = files[j]
        /\ ok /\ ArrivedKind = "photo" => files'[k] = Append(open, Arrived)
    BY <1>2, <1>5, <2>2
  <2>5. Append(open, Arrived) = Complete(k)
    <3>1. IsSeq(open) /\ Len(open) \in Nat /\ (open = <<>> <=> Len(open) = 0) /\ Arrived.n = Len(open) + 1
      <4>1. IsSeq(open) /\ Len(open) \in Nat /\ (open = <<>> <=> Len(open) = 0)
        BY <1>5, SeqFacts
      <4>2. open = <<>> => Arrived.n = Len(open) + 1
        BY <1>2, <4>1
      <4> QED
        BY <1>2, <4>1, <4>2
    <3>2. \A i \in 1..Len(open): open[i] = Message(k, i)
      <4>1. open # <<>> => k = open[1].req
        BY <1>2
      <4>2. \A i \in 1..Len(open): open[i] = Message(open[1].req, i)
        BY DEF IInv, PipeInv
      <4> QED
        BY <3>1, <4>1, <4>2
    <3> DEFINE a == Append(open, Arrived)
    <3>3. /\ IsSeq(a) /\ DOMAIN a = 1..Messages(k) /\ Messages(k) = Len(open) + 1 /\ a[Len(open) + 1] = Arrived
          /\ \A i \in 1..Len(open): a[i] = open[i]
      BY <2>1, <3>1, AppendFacts, SeqFacts
    <3>4. a = [i \in DOMAIN a |-> a[i]]
      <4>1. PICK S: a \in Seq(S)
        BY <3>3 DEF IsSeq
      <4> HIDE DEF a
      <4>2. PICK n \in Nat: a \in [1..n -> S]
        BY <4>1, SeqDef
      <4> QED
        BY <4>2
    <3> HIDE DEF a
    <3>5. \A i \in 1..Messages(k): i \in 1..Len(open) \/ i = Len(open) + 1
      BY <3>1, <3>3
    <3>6. \A i \in 1..Messages(k): a[i] = Message(k, i)
      BY <1>2, <3>1, <3>2, <3>3, <3>5
    <3>7. a = [i \in 1..Messages(k) |-> Message(k, i)]
      BY <3>3, <3>4, <3>6
    <3> QED
      BY <3>7 DEF a, Complete
  <2>6. ok => /\ DOMAIN library' = Numbers
              /\ \A j \in Numbers \ {Subject(k)}: library'[j] = library[j]
              /\ Shows(library', k)
    <3>1. ASSUME ok
          PROVE  /\ DOMAIN library' = Numbers
                 /\ \A j \in Numbers \ {Subject(k)}: library'[j] = library[j]
      BY <1>3, <1>5, <2>1, <2>2, <3>1 DEF Granted
    <3>2. Subject(k) \in Numbers /\ DOMAIN library = Numbers
      BY <1>3, <1>5, <2>1
    <3>3. CASE Request(k).kind = "photo"
      BY <1>3, <2>2, <3>2, <3>3 DEF Granted, Shows, Subject
    <3>4. CASE Request(k).kind = "delete"
      BY <1>3, <2>2, <3>2, <3>4 DEF Granted, Shows
    <3>5. CASE Request(k).kind = "hide"
      BY <1>3, <2>2, <3>2, <3>5 DEF Granted, Shows
    <3>6. CASE Request(k).kind = "show"
      BY <1>3, <2>2, <3>2, <3>6 DEF Granted, Shows
    <3>7. Request(k).kind \in {"photo", "delete", "hide", "show"}
      BY <1>3, <2>1 DEF Requests, Changes
    <3> QED
      BY <3>1, <3>3, <3>4, <3>5, <3>6, <3>7
  <2>7. LibraryInv'
    <3>1. ASSUME NEW j \in Numbers, did'[j] = "ok", Request(j).kind # "list",
                 \A i \in Numbers: i > j /\ did'[i] # "nothing" /\ Request(i).kind # "list" => Subject(i) # Subject(j)
          PROVE  Shows(library', j)
      <4>1. CASE j = k
        <5>1. ok
          BY <1>2, <1>5, <2>2, <3>1, <4>1
        <5> QED
          BY <2>6, <4>1, <5>1
      <4>2. CASE j # k
        <5>1. did[j] = "ok" /\ j < k /\ did'[k] # "nothing"
          BY <1>2, <1>5, <2>2, <3>1, <4>2
        <5>2. Subject(k) # Subject(j)
          BY <1>2, <1>3, <2>1, <3>1, <5>1
        <5>3. \A i \in Numbers: did[i] # "nothing" => did'[i] # "nothing"
          BY <1>2, <1>5, <2>2
        <5>4. Shows(library, j)
          BY <3>1, <5>1, <5>3 DEF IInv, LibraryInv
        <5>5. Subject(j) \in Numbers /\ (Request(j).kind = "photo" => Subject(j) = j)
          BY <3>1, RequestFacts DEF IInv, TypeInv, Subject
        <5>6. library'[Subject(j)] = library[Subject(j)]
          BY <2>2, <2>6, <5>2, <5>5
        <5>7. Request(j).kind \in {"photo", "delete", "hide", "show"}
          BY <3>1, RequestFacts DEF IInv, TypeInv, Requests, Changes
        <5>8. Request(j).kind = "photo" => Shows(library', j)
          BY <5>4, <5>5, <5>6 DEF Shows
        <5>9. Request(j).kind = "delete" => Shows(library', j)
          BY <5>4, <5>6 DEF Shows
        <5>10. Request(j).kind = "hide" => Shows(library', j)
          BY <5>4, <5>6 DEF Shows
        <5>11. Request(j).kind = "show" => Shows(library', j)
          BY <5>4, <5>6 DEF Shows
        <5> QED
          BY <5>7, <5>8, <5>9, <5>10, <5>11
      <4> QED
        BY <4>1, <4>2
    <3> QED
      BY <1>1, <3>1, SameProgram DEF LibraryInv
  <2>8. DOMAIN library' = Numbers
    BY <1>5, <2>2, <2>6
  <2> PICK m: m = Ack(k, ok)
    OBVIOUS
  <2>9. Answer(m)' /\ ~IsListing(m) /\ wire' \in {wire, Append(wire, m)}
    <3>1. did'[k] = IF ok THEN "ok" ELSE "refused"
      BY <1>2, <1>5, <2>2
    <3>2. m.type = "ack" /\ m.id = k /\ m.ok = ok
      BY DEF Ack
    <3> QED
      BY <1>1, <1>2, <2>2, <3>1, <3>2, SameProgram DEF Answer, IsListing
  <2>10. /\ did' \in [Numbers -> {"nothing", "ok", "refused"}]
         /\ did'[k] \in {"ok", "refused"} /\ (did'[k] = "ok" <=> ok)
         /\ \A j \in Numbers \ {k}: did'[j] = did[j]
    BY <1>2, <1>5, <2>2
  <2>11. /\ Request(k).kind # "list"
         /\ did'[k] = "ok" /\ ArrivedKind = "photo" => files'[k] = Complete(k)
    BY <1>3, <2>1, <2>4, <2>5, <2>10
  <2>12. DOMAIN files' = Numbers /\ \A j \in Numbers \ {k}: files'[j] = files[j]
    BY <2>4
  <2> QED
    BY <1>1, <2>1, <2>3, <2>7, <2>8, <2>9, <2>10, <2>11, <2>12, FinishKeeps
<1>8. ASSUME FrameLists
      PROVE  IInv'
  <2>1. /\ ArrivedKind = "list" /\ did' = [did EXCEPT ![k] = "ok"]
        /\ wire' \in {wire, Append(wire, Listing(library))}
        /\ UNCHANGED <<open, files, library>>
    BY <1>8 DEF FrameLists
  <2>2. open' = <<>> /\ Arrived.n = 1 /\ Messages(k) = 1
    BY <1>2, <1>3, <2>1
  <2>3. did'[k] = "ok" /\ \A j \in Numbers \ {k}: did'[j] = did[j]
    BY <1>2, <1>5, <2>1
  <2>4. LibraryInv'
    <3>1. ASSUME NEW j \in Numbers, did'[j] = "ok", Request(j).kind # "list",
                 \A i \in Numbers: i > j /\ did'[i] # "nothing" /\ Request(i).kind # "list" => Subject(i) # Subject(j)
          PROVE  Shows(library, j)
      <4>1. j # k /\ did[j] = "ok"
        BY <1>3, <2>1, <2>3, <3>1
      <4>2. \A i \in Numbers: did[i] # "nothing" => did'[i] # "nothing"
        BY <1>2, <2>3
      <4> QED
        BY <3>1, <4>1, <4>2 DEF IInv, LibraryInv
    <3> QED
      BY <1>1, <2>1, <3>1, SameProgram DEF LibraryInv
  <2>5. k = req /\ sent = 1
    <3>1. ~(k < req)
      BY <1>2, <1>3, <1>4, <2>1 DEF IInv, OutcomeInv
    <3>2. k = req /\ 1 <= sent
      BY <1>2, <2>2, <3>1
    <3>3. sent <= Messages(k)
      BY <1>2, <3>2 DEF IInv, TypeInv
    <3> QED
      BY <1>2, <2>2, <3>2, <3>3
  <2>6. Tells(library, k)
    <3>1. ASSUME NEW j \in Numbers, j < k, did[j] = "ok", Request(j).kind # "list",
                 \A i \in (j + 1)..(k - 1): Request(i).kind # "list" => Subject(i) # Subject(j)
          PROVE  Shows(library, j)
      <4>1. \A i \in Numbers: i > j /\ did[i] # "nothing" => i \in (j + 1)..(k - 1)
        BY <1>2
      <4> QED
        BY <3>1, <4>1 DEF IInv, LibraryInv
    <3> QED
      BY <3>1 DEF Tells
  <2> PICK m, l: m = Listing(library) /\ l = k
    OBVIOUS
  <2>7. Tells(m.items, l)'
    <3>1. l \in Numbers /\ did[l] = "nothing" /\ \A j \in Numbers \ {l}: did'[j] = did[j]
      BY <1>2, <2>3
    <3>2. \A items: Tells(items, l)' <=> Tells(items, l)
      BY <1>1, <1>2, <3>1, TellsKeeps
    <3> QED
      BY <2>6, <3>2 DEF Listing
  <2>8. Answer(m)'
    <3>1. m.type = "list"
      BY DEF Listing
    <3>2. req' = l /\ sent' = 1 /\ Numbers' = Numbers /\ l \in Numbers /\ did'[l] = "ok"
      BY <1>1, <1>2, <1>4, <2>3, <2>5, SameProgram
    <3>3. Request(l)' = Request(l) /\ Request(l).kind = "list"
      BY <1>1, <1>3, <2>1, SameProgram
    <3> QED
      BY <2>7, <3>1, <3>2, <3>3 DEF Answer
  <2>9. wire' \in {wire, Append(wire, m)}
    BY <2>1
  <2>10. ArrivedKind # "photo" /\ Arrived.n = Messages(k)
    BY <2>1, <2>2
  <2>11. /\ DOMAIN files' = Numbers /\ \A j \in Numbers \ {k}: files'[j] = files[j]
         /\ DOMAIN library' = Numbers /\ Request(k).kind = "list"
    BY <1>3, <1>5, <2>1
  <2>12. did' \in [Numbers -> {"nothing", "ok", "refused"}]
    BY <1>2, <1>5, <2>1
  <2> QED
    BY <1>1, <1>4, <2>2, <2>3, <2>4, <2>8, <2>9, <2>10, <2>11, <2>12, FinishKeeps
<1> QED
  BY <1>6, <1>7, <1>8 DEF FrameWorks

-------------------------------------------------------------------------------

LEMMA InitInv == ASSUME Init PROVE IInv
<1>1. /\ program \in Programs /\ program.gets \in Seq(Photos) /\ program.requests \in Seq(Requests)
      /\ Len(program.requests) \in Nat /\ Numbers = 1..Len(program.requests)
      /\ req = 1 /\ sent = 0
  BY PhotosAssumption, RequestsAssumption DEF Init, FetchInit, Numbers
<1>2. /\ outcomes = <<>> /\ queue = <<>> /\ wire = <<>> /\ toFrame = <<>> /\ open = <<>>
      /\ \A k \in Numbers: did[k] = "nothing"
  BY DEF Init, FetchInit
<1>3. TypeInv
  <2>1. \A k \in Numbers: k = req => sent <= Messages(k)
    BY <1>1, RequestFacts
  <2> QED
    BY <1>1, <1>2, <2>1, EmptyFacts DEF Init, TypeInv
<1>4. FrameInv
  BY <1>1 DEF Init, FetchInit, FrameInv
<1>5. PipeInv
  BY <1>1, <1>2 DEF PipeInv
<1>6. DeedInv /\ LibraryInv /\ OutcomeInv
  BY <1>1, <1>2 DEF DeedInv, LibraryInv, OutcomeInv, Settled
<1>7. AnswerInv /\ OneListing
  BY <1>2, EmptyFacts DEF AnswerInv, OneListing
<1> QED
  BY <1>3, <1>4, <1>5, <1>6, <1>7 DEF IInv

LEMMA StutterKeeps == ASSUME IInv, UNCHANGED vars PROVE IInv'
<1>1. FrameInv' /\ OneListing' /\ IsSeq(queue') /\ IsSeq(wire') /\ In(queue') = In(queue) /\ In(wire') = In(wire)
  BY DEF IInv, TypeInv, FrameInv, OneListing, In
<1> QED
  BY <1>1, Undisturbed DEF Running

LEMMA NextKeeps == ASSUME IInv, [Next]_vars PROVE IInv'
BY FetchingKeeps, RequestingKeeps, FrameWorksKeeps, ElsewhereKeeps, StutterKeeps DEF Next

LEMMA InvSuffices == ASSUME IInv PROVE AnsweredIsDone
<1>1. ASSUME NEW k \in Numbers, Settled(k, "ok"), Request(k).kind = "photo"
      PROVE  files[k] = [n \in 1..Messages(k) |-> Message(k, n)]
  BY <1>1 DEF IInv, OutcomeInv, DeedInv, Complete
<1>2. ASSUME NEW j \in Numbers, NEW l \in Numbers,
             j < l, Request(j).kind # "list", Settled(j, "ok"),
             Request(l).kind = "list", Settled(l, "ok"),
             \A i \in (j + 1)..(l - 1): Request(i).kind # "list" => Subject(i) # Subject(j)
      PROVE  Shows(outcomes[l].items, j)
  <2>1. did[j] = "ok" /\ Tells(outcomes[l].items, l)
    BY <1>2 DEF IInv, OutcomeInv
  <2> QED
    BY <1>2, <2>1 DEF Tells
<1>3. \A k \in Numbers: \A what \in {"ok", "refused"}: Settled(k, what) => did[k] = what
  BY DEF IInv, OutcomeInv
<1> QED
  BY <1>1, <1>2, <1>3 DEF AnsweredIsDone

\* The inductive invariant holds throughout.
THEOREM Invariance == Spec => []IInv
<1>1. Init => IInv
  BY InitInv
<1>2. IInv /\ [Next]_vars => IInv'
  BY NextKeeps
<1> QED
  BY <1>1, <1>2, PTL DEF Spec

\* Whatever is confirmed or refused was done or refused by the frame for that
\* very request, a photo confirmed is stored whole, and a later listing shows
\* what was confirmed last, for programs and photos of any length.
THEOREM AnsweredIsDoneHolds == Spec => []AnsweredIsDone
<1>1. IInv => AnsweredIsDone
  BY InvSuffices
<1> QED
  BY <1>1, Invariance, PTL

-------------------------------------------------------------------------------
(* The photos *)

Fetched(m) == m.type \in {"data", "media"}
Reaches(m) == IF m.type = "media" THEN 0 ELSE m.k
GoesOn(m, next) == next.type = "data" => next.of = m.of /\ next.k = Reaches(m) + 1

\* What the client has not read, and the segment the frame stopped at.
Unread == queue \o wire
Pending == IF stalled = NotStalled THEN <<>> ELSE <<Segment(stalled.of, stalled.from)>>
Line == Unread \o Pending

Adjacent(s, i, j) == i < j /\ Fetched(s[i]) /\ Fetched(s[j]) /\ \A n \in (i + 1)..(j - 1): ~Fetched(s[n])
First(s, j) == Fetched(s[j]) /\ \A n \in 1..(j - 1): ~Fetched(s[n])

\* Segments follow their header or the segment before, whatever lies between.
Chained(s) == \A i, j \in 1..Len(s): Adjacent(s, i, j) => GoesOn(s[i], s[j])

Genuine(m) ==
  /\ m.type = "data" => m = Segment(m.of, m.k) /\ m.of \in Photos /\ m.k \in 1..LastSegment(m.of)
  /\ m.type = "media" => m = Header(m.of) /\ m.of \in Photos
  /\ m.type = "error" => m = Refusal(m.of) /\ m.of \in Photos

LineInv == (\A m \in In(Line): Genuine(m)) /\ Chained(Line)

\* Nothing is about a photo that was not asked for yet.
Gotten == {program.gets[j] : j \in 1..call}
GottenInv ==
  Running => /\ \A m \in In(Line): m.type \in Media => m.of \in Gotten
             /\ In(asked) \subseteq Gotten /\ header \in Gotten \cup {NoPhoto}

OnlyOf(s, p) == \A i \in 1..Len(s): Fetched(s[i]) => s[i].of = p
Sorted(s, p) == \A i, j \in 1..Len(s): i < j /\ Fetched(s[i]) /\ Fetched(s[j]) /\ s[i].of = p => s[j].of = p

\* Once photo p is begun, nothing else is to come.
NothingAfter(p) ==
  /\ Sorted(Line, p)
  /\ \A i, j \in 1..Len(asked): i < j /\ asked[i] = p => asked[j] = p
  /\ (\E m \in In(Line): Fetched(m) /\ m.of = p) => In(asked) \subseteq {p}
  /\ header = p => OnlyOf(Line, p) /\ In(asked) \subseteq {p}

OrderInv == Running /\ Unbroken(call) => NothingAfter(Wanted)

Followed == ~echoes \/ Unbroken(call)

\* What was gathered is the beginning of the photo announced, and the next
\* segment to come, if no header comes first, is the one that follows it.
Fits == \A j \in 1..Len(Line): First(Line, j) /\ Line[j].type = "data" =>
          Line[j].of = header /\ Len(acc) = (Line[j].k - 1) * Chunk

GatherInv ==
  /\ header # NoPhoto => Running /\ cpc = "await"
  /\ header # NoPhoto /\ echoes => header = Wanted
  /\ header # NoPhoto /\ Followed =>
       Len(acc) < Total(header) /\ acc = Pieces(header, 1, Len(acc)) /\ Fits

ResultInv == RightPhoto /\ NoFalseRefusal

PhotoInv == LineInv /\ GottenInv /\ OrderInv /\ GatherInv /\ ResultInv

-------------------------------------------------------------------------------
(* Sequences of messages *)

LEMMA JoinFacts ==
  ASSUME NEW s, NEW t, IsSeq(s), IsSeq(t)
  PROVE  /\ IsSeq(s \o t) /\ Len(s \o t) = Len(s) + Len(t) /\ Len(s) \in Nat /\ Len(t) \in Nat
         /\ \A i \in 1..Len(s): (s \o t)[i] = s[i]
         /\ \A i \in 1..Len(t): (s \o t)[Len(s) + i] = t[i]
         /\ In(s \o t) = In(s) \cup In(t)
<1>1. PICK S, T: s \in Seq(S) /\ t \in Seq(T)
  BY DEF IsSeq
<1>2. s \in Seq(S \cup T) /\ t \in Seq(S \cup T)
  BY <1>1
<1>3. /\ s \o t \in Seq(S \cup T) /\ Len(s \o t) = Len(s) + Len(t) /\ Len(s) \in Nat /\ Len(t) \in Nat
      /\ \A i \in 1..Len(s): (s \o t)[i] = s[i]
      /\ \A i \in 1..Len(t): (s \o t)[Len(s) + i] = t[i]
  BY <1>2
<1>4. IsSeq(s \o t)
  BY <1>3 DEF IsSeq
<1>5. \A i \in 1..(Len(s) + Len(t)): i \in 1..Len(s) \/ (i - Len(s) \in 1..Len(t) /\ i = Len(s) + (i - Len(s)))
  BY <1>3
<1>6. /\ In(s) = {s[i] : i \in 1..Len(s)} /\ In(t) = {t[i] : i \in 1..Len(t)}
      /\ In(s \o t) = {(s \o t)[i] : i \in 1..(Len(s) + Len(t))}
  <2>1. In(s) = {s[i] : i \in 1..Len(s)} /\ In(t) = {t[i] : i \in 1..Len(t)}
    BY SeqFacts
  <2>2. In(s \o t) = {(s \o t)[i] : i \in 1..Len(s \o t)}
    BY <1>4, SeqFacts
  <2> QED
    BY <1>3, <2>1, <2>2
<1>7. In(s \o t) \subseteq In(s) \cup In(t)
  BY <1>3, <1>5, <1>6
<1>8. In(s) \subseteq In(s \o t)
  BY <1>3, <1>6
<1>9. In(t) \subseteq In(s \o t)
  <2>1. ASSUME NEW i \in 1..Len(t) PROVE t[i] \in In(s \o t)
    BY <1>3, <1>6
  <2> QED
    BY <1>6, <2>1
<1> QED
  BY <1>3, <1>4, <1>7, <1>8, <1>9

\* What is left of s when the first ones are gone.
Suffix(s, t, gone) == /\ IsSeq(s) /\ IsSeq(t) /\ gone \in 0..Len(s) /\ Len(t) = Len(s) - gone
                      /\ \A i \in 1..Len(t): t[i] = s[i + gone]

LEMMA SuffixKeeps ==
  ASSUME NEW s, NEW t, NEW gone, Suffix(s, t, gone)
  PROVE  /\ In(t) \subseteq In(s)
         /\ Chained(s) => Chained(t)
         /\ \A p: (Sorted(s, p) => Sorted(t, p)) /\ (OnlyOf(s, p) => OnlyOf(t, p))
<1>1. /\ Len(s) \in Nat /\ gone \in Nat /\ Len(t) \in Nat
      /\ \A i \in 1..Len(t): i + gone \in 1..Len(s) /\ t[i] = s[i + gone]
  BY SeqFacts DEF Suffix
<1>2. In(t) \subseteq In(s)
  BY <1>1, SeqFacts DEF Suffix
<1>3. ASSUME Chained(s), NEW i \in 1..Len(t), NEW j \in 1..Len(t), Adjacent(t, i, j)
      PROVE  GoesOn(t[i], t[j])
  <2>1. ASSUME NEW n \in (i + gone + 1)..(j + gone - 1)
        PROVE  ~Fetched(s[n])
    <3>1. n - gone \in (i + 1)..(j - 1) /\ n - gone \in 1..Len(t) /\ n = (n - gone) + gone
      BY <1>1, <2>1
    <3> QED
      BY <1>1, <1>3, <3>1 DEF Adjacent
  <2>2. Adjacent(s, i + gone, j + gone)
    BY <1>1, <1>3, <2>1 DEF Adjacent
  <2> QED
    BY <1>1, <1>3, <2>2 DEF Chained
<1>4. ASSUME NEW p PROVE (Sorted(s, p) => Sorted(t, p)) /\ (OnlyOf(s, p) => OnlyOf(t, p))
  <2>1. ASSUME Sorted(s, p), NEW i \in 1..Len(t), NEW j \in 1..Len(t),
               i < j, Fetched(t[i]), Fetched(t[j]), t[i].of = p
        PROVE  t[j].of = p
    <3>1. /\ i + gone \in 1..Len(s) /\ j + gone \in 1..Len(s) /\ i + gone < j + gone
          /\ t[i] = s[i + gone] /\ t[j] = s[j + gone]
      BY <1>1, <2>1
    <3> QED
      BY <2>1, <3>1 DEF Sorted
  <2>2. OnlyOf(s, p) => OnlyOf(t, p)
    BY <1>1 DEF OnlyOf
  <2>3. Sorted(s, p) => Sorted(t, p)
    BY <2>1 DEF Sorted
  <2> QED
    BY <2>2, <2>3
<1> QED
  BY <1>2, <1>3, <1>4 DEF Chained

\* A run of messages behind others: it begins with a header, or goes on.
LEMMA ChainedJoin ==
  ASSUME NEW s, NEW t, IsSeq(s), IsSeq(t), Chained(s), Chained(t),
         t # <<>> => /\ Fetched(t[1])
                     /\ \/ t[1].type = "media"
                        \/ s # <<>> /\ Fetched(s[Len(s)]) /\ GoesOn(s[Len(s)], t[1])
                        \/ Chained(s \o <<t[1]>>)
  PROVE  Chained(s \o t)
<1> DEFINE u == s \o t
<1>1. /\ Len(u) = Len(s) + Len(t) /\ Len(s) \in Nat /\ Len(t) \in Nat
      /\ \A i \in 1..Len(s): u[i] = s[i]
      /\ \A i \in 1..Len(t): u[Len(s) + i] = t[i]
  BY JoinFacts
<1>2. (t = <<>> <=> Len(t) = 0) /\ (s = <<>> <=> Len(s) = 0)
  BY SeqFacts
<1> HIDE DEF u
<1> SUFFICES ASSUME NEW i \in 1..Len(u), NEW j \in 1..Len(u), Adjacent(u, i, j)
             PROVE  GoesOn(u[i], u[j])
  BY DEF Chained, u
<1>3. i < j /\ Fetched(u[i]) /\ Fetched(u[j]) /\ \A n \in (i + 1)..(j - 1): ~Fetched(u[n])
  BY DEF Adjacent
<1>4. CASE j <= Len(s)
  <2>1. i \in 1..Len(s) /\ j \in 1..Len(s)
    BY <1>1, <1>3, <1>4
  <2>2. \A n \in (i + 1)..(j - 1): n \in 1..Len(s)
    BY <1>1, <1>4
  <2>3. Adjacent(s, i, j)
    BY <1>1, <1>3, <2>1, <2>2 DEF Adjacent
  <2> QED
    BY <1>1, <2>1, <2>3 DEF Chained
<1>5. CASE i > Len(s)
  <2>1. /\ i - Len(s) \in 1..Len(t) /\ j - Len(s) \in 1..Len(t)
        /\ u[i] = t[i - Len(s)] /\ u[j] = t[j - Len(s)]
    <3>1. i = Len(s) + (i - Len(s)) /\ j = Len(s) + (j - Len(s)) /\ i - Len(s) \in 1..Len(t) /\ j - Len(s) \in 1..Len(t)
      BY <1>1, <1>3, <1>5
    <3> QED
      BY <1>1, <3>1
  <2>2. ASSUME NEW n \in (i - Len(s) + 1)..(j - Len(s) - 1)
        PROVE  ~Fetched(t[n])
    <3>1. n \in 1..Len(t) /\ Len(s) + n \in (i + 1)..(j - 1)
      BY <1>1, <1>5, <2>2
    <3> QED
      BY <1>1, <1>3, <3>1
  <2>3. Adjacent(t, i - Len(s), j - Len(s))
    BY <1>1, <1>3, <2>1, <2>2 DEF Adjacent
  <2> QED
    BY <2>1, <2>3 DEF Chained
<1>6. CASE i <= Len(s) /\ j > Len(s)
  <2>1. t # <<>> /\ Len(s) + 1 \in 1..Len(u) /\ u[Len(s) + 1] = t[1] /\ Fetched(t[1])
    BY <1>1, <1>2, <1>6
  <2>2. j = Len(s) + 1
    BY <1>1, <1>3, <1>6, <2>1
  <2>3. CASE t[1].type = "media"
    BY <2>1, <2>2, <2>3 DEF GoesOn
  <2>4. CASE s # <<>> /\ Fetched(s[Len(s)]) /\ GoesOn(s[Len(s)], t[1])
    <3>1. Len(s) \in 1..Len(s) /\ u[Len(s)] = s[Len(s)]
      BY <1>1, <1>2, <2>4
    <3>2. i = Len(s)
      BY <1>1, <1>3, <1>6, <2>2, <2>4, <3>1
    <3> QED
      BY <2>1, <2>2, <2>4, <3>1, <3>2
  <2>5. CASE Chained(s \o <<t[1]>>)
    <3>1. <<t[1]>> \in Seq({t[1]}) /\ Len(<<t[1]>>) = 1 /\ <<t[1]>>[1] = t[1]
      OBVIOUS
    <3> DEFINE w == s \o <<t[1]>>
    <3>2. Len(w) = Len(s) + 1 /\ w[Len(s) + 1] = t[1] /\ \A n \in 1..Len(s): w[n] = s[n]
      BY <3>1, JoinFacts DEF IsSeq
    <3> HIDE DEF w
    <3>3. i \in 1..Len(w) /\ j \in 1..Len(w) /\ w[i] = u[i] /\ w[j] = u[j]
      BY <1>1, <1>6, <2>1, <2>2, <3>2
    <3>4. \A n \in (i + 1)..(j - 1): n \in 1..Len(s) /\ w[n] = u[n]
      BY <1>1, <1>6, <2>2, <3>2
    <3>5. Adjacent(w, i, j)
      BY <1>3, <3>3, <3>4 DEF Adjacent
    <3> QED
      BY <2>5, <3>3, <3>5 DEF Chained, w
  <2> QED
    BY <2>1, <2>3, <2>4, <2>5
<1> QED
  BY <1>1, <1>4, <1>5, <1>6

\* A message that is neither header nor segment, among the others.
LEMMA InsertKeeps ==
  ASSUME NEW s, NEW c, NEW m, IsSeq(s), IsSeq(c), Len(c) <= 1, ~Fetched(m)
  PROVE  LET t == s \o c
             u == Append(s, m) \o c
         IN  /\ IsSeq(u) /\ In(u) = In(t) \cup {m}
             /\ Chained(t) => Chained(u)
             /\ \A p: (Sorted(t, p) => Sorted(u, p)) /\ (OnlyOf(t, p) => OnlyOf(u, p))
             /\ \A j \in 1..Len(u): First(u, j) => \E i \in 1..Len(t): First(t, i) /\ t[i] = u[j]
<1> DEFINE t == s \o c
           u == Append(s, m) \o c
           f(i) == IF i <= Len(s) THEN i ELSE i - 1
<1>1. /\ Len(t) = Len(s) + Len(c) /\ Len(s) \in Nat /\ Len(c) \in Nat
      /\ \A i \in 1..Len(s): t[i] = s[i]
      /\ \A i \in 1..Len(c): t[Len(s) + i] = c[i]
      /\ In(t) = In(s) \cup In(c)
  BY JoinFacts
<1>2. /\ IsSeq(u) /\ Len(u) = Len(s) + 1 + Len(c)
      /\ \A i \in 1..Len(s): u[i] = s[i]
      /\ u[Len(s) + 1] = m
      /\ \A i \in 1..Len(c): u[Len(s) + 1 + i] = c[i]
      /\ In(u) = In(s) \cup {m} \cup In(c)
  <2> DEFINE a == Append(s, m)
  <2>1. /\ IsSeq(a) /\ Len(a) = Len(s) + 1 /\ a[Len(s) + 1] = m
        /\ \A i \in 1..Len(s): a[i] = s[i]
        /\ In(a) = In(s) \cup {m}
    BY AppendFacts
  <2> HIDE DEF a
  <2>2. /\ IsSeq(a \o c) /\ Len(a \o c) = Len(a) + Len(c)
        /\ \A i \in 1..Len(a): (a \o c)[i] = a[i]
        /\ \A i \in 1..Len(c): (a \o c)[Len(a) + i] = c[i]
        /\ In(a \o c) = In(a) \cup In(c)
    BY <2>1, JoinFacts
  <2> QED
    BY <1>1, <2>1, <2>2 DEF a
<1> HIDE DEF t, u
<1>3. \A i \in 1..Len(u): Fetched(u[i]) => i # Len(s) + 1 /\ f(i) \in 1..Len(t) /\ u[i] = t[f(i)]
  BY <1>1, <1>2
<1>4. \A i, j \in 1..Len(u): i < j /\ Fetched(u[i]) /\ Fetched(u[j]) => f(i) < f(j)
  BY <1>1, <1>2
<1>5. ASSUME NEW j \in 1..Len(u), Fetched(u[j]), NEW low \in Nat, \A n \in low..(j - 1): ~Fetched(u[n]),
             low >= 1, NEW n \in (IF low <= Len(s) + 1 THEN low ELSE low - 1)..(f(j) - 1)
      PROVE  n >= 1 => ~Fetched(t[n])
  <2>1. CASE n <= Len(s)
    BY <1>1, <1>2, <1>3, <1>5, <2>1
  <2>2. CASE n > Len(s)
    <3>1. n + 1 \in low..(j - 1) /\ n - Len(s) \in 1..Len(c)
      BY <1>1, <1>2, <1>3, <1>5, <2>2
    <3>2. u[n + 1] = c[n - Len(s)] /\ t[n] = c[n - Len(s)]
      <4>1. n + 1 = Len(s) + 1 + (n - Len(s)) /\ n = Len(s) + (n - Len(s))
        BY <1>1, <2>2
      <4> QED
        BY <1>1, <1>2, <3>1, <4>1
    <3> QED
      BY <1>5, <3>1, <3>2
  <2> QED
    BY <1>1, <2>1, <2>2
<1>6. ASSUME Chained(t) PROVE Chained(u)
  <2> SUFFICES ASSUME NEW i \in 1..Len(u), NEW j \in 1..Len(u), Adjacent(u, i, j)
               PROVE  GoesOn(u[i], u[j])
    BY DEF Chained
  <2>1. /\ i < j /\ Fetched(u[i]) /\ Fetched(u[j]) /\ \A n \in (i + 1)..(j - 1): ~Fetched(u[n])
        /\ f(i) < f(j) /\ f(i) \in 1..Len(t) /\ f(j) \in 1..Len(t) /\ u[i] = t[f(i)] /\ u[j] = t[f(j)]
    BY <1>3, <1>4 DEF Adjacent
  <2> DEFINE low == i + 1
  <2>2. low \in Nat /\ low >= 1 /\ \A n \in low..(j - 1): ~Fetched(u[n])
    BY <1>2, <2>1
  <2>3. \A n \in (f(i) + 1)..(f(j) - 1): n \in (IF low <= Len(s) + 1 THEN low ELSE low - 1)..(f(j) - 1) /\ n >= 1
    BY <1>1, <1>3, <2>1
  <2>4. \A n \in (f(i) + 1)..(f(j) - 1): ~Fetched(t[n])
    BY <1>5, <2>1, <2>2, <2>3
  <2> HIDE DEF f
  <2>5. Adjacent(t, f(i), f(j))
    BY <2>1, <2>4 DEF Adjacent
  <2> QED
    BY <1>6, <2>1, <2>5 DEF Chained
<1>7. ASSUME NEW p PROVE (Sorted(t, p) => Sorted(u, p)) /\ (OnlyOf(t, p) => OnlyOf(u, p))
  <2>1. Sorted(t, p) => Sorted(u, p)
    BY <1>3, <1>4 DEF Sorted
  <2>2. OnlyOf(t, p) => OnlyOf(u, p)
    BY <1>3 DEF OnlyOf
  <2> QED
    BY <2>1, <2>2
<1>8. ASSUME NEW j \in 1..Len(u), First(u, j)
      PROVE  \E i \in 1..Len(t): First(t, i) /\ t[i] = u[j]
  <2>1. Fetched(u[j]) /\ (\A n \in 1..(j - 1): ~Fetched(u[n])) /\ f(j) \in 1..Len(t) /\ u[j] = t[f(j)]
    BY <1>3, <1>8 DEF First
  <2> PICK low \in Nat: low = 1
    OBVIOUS
  <2>2. low >= 1 /\ \A n \in low..(j - 1): ~Fetched(u[n])
    BY <2>1
  <2>3. \A n \in 1..(f(j) - 1): n \in (IF low <= Len(s) + 1 THEN low ELSE low - 1)..(f(j) - 1) /\ n >= 1
    BY <1>1
  <2>4. \A n \in 1..(f(j) - 1): ~Fetched(t[n])
    BY <1>5, <2>1, <2>2, <2>3
  <2> HIDE DEF f
  <2> QED
    BY <2>1, <2>4 DEF First
<1>9. In(u) = In(t) \cup {m}
  BY <1>1, <1>2
<1> QED
  BY <1>2, <1>6, <1>7, <1>8, <1>9 DEF t, u

-------------------------------------------------------------------------------
(* Photos cut into segments *)

LEMMA DivideUp ==
  ASSUME NEW n \in Nat \ {0}, NEW c \in Nat \ {0}
  PROVE  LET q == (n + c - 1) \div c IN q \in Nat \ {0} /\ (q - 1) * c < n /\ n <= q * c
<1> DEFINE m == n + c - 1
           q == m \div c
<1>1. m \in Nat /\ m >= c
  OBVIOUS
<1>2. q \in Int /\ c * q <= m /\ m < c * q + c
  BY <1>1, Z3T(30)
<1> HIDE DEF q
<1>3. q * c <= m /\ m < q * c + c /\ (q - 1) * c = q * c - c
  BY <1>2
<1>4. q > 0
  <2>1. q * c > 0
    BY <1>1, <1>2, <1>3
  <2> QED
    BY <1>2, <2>1
<1> QED
  BY <1>2, <1>3, <1>4 DEF q

LEMMA CutFacts ==
  ASSUME NEW p \in Photos
  PROVE  /\ LastSegment(p) \in Nat \ {0} /\ Total(p) \in Nat \ {0} /\ Chunk \in Nat \ {0}
         /\ Size[p] \in Nat \ {0} /\ Size[p] <= Total(p)
         /\ (LastSegment(p) - 1) * Chunk < Total(p) /\ Total(p) <= LastSegment(p) * Chunk
<1>1. Size[p] \in Nat \ {0} /\ Extra[p] \in Nat /\ Chunk \in Nat \ {0}
  BY PhotosAssumption, BoundAssumption
<1>2. Total(p) \in Nat \ {0} /\ Size[p] <= Total(p)
  BY <1>1 DEF Total
<1> QED
  BY <1>1, <1>2, DivideUp DEF LastSegment

\* How many pieces the first k segments hold.
Upto(p, k) == IF k = LastSegment(p) THEN Total(p) ELSE k * Chunk

LEMMA UptoFacts ==
  ASSUME NEW p \in Photos, NEW k \in 1..LastSegment(p)
  PROVE  /\ (k - 1) * Chunk \in Nat /\ Upto(p, k) \in Nat
         /\ (k - 1) * Chunk < Upto(p, k) /\ Upto(p, k) <= Total(p)
         /\ k # LastSegment(p) => Upto(p, k) < Total(p) /\ Upto(p, k) = ((k + 1) - 1) * Chunk
         /\ Data(Segment(p, k)) = Pieces(p, (k - 1) * Chunk + 1, Upto(p, k))
<1> PICK c, l, t: c = Chunk /\ l = LastSegment(p) /\ t = Total(p)
  OBVIOUS
<1>1. /\ l \in Nat \ {0} /\ t \in Nat \ {0} /\ c \in Nat \ {0} /\ k \in Nat \ {0} /\ k <= l
      /\ (l - 1) * c < t /\ t <= l * c
  BY CutFacts
<1>2. (k - 1) * c \in Nat /\ k * c \in Nat /\ (l - 1) * c \in Nat
  BY <1>1
<1>3. (k - 1) * c = k * c - c
  BY <1>1
<1>4. k # l => k * c <= (l - 1) * c
  <2>1. ASSUME k # l PROVE k * c <= (l - 1) * c
    <3>1. PICK d \in Nat: l - 1 = k + d
      <4>1. (l - 1) - k \in Nat /\ l - 1 = k + ((l - 1) - k)
        BY <1>1, <2>1
      <4> QED
        BY <4>1
    <3>2. (k + d) * c = k * c + d * c /\ d * c \in Nat
      BY <1>1, <3>1
    <3> QED
      BY <1>2, <3>1, <3>2
  <2> QED
    BY <2>1
<1>5. k = l => (k - 1) * c < t
  BY <1>1
<1>6. k # l => k * c < t
  BY <1>1, <1>2, <1>4
<1>7. Data(Segment(p, k)) = Pieces(p, (k - 1) * Chunk + 1, Upto(p, k))
  BY DEF Data, Segment, Upto
<1>8. Upto(p, k) = IF k = l THEN t ELSE k * c
  BY DEF Upto
<1>9. (k + 1) - 1 = k
  BY <1>1
<1> QED
  BY <1>1, <1>2, <1>3, <1>5, <1>6, <1>7, <1>8, <1>9

LEMMA PieceFacts ==
  ASSUME NEW p \in Photos, NEW n \in Nat, NEW to \in Nat, n <= to
  PROVE  /\ Pieces(p, n + 1, to) \in Seq(AnyPiece) /\ Len(Pieces(p, n + 1, to)) = to - n
         /\ \A i \in 1..(to - n): Pieces(p, n + 1, to)[i] = Piece(p, n + i)
<1> DEFINE b == Pieces(p, n + 1, to)
<1>1. to - n \in Nat /\ to - (n + 1) + 1 = to - n /\ \A i \in 1..(to - n): n + 1 + i - 1 = n + i
  OBVIOUS
<1>2. \A i \in 1..(to - n): Piece(p, n + i) \in AnyPiece
  BY DEF Piece, AnyPiece
<1>3. b = [i \in 1..(to - n) |-> Piece(p, n + i)]
  BY <1>1 DEF Pieces
<1> HIDE DEF b
<1>4. b \in Seq(AnyPiece) /\ Len(b) = to - n /\ \A i \in 1..(to - n): b[i] = Piece(p, n + i)
  BY <1>1, <1>2, <1>3
<1> QED
  BY <1>4 DEF b

LEMMA BeginFacts ==
  ASSUME NEW p \in Photos, NEW to \in Nat
  PROVE  /\ Pieces(p, 1, to) \in Seq(AnyPiece) /\ Len(Pieces(p, 1, to)) = to
         /\ \A i \in 1..to: Pieces(p, 1, to)[i] = Piece(p, i)
<1> PICK n \in Nat: n = 0
  OBVIOUS
<1>1. n <= to /\ n + 1 = 1 /\ to - n = to /\ \A i \in 1..to: n + i = i
  OBVIOUS
<1>2. /\ Pieces(p, n + 1, to) \in Seq(AnyPiece) /\ Len(Pieces(p, n + 1, to)) = to - n
      /\ \A i \in 1..(to - n): Pieces(p, n + 1, to)[i] = Piece(p, n + i)
  BY <1>1, PieceFacts
<1> QED
  BY <1>1, <1>2

\* Pieces up to n, and those behind them.
LEMMA PiecesJoin ==
  ASSUME NEW p \in Photos, NEW n \in Nat, NEW to \in Nat, n <= to
  PROVE  Pieces(p, 1, n) \o Pieces(p, n + 1, to) = Pieces(p, 1, to)
<1> DEFINE a == Pieces(p, 1, n)
           b == Pieces(p, n + 1, to)
           u == Pieces(p, 1, to)
<1>1. /\ a \in Seq(AnyPiece) /\ Len(a) = n /\ \A i \in 1..n: a[i] = Piece(p, i)
      /\ b \in Seq(AnyPiece) /\ Len(b) = to - n /\ \A i \in 1..(to - n): b[i] = Piece(p, n + i)
      /\ u \in Seq(AnyPiece) /\ Len(u) = to /\ \A i \in 1..to: u[i] = Piece(p, i)
  <2>1. a \in Seq(AnyPiece) /\ Len(a) = n /\ \A i \in 1..n: a[i] = Piece(p, i)
    BY BeginFacts
  <2>2. u \in Seq(AnyPiece) /\ Len(u) = to /\ \A i \in 1..to: u[i] = Piece(p, i)
    BY BeginFacts
  <2>3. b \in Seq(AnyPiece) /\ Len(b) = to - n /\ \A i \in 1..(to - n): b[i] = Piece(p, n + i)
    BY PieceFacts
  <2> QED
    BY <2>1, <2>2, <2>3
<1> HIDE DEF a, b, u
<1>2. a \o b \in Seq(AnyPiece) /\ Len(a \o b) = Len(a) + Len(b) /\ n + (to - n) = to
  BY <1>1
<1>3. ASSUME NEW i \in 1..to PROVE (a \o b)[i] = u[i]
  <2>1. CASE i <= n
    BY <1>1, <2>1
  <2>2. CASE i > n
    <3>1. i - n \in 1..(to - n) /\ n + (i - n) = i
      BY <2>2
    <3>2. (a \o b)[i] = b[i - n]
      BY <1>1, <2>2
    <3> QED
      BY <1>1, <3>1, <3>2
  <2>3. i <= n \/ i > n
    OBVIOUS
  <2> QED
    BY <2>1, <2>2, <2>3
<1>4. a \o b = u
  <2>1. Len(a \o b) = Len(u)
    BY <1>1, <1>2
  <2> QED
    BY <1>1, <1>2, <1>3, <2>1, SeqEqual
<1> QED
  BY <1>4 DEF a, b, u

\* The next segment behind the ones before it.
LEMMA GatherFacts ==
  ASSUME NEW p \in Photos, NEW k \in 1..LastSegment(p)
  PROVE  Pieces(p, 1, (k - 1) * Chunk) \o Data(Segment(p, k)) = Pieces(p, 1, Upto(p, k))
<1> PICK n: n = (k - 1) * Chunk
  OBVIOUS
<1>1. n \in Nat /\ Upto(p, k) \in Nat /\ n <= Upto(p, k) /\ Data(Segment(p, k)) = Pieces(p, n + 1, Upto(p, k))
  BY UptoFacts
<1> QED
  BY <1>1, PiecesJoin

\* finish keeps the photo and drops what the thumbnail brought.
LEMMA FinishFacts ==
  ASSUME NEW p \in Photos, NEW n \in Nat, n >= Size[p]
  PROVE  SubSeq(Pieces(p, 1, n), 1, Size[p]) = Whole(p)
<1> DEFINE a == Pieces(p, 1, n)
           b == SubSeq(a, 1, Size[p])
           w == Whole(p)
<1>1. Size[p] \in Nat \ {0}
  BY CutFacts
<1>3. a \in Seq(AnyPiece) /\ Len(a) = n /\ \A i \in 1..n: a[i] = Piece(p, i)
  BY BeginFacts
<1>4. w \in Seq(AnyPiece) /\ Len(w) = Size[p] /\ \A i \in 1..Size[p]: w[i] = Piece(p, i)
  BY <1>1, BeginFacts DEF Whole
<1> HIDE DEF a, w
<1>5. b \in Seq(AnyPiece) /\ Len(b) = Size[p] /\ \A i \in 1..Size[p]: b[i] = a[i]
  BY <1>1, <1>3
<1>6. b = w
  BY <1>1, <1>3, <1>4, <1>5, SeqEqual
<1> QED
  BY <1>6 DEF a, w

-------------------------------------------------------------------------------
(* What the frame sends of a photo *)

\* Messages that begin or go on with photo p, without a gap.
Block(b, p) == /\ IsSeq(b) /\ Chained(b)
               /\ \A m \in In(b): Fetched(m) /\ Genuine(m) /\ m.of = p

LEMMA OneFacts ==
  ASSUME NEW m
  PROVE  /\ IsSeq(<<m>>) /\ Len(<<m>>) = 1 /\ <<m>>[1] = m /\ In(<<m>>) = {m}
         /\ Chained(<<m>>)
<1>1. <<m>> \in Seq({m}) /\ Len(<<m>>) = 1 /\ <<m>>[1] = m
  OBVIOUS
<1>2. IsSeq(<<m>>)
  BY <1>1 DEF IsSeq
<1> PICK s: s = <<m>>
  OBVIOUS
<1>3. IsSeq(s) /\ Len(s) = 1 /\ s[1] = m
  BY <1>1, <1>2
<1>4. In(s) = {m} /\ Chained(s)
  BY <1>3, SeqFacts DEF Chained, Adjacent
<1> QED
  BY <1>3, <1>4

LEMMA HeaderBlock ==
  ASSUME NEW p \in Photos
  PROVE  Block(<<Header(p)>>, p) /\ Header(p).type = "media"
BY OneFacts DEF Block, Header, Fetched, Genuine

LEMMA SegmentsBlock ==
  ASSUME NEW p \in Photos, NEW from \in Nat \ {0}, NEW to \in Nat, to <= LastSegment(p), from <= to + 1
  PROVE  LET s == Segments(p, from, to)
         IN  Block(s, p) /\ Len(s) = to + 1 - from /\ \A i \in 1..Len(s): s[i] = Segment(p, from + i - 1)
<1> DEFINE n == to + 1 - from
           S == {Segment(p, from + i - 1) : i \in 1..n}
           s == Segments(p, from, to)
<1>1. n \in Nat /\ \A i \in 1..n: from + i - 1 \in 1..LastSegment(p)
  BY CutFacts
<1>2. s = [i \in 1..n |-> Segment(p, from + i - 1)]
  BY DEF Segments
<1>3. \A i \in 1..n: Segment(p, from + i - 1) \in S
  OBVIOUS
<1> HIDE DEF S
<1>4. s \in Seq(S) /\ Len(s) = n
  BY <1>1, <1>2, <1>3
<1>5. IsSeq(s)
  BY <1>4 DEF IsSeq
<1>6. \A i \in 1..n: s[i] = Segment(p, from + i - 1)
  BY <1>2
<1> HIDE DEF s
<1>7. \A i \in 1..n: Fetched(s[i]) /\ Genuine(s[i]) /\ s[i].of = p /\ s[i].type = "data" /\ s[i].k = from + i - 1
  <2>1. \A k \in 1..LastSegment(p): /\ Fetched(Segment(p, k)) /\ Genuine(Segment(p, k))
                                     /\ Segment(p, k).of = p /\ Segment(p, k).type = "data" /\ Segment(p, k).k = k
    BY DEF Segment, Fetched, Genuine
  <2> QED
    BY <1>1, <1>6, <2>1
<1>8. In(s) = {s[i] : i \in 1..n}
  BY <1>4, <1>5, SeqFacts
<1>9. Chained(s)
  <2> SUFFICES ASSUME NEW i \in 1..n, NEW j \in 1..n, Adjacent(s, i, j)
               PROVE  GoesOn(s[i], s[j])
    BY <1>4 DEF Chained
  <2>1. i < j /\ ~(i + 1 \in (i + 1)..(j - 1))
    BY <1>7 DEF Adjacent
  <2>2. j = i + 1
    BY <1>1, <2>1
  <2> QED
    BY <1>1, <1>7, <2>2 DEF GoesOn, Reaches
<1> QED
  BY <1>4, <1>5, <1>6, <1>7, <1>8, <1>9 DEF Block, s

\* A block behind a block.
LEMMA BlocksJoin ==
  ASSUME NEW p, NEW a, NEW b, Block(a, p), Block(b, p),
         b # <<>> => \/ b[1].type = "media"
                     \/ a # <<>> /\ GoesOn(a[Len(a)], b[1])
  PROVE  Block(a \o b, p)
<1>1. /\ IsSeq(a) /\ IsSeq(b) /\ Len(a) \in Nat /\ Len(b) \in Nat
      /\ (a = <<>> <=> Len(a) = 0) /\ (b = <<>> <=> Len(b) = 0)
      /\ In(a) = {a[i] : i \in 1..Len(a)} /\ In(b) = {b[i] : i \in 1..Len(b)}
  BY SeqFacts DEF Block
<1>2. (b # <<>> => Fetched(b[1])) /\ (a # <<>> => Fetched(a[Len(a)]))
  <2>1. (b # <<>> => b[1] \in In(b)) /\ (a # <<>> => a[Len(a)] \in In(a))
    BY <1>1
  <2> QED
    BY <2>1 DEF Block
<1>3. Chained(a \o b)
  BY <1>1, <1>2, ChainedJoin DEF Block
<1> QED
  BY <1>1, <1>3, JoinFacts DEF Block

\* A header, the segments up to one, and maybe the one that is still to come.
LEMMA AnswerBlock ==
  ASSUME NEW p \in Photos, NEW n \in 0..LastSegment(p),
         NEW rest, rest = <<>> \/ (n < LastSegment(p) /\ rest = <<Segment(p, n + 1)>>)
  PROVE  LET b == (<<Header(p)>> \o Segments(p, 1, n)) \o rest
         IN  Block(b, p) /\ Len(b) >= 1 /\ b[1] = Header(p)
<1> DEFINE h == <<Header(p)>>
           s == Segments(p, 1, n)
           a == h \o s
           b == a \o rest
<1>1. n \in Nat /\ n <= LastSegment(p) /\ 1 <= n + 1 /\ LastSegment(p) \in Nat
  BY CutFacts
<1>2. Block(h, p) /\ IsSeq(h) /\ Len(h) = 1 /\ h[1] = Header(p) /\ Header(p).type = "media"
  BY HeaderBlock, OneFacts
<1>3. Block(s, p) /\ IsSeq(s) /\ Len(s) = n /\ \A i \in 1..n: s[i] = Segment(p, i)
  <2>1. n + 1 - 1 = n /\ \A i \in 1..n: 1 + i - 1 = i
    BY <1>1
  <2>2. Block(s, p) /\ Len(s) = n + 1 - 1 /\ \A i \in 1..Len(s): s[i] = Segment(p, 1 + i - 1)
    BY <1>1, SegmentsBlock
  <2> QED
    BY <2>1, <2>2 DEF Block
<1>4. \A k: Segment(p, k).type = "data" /\ Segment(p, k).of = p /\ Segment(p, k).k = k
  BY DEF Segment
<1> HIDE DEF h, s
<1>5. IsSeq(a) /\ Len(a) = n + 1 /\ a[1] = Header(p) /\ \A i \in 1..n: a[1 + i] = Segment(p, i)
  <2> PICK x, y: x = h /\ y = s
    OBVIOUS
  <2>1. /\ IsSeq(x \o y) /\ Len(x \o y) = Len(x) + Len(y)
        /\ \A i \in 1..Len(x): (x \o y)[i] = x[i]
        /\ \A i \in 1..Len(y): (x \o y)[Len(x) + i] = y[i]
    <3>1. IsSeq(x) /\ IsSeq(y)
      BY <1>2, <1>3
    <3> QED
      BY <3>1, JoinFacts
  <2>2. Len(x) = 1 /\ Len(y) = n /\ x[1] = Header(p) /\ 1 \in 1..1 /\ 1 + n = n + 1
    BY <1>1, <1>2, <1>3
  <2>3. \A i \in 1..n: y[i] = Segment(p, i)
    BY <1>3
  <2> QED
    BY <2>1, <2>2, <2>3
<1>6. Block(a, p)
  <2>1. s # <<>> => h # <<>> /\ GoesOn(h[Len(h)], s[1])
    <3>1. s # <<>> => n >= 1
      BY <1>1, <1>3, SeqFacts
    <3>2. h # <<>>
      BY OneFacts, EmptyFacts DEF h
    <3>3. s # <<>> => s[1] = Segment(p, 1)
      BY <1>3, <3>1
    <3>4. h[Len(h)] = Header(p) /\ Header(p).of = p
      BY <1>2 DEF Header
    <3> QED
      BY <1>2, <1>4, <3>2, <3>3, <3>4 DEF GoesOn, Reaches
  <2> QED
    BY <1>2, <1>3, <2>1, BlocksJoin
<1>7. a # <<>> /\ a[Len(a)] = IF n = 0 THEN Header(p) ELSE Segment(p, n)
  BY <1>1, <1>5, SeqFacts
<1> HIDE DEF a
<1>8. CASE rest = <<>>
  <2>1. b = a
    <3>1. PICK S: a \in Seq(S)
      BY <1>5 DEF IsSeq
    <3> QED
      BY <1>8, <3>1
  <2> QED
    BY <1>1, <1>5, <1>6, <2>1 DEF a, h, s
<1>9. CASE n < LastSegment(p) /\ rest = <<Segment(p, n + 1)>>
  <2>1. Block(rest, p) /\ Len(rest) = 1 /\ rest[1] = Segment(p, n + 1) /\ rest # <<>>
    <3>1. Genuine(Segment(p, n + 1)) /\ Fetched(Segment(p, n + 1))
      BY <1>1, <1>4, <1>9 DEF Genuine, Fetched
    <3> QED
      BY <1>4, <1>9, <3>1, OneFacts, SeqFacts DEF Block
  <2>2. GoesOn(a[Len(a)], rest[1])
    <3>1. Header(p).of = p /\ Header(p).type = "media"
      BY DEF Header
    <3> QED
      BY <1>1, <1>4, <1>7, <2>1, <3>1 DEF GoesOn, Reaches
  <2>3. Block(b, p)
    BY <1>6, <1>7, <2>1, <2>2, BlocksJoin
  <2>4. Len(b) >= 1 /\ b[1] = Header(p)
    BY <1>1, <1>5, <2>1, JoinFacts DEF Block
  <2> QED
    BY <2>3, <2>4 DEF a, h, s
<1> QED
  BY <1>8, <1>9

-------------------------------------------------------------------------------
(* Steps of the client *)

LEMMA LineFacts ==
  ASSUME IInv
  PROVE  /\ IsSeq(queue) /\ IsSeq(wire) /\ IsSeq(Unread) /\ IsSeq(Pending) /\ Len(Pending) <= 1 /\ IsSeq(Line)
         /\ Len(Line) = Len(Unread) + Len(Pending) /\ In(Line) = In(Unread) \cup In(Pending)
         /\ In(Unread) = In(queue) \cup In(wire)
         /\ stalled = NotStalled => Pending = <<>>
         /\ stalled # NotStalled => stalled.of \in Photos /\ stalled.from \in Nat
<1>1. IsSeq(queue) /\ IsSeq(wire)
  BY DEF IInv, TypeInv
<1>2. IsSeq(Unread) /\ In(Unread) = In(queue) \cup In(wire)
  BY <1>1, JoinFacts DEF Unread
<1>3. IsSeq(Pending) /\ Len(Pending) <= 1
  BY EmptyFacts, OneFacts DEF Pending
<1>4. IsSeq(Line) /\ Len(Line) = Len(Unread) + Len(Pending) /\ In(Line) = In(Unread) \cup In(Pending)
  BY <1>2, <1>3, JoinFacts DEF Line
<1>5. stalled # NotStalled => stalled.of \in Photos /\ stalled.from \in Nat
  BY DEF IInv, FrameInv
<1> QED
  BY <1>1, <1>2, <1>3, <1>4, <1>5 DEF Pending

LEMMA SameMessages ==
  ASSUME echoes' = echoes
  PROVE  \A m: (Genuine(m)' <=> Genuine(m)) /\ (Fetched(m)' <=> Fetched(m))
BY DEF Genuine, Header, Refusal, Fetched

LEMMA SameCall ==
  ASSUME UNCHANGED <<program, call>>
  PROVE  Gotten' = Gotten /\ (Running' <=> Running) /\ Wanted' = Wanted /\ (Unbroken(call)' <=> Unbroken(call))
BY DEF Gotten, Running, Wanted, Unbroken, Same

LEMMA SameResults ==
  ASSUME UNCHANGED <<program, results, echoes>>, ResultInv
  PROVE  ResultInv'
BY DEF ResultInv, RightPhoto, NoFalseRefusal, Told, Unbroken, Same

\* A message is taken, or several are lost, while the same photo is wanted.
LEMMA ReadKeeps ==
  ASSUME IInv, PhotoInv, UNCHANGED <<program, call, results, asked, echoes>>,
         NEW gone, Suffix(Line, Line', gone), GatherInv',
         \/ header' \in {header, NoPhoto}
         \/ Line # <<>> /\ Fetched(Line[1]) /\ Line[1].of = header' /\ header' \in Photos
  PROVE  PhotoInv'
<1> PICK new: new = Line'
  OBVIOUS
<1>1. /\ Suffix(Line, new, gone) /\ In(new) \subseteq In(Line) /\ (Chained(Line) => Chained(new))
      /\ \A p: (Sorted(Line, p) => Sorted(new, p)) /\ (OnlyOf(Line, p) => OnlyOf(new, p))
  BY SuffixKeeps
<1>2. LineInv'
  BY <1>1, SameMessages DEF PhotoInv, LineInv
<1>3. Line # <<>> => Line[1] \in In(Line) /\ 1 \in 1..Len(Line) /\ Len(Line) \in Nat
  BY LineFacts, SeqFacts
<1>4. GottenInv'
  <2>1. Running /\ Line # <<>> /\ Fetched(Line[1]) => Line[1].of \in Gotten
    BY <1>3 DEF PhotoInv, GottenInv, Fetched, Media
  <2> QED
    BY <1>1, <2>1, SameCall DEF PhotoInv, GottenInv
<1>5. OrderInv'
  <2> SUFFICES ASSUME Running, Unbroken(call) PROVE NothingAfter(Wanted)'
    BY SameCall DEF OrderInv
  <2> PICK w: w = Wanted
    OBVIOUS
  <2>1. w' = w /\ Wanted' = w /\ NothingAfter(w)
    BY SameCall DEF PhotoInv, OrderInv
  <2>2. Sorted(new, w)
    BY <1>1, <2>1 DEF NothingAfter
  <2>3. (\E m \in In(new): Fetched(m) /\ m.of = w) => In(asked) \subseteq {w}
    BY <1>1, <2>1 DEF NothingAfter
  <2>4. header' = w => OnlyOf(new, w) /\ In(asked) \subseteq {w}
    <3>1. ASSUME Line # <<>>, Fetched(Line[1]), Line[1].of = w
          PROVE  OnlyOf(Line, w) /\ In(asked) \subseteq {w}
      <4>1. OnlyOf(Line, w)
        BY <1>3, <2>1, <3>1 DEF NothingAfter, Sorted, OnlyOf
      <4> QED
        BY <1>3, <2>1, <3>1, <4>1 DEF NothingAfter
    <3>2. header = w => OnlyOf(Line, w) /\ In(asked) \subseteq {w}
      BY <2>1 DEF NothingAfter
    <3>3. w # NoPhoto
      <4>1. program.gets \in Seq(Photos) /\ call \in 1..Len(program.gets)
        BY DEF Running, IInv, FrameInv
      <4>2. Wanted \in Photos
        BY <4>1 DEF Wanted
      <4> QED
        BY <4>2, PhotosAssumption
    <3> QED
      BY <1>1, <3>1, <3>2, <3>3
  <2> QED
    BY <2>1, <2>2, <2>3, <2>4 DEF NothingAfter
<1> QED
  BY <1>2, <1>4, <1>5, SameResults DEF PhotoInv

\* GetMedia returns, and the next photo is asked for.
LEMMA EndsKeeps ==
  ASSUME IInv, TypeOK, PhotoInv, Running, UNCHANGED <<program, asked, echoes>>,
         NEW gone, Suffix(Line, Line', gone),
         NEW what, NEW of, NEW data, Ends(what, of, data),
         Told(call) /\ Unbroken(call) => /\ what = "ok" => data = Whole(Wanted)
                                         /\ what = "refused" => of = Wanted,
         Followed => what # "surplus"
  PROVE  PhotoInv'
<1> PICK new: new = Line'
  OBVIOUS
<1>1. /\ IsSeq(new) /\ In(new) \subseteq In(Line) /\ (Chained(Line) => Chained(new))
      /\ \A p: (Sorted(Line, p) => Sorted(new, p)) /\ (OnlyOf(Line, p) => OnlyOf(new, p))
  BY SuffixKeeps DEF Suffix
<1>2. LineInv'
  BY <1>1, SameMessages DEF PhotoInv, LineInv
<1>3. /\ call' = call + 1 /\ header' = NoPhoto /\ call \in Nat \ {0}
      /\ program.gets \in Seq(Photos) /\ call \in 1..Len(program.gets)
  BY DEF Ends, IInv, FrameInv, Running
<1>4. Gotten \subseteq Gotten'
  BY <1>3 DEF Gotten
<1>5. (\A m \in In(new): m.type \in Media => m.of \in Gotten) /\ In(asked) \subseteq Gotten
  BY <1>1 DEF PhotoInv, GottenInv
<1>6. GottenInv'
  BY <1>3, <1>4, <1>5 DEF GottenInv
<1>7. OrderInv'
  <2> SUFFICES ASSUME Running', Unbroken(call)' PROVE NothingAfter(Wanted)'
    BY DEF OrderInv
  <2> PICK w: w = Wanted'
    OBVIOUS
  <2>1. w \in Photos /\ w = program.gets[call + 1] /\ call + 1 <= Len(program.gets) /\ w # NoPhoto
    BY <1>3, PhotosAssumption DEF Running, Wanted
  <2>2. CASE w = Wanted
    <3>1. Unbroken(call)
      <4>1. \A i \in 1..(call + 1): program.gets[i] = w => \A j \in i..(call + 1): program.gets[j] = w
        <5>1. Wanted' = program.gets[call + 1] /\ program' = program /\ call' = call + 1
          BY <1>3, <2>1
        <5> QED
          BY <2>1, <5>1 DEF Unbroken, Same
      <4>2. 1..call \subseteq 1..(call + 1) /\ \A i \in 1..call: i..call \subseteq i..(call + 1)
        BY <1>3
      <4> QED
        BY <2>2, <4>1, <4>2 DEF Unbroken, Same, Wanted
    <3>2. NothingAfter(w)
      BY <2>2, <3>1 DEF PhotoInv, OrderInv
    <3> QED
      BY <1>1, <1>3, <2>1, <3>2 DEF NothingAfter
  <2>3. CASE w # Wanted
    <3>1. w \notin Gotten
      <4>1. \A i \in 1..(call + 1): program.gets[i] = w => \A j \in i..(call + 1): program.gets[j] = w
        BY <1>3, <2>1 DEF Unbroken, Same
      <4>2. program.gets[call] # w
        BY <2>3 DEF Wanted
      <4> QED
        BY <1>3, <4>1, <4>2 DEF Gotten
    <3>2. \A m \in In(new): Fetched(m) => m.of # w
      BY <1>5, <3>1 DEF Fetched, Media
    <3>3. \A i \in 1..Len(new): new[i] \in In(new)
      BY <1>1, SeqFacts
    <3>4. Sorted(new, w)
      BY <3>2, <3>3 DEF Sorted
    <3>5. \A i \in 1..Len(asked): asked[i] # w
      <4>1. \A i \in 1..Len(asked): asked[i] \in In(asked)
        BY DEF IInv, FrameInv, In
      <4> QED
        BY <1>5, <3>1, <4>1
    <3> QED
      BY <1>3, <2>1, <3>2, <3>4, <3>5 DEF NothingAfter
  <2> QED
    BY <2>2, <2>3
<1>8. GatherInv'
  BY <1>3 DEF GatherInv
<1>9. ResultInv'
  <2>1. /\ Len(results) = call - 1 /\ results' = Append(results, [what |-> what, of |-> of, data |-> data])
        /\ IsSeq(results)
    BY DEF TypeOK, FetchTypes, Ends, IsSeq
  <2>2. /\ Len(results') = call /\ results'[call] = [what |-> what, of |-> of, data |-> data]
        /\ \A k \in 1..(call - 1): results'[k] = results[k]
    BY <1>3, <2>1, AppendFacts
  <2>3. \A k: (Told(k)' <=> Told(k)) /\ (Unbroken(k)' <=> Unbroken(k))
    BY DEF Told, Unbroken, Same
  <2>4. \A k \in 1..call: k \in 1..(call - 1) \/ k = call
    BY <1>3
  <2>5. RightPhoto'
    BY <1>3, <2>1, <2>2, <2>3, <2>4 DEF PhotoInv, ResultInv, RightPhoto, Wanted
  <2>6. NoFalseRefusal'
    BY <1>3, <2>1, <2>2, <2>3, <2>4 DEF PhotoInv, ResultInv, NoFalseRefusal, Followed
  <2> QED
    BY <2>5, <2>6 DEF ResultInv
<1> QED
  BY <1>2, <1>6, <1>7, <1>8, <1>9 DEF PhotoInv

LEMMA SuffixJoin ==
  ASSUME NEW s, NEW t, NEW c, NEW gone, Suffix(s, t, gone), IsSeq(c)
  PROVE  Suffix(s \o c, t \o c, gone)
<1>1. /\ IsSeq(s) /\ IsSeq(t) /\ gone \in 0..Len(s) /\ Len(t) = Len(s) - gone
      /\ \A i \in 1..Len(t): t[i] = s[i + gone]
  BY DEF Suffix
<1>2. /\ IsSeq(s \o c) /\ Len(s \o c) = Len(s) + Len(c) /\ Len(s) \in Nat /\ Len(c) \in Nat
      /\ \A i \in 1..Len(s): (s \o c)[i] = s[i]
      /\ \A i \in 1..Len(c): (s \o c)[Len(s) + i] = c[i]
  BY <1>1, JoinFacts
<1>3. /\ IsSeq(t \o c) /\ Len(t \o c) = Len(t) + Len(c) /\ Len(t) \in Nat
      /\ \A i \in 1..Len(t): (t \o c)[i] = t[i]
      /\ \A i \in 1..Len(c): (t \o c)[Len(t) + i] = c[i]
  <2>1. IsSeq(t) /\ IsSeq(c)
    BY <1>1
  <2> QED
    BY <2>1, JoinFacts
<1>4. ASSUME NEW i \in 1..Len(t \o c) PROVE (t \o c)[i] = (s \o c)[i + gone]
  <2>1. CASE i <= Len(t)
    <3>1. i \in 1..Len(t) /\ i + gone \in 1..Len(s)
      BY <1>1, <1>2, <1>3, <2>1
    <3> QED
      BY <1>1, <1>2, <1>3, <3>1
  <2>2. CASE i > Len(t)
    <3>1. i - Len(t) \in 1..Len(c) /\ i = Len(t) + (i - Len(t)) /\ i + gone = Len(s) + (i - Len(t))
      BY <1>1, <1>2, <1>3, <2>2
    <3> QED
      BY <1>2, <1>3, <3>1
  <2>3. i <= Len(t) \/ i > Len(t)
    BY <1>3
  <2> QED
    BY <2>1, <2>2, <2>3
<1>5. gone \in 0..Len(s \o c) /\ Len(t \o c) = Len(s \o c) - gone
  BY <1>1, <1>2, <1>3
<1> QED
  BY <1>2, <1>3, <1>4, <1>5 DEF Suffix

\* The head of the queue is taken, or everything is lost up to some message.
LEMMA TakenLine ==
  ASSUME IInv, queue # <<>>, queue' = Tail(queue), UNCHANGED <<wire, stalled>>
  PROVE  Suffix(Line, Line', 1) /\ Line # <<>> /\ Line[1] = Head(queue)
<1> PICK q, u: q = queue' /\ u = Unread'
  OBVIOUS
<1>1. Suffix(queue, q, 1) /\ Len(queue) >= 1 /\ Head(queue) = queue[1] /\ Len(queue) \in Nat
  BY TailFacts, SeqFacts, LineFacts DEF Suffix
<1>2. u = q \o wire
  BY DEF Unread
<1>3. Suffix(Unread, u, 1)
  BY <1>1, <1>2, LineFacts, SuffixJoin DEF Unread
<1>4. Line' = u \o Pending
  BY DEF Line, Pending, Segment
<1>5. Suffix(Line, u \o Pending, 1)
  BY <1>3, LineFacts, SuffixJoin DEF Line
<1>6. Unread[1] = queue[1] /\ 1 <= Len(Unread)
  BY <1>1, LineFacts, JoinFacts DEF Unread
<1>7. Line[1] = Unread[1] /\ 1 <= Len(Line)
  BY <1>6, LineFacts, JoinFacts DEF Line
<1>8. Line # <<>>
  BY <1>7, LineFacts, SeqFacts
<1> QED
  BY <1>1, <1>4, <1>5, <1>6, <1>7, <1>8

LEMMA LostLine ==
  ASSUME IInv, Discards, stalled' = stalled
  PROVE  \E gone: Suffix(Line, Line', gone)
<1> PICK lost \in 0..Len(wire): queue' = <<>> /\ wire' = SubSeq(wire, lost + 1, Len(wire))
  BY DEF Discards
<1> PICK w: w = wire'
  OBVIOUS
<1>1. IsSeq(w) /\ Len(w) = Len(wire) - lost /\ Len(wire) \in Nat /\ \A i \in 1..Len(w): w[i] = wire[i + lost]
  <2>1. PICK S: wire \in Seq(S)
    BY LineFacts DEF IsSeq
  <2>2. /\ SubSeq(wire, lost + 1, Len(wire)) \in Seq(S) /\ Len(SubSeq(wire, lost + 1, Len(wire))) = Len(wire) - lost
        /\ \A i \in 1..(Len(wire) - lost): SubSeq(wire, lost + 1, Len(wire))[i] = wire[lost + i]
    BY <2>1
  <2>3. Len(wire) \in Nat /\ \A i \in 1..Len(w): lost + i = i + lost
    BY <2>1, <2>2
  <2> QED
    BY <2>2, <2>3 DEF IsSeq
<1>2. Unread' = w
  <2>1. PICK S: w \in Seq(S)
    BY <1>1 DEF IsSeq
  <2>2. Unread' = <<>> \o w
    BY DEF Unread
  <2> QED
    BY <2>1, <2>2
<1>3. Suffix(Unread, w, Len(queue) + lost)
  <2>1. /\ IsSeq(Unread) /\ Len(Unread) = Len(queue) + Len(wire) /\ Len(queue) \in Nat
        /\ \A i \in 1..Len(wire): Unread[Len(queue) + i] = wire[i]
    BY LineFacts, JoinFacts DEF Unread
  <2>2. \A i \in 1..Len(w): i + lost \in 1..Len(wire) /\ i + (Len(queue) + lost) = Len(queue) + (i + lost)
    BY <1>1, <2>1
  <2> QED
    BY <1>1, <2>1, <2>2 DEF Suffix
<1>4. Line' = w \o Pending
  BY <1>2 DEF Line, Pending, Segment
<1>5. Suffix(Line, w \o Pending, Len(queue) + lost)
  BY <1>3, LineFacts, SuffixJoin DEF Line
<1> QED
  BY <1>4, <1>5

LEMMA SameLine ==
  ASSUME IInv, UNCHANGED <<queue, wire, stalled>>
  PROVE  Line' = Line /\ Suffix(Line, Line', 0)
<1>1. Line' = Line
  BY DEF Line, Unread, Pending, Segment
<1>2. Len(Line) \in Nat
  BY LineFacts, SeqFacts
<1> QED
  BY <1>1, <1>2, LineFacts DEF Suffix

\* What comes first behind the head.
LEMMA NextFetched ==
  ASSUME NEW s, NEW t, Suffix(s, t, 1), NEW j \in 1..Len(t), First(t, j)
  PROVE  /\ j + 1 \in 1..Len(s) /\ t[j] = s[j + 1] /\ 1 \in 1..Len(s)
         /\ IF Fetched(s[1]) THEN Adjacent(s, 1, j + 1) ELSE First(s, j + 1)
<1>1. /\ Len(s) \in Nat /\ Len(t) = Len(s) - 1 /\ \A i \in 1..Len(t): t[i] = s[i + 1]
  BY SeqFacts DEF Suffix
<1>2. j + 1 \in 1..Len(s) /\ t[j] = s[j + 1] /\ 1 \in 1..Len(s) /\ Fetched(s[j + 1]) /\ 1 < j + 1
  BY <1>1 DEF First
<1>3. ASSUME NEW n \in 2..j PROVE ~Fetched(s[n])
  <2>1. n - 1 \in 1..(j - 1) /\ n - 1 \in 1..Len(t) /\ (n - 1) + 1 = n
    BY <1>1, <1>3
  <2> QED
    BY <1>1, <2>1 DEF First
<1>4. \A n \in 1..j: n = 1 \/ n \in 2..j
  OBVIOUS
<1>5. (1 + 1)..((j + 1) - 1) = 2..j /\ 1..((j + 1) - 1) = 1..j
  OBVIOUS
<1> QED
  BY <1>2, <1>3, <1>4, <1>5 DEF Adjacent, First

\* While a photo that can be told is gathered, what comes first is it.
LEMMA GatheringOwn ==
  ASSUME IInv, PhotoInv, header # NoPhoto, Followed, Line # <<>>, Fetched(Line[1])
  PROVE  Line[1].type = "data" => Line[1].of = header /\ Len(acc) = (Line[1].k - 1) * Chunk
<1>1. 1 \in 1..Len(Line) /\ First(Line, 1)
  BY LineFacts, SeqFacts DEF First
<1> QED
  BY <1>1 DEF PhotoInv, GatherInv, Fits

\* What does not count leaves what was gathered as it is.
LEMMA PassedOver ==
  ASSUME IInv, PhotoInv, UNCHANGED <<program, callVars, accVars, echoes>>,
         Suffix(Line, Line', 1), header = NoPhoto \/ ~Fetched(Line[1])
  PROVE  GatherInv'
<1> PICK new: new = Line'
  OBVIOUS
<1>1. (Running' <=> Running) /\ Wanted' = Wanted /\ (Followed' <=> Followed)
  BY SameCall DEF Followed
<1>2. ASSUME header # NoPhoto, Followed, NEW j \in 1..Len(new), First(new, j), new[j].type = "data"
      PROVE  new[j].of = header /\ Len(acc) = (new[j].k - 1) * Chunk
  <2>1. j + 1 \in 1..Len(Line) /\ new[j] = Line[j + 1] /\ First(Line, j + 1)
    BY <1>2, NextFetched
  <2> QED
    BY <1>2, <2>1 DEF PhotoInv, GatherInv, Fits
<1> QED
  BY <1>1, <1>2 DEF PhotoInv, GatherInv, Fits

LEMMA AsksPhoto == ASSUME IInv, PhotoInv, Asks, program' = program PROVE PhotoInv'
<1>1. /\ Running /\ cpc = "ask" /\ asked' = Append(asked, Wanted) /\ IsSeq(asked)
      /\ UNCHANGED <<program, call, header, acc, results, stalled, echoes>>
  BY DEF Asks, IInv, FrameInv, IsSeq
<1>2. header = NoPhoto
  BY <1>1 DEF PhotoInv, GatherInv
<1>3. PICK gone: Suffix(Line, Line', gone)
  <2>1. CASE attempt > 1
    BY <1>1, <2>1, LostLine DEF Asks
  <2>2. CASE ~(attempt > 1)
    BY <1>1, <2>2, SameLine DEF Asks
  <2> QED
    BY <2>1, <2>2
<1> PICK new: new = Line'
  OBVIOUS
<1>4. /\ In(new) \subseteq In(Line) /\ (Chained(Line) => Chained(new))
      /\ \A p: (Sorted(Line, p) => Sorted(new, p))
  BY <1>3, SuffixKeeps
<1>5. LineInv'
  BY <1>1, <1>4, SameMessages DEF PhotoInv, LineInv
<1>6. /\ In(asked') = In(asked) \cup {Wanted} /\ Len(asked') = Len(asked) + 1 /\ Len(asked) \in Nat
      /\ asked'[Len(asked) + 1] = Wanted /\ \A i \in 1..Len(asked): asked'[i] = asked[i]
  BY <1>1, AppendFacts, SeqFacts
<1>7. Wanted \in Gotten
  BY <1>1 DEF Wanted, Gotten, IInv, FrameInv
<1>8. GottenInv'
  BY <1>1, <1>4, <1>6, <1>7, SameCall DEF PhotoInv, GottenInv
<1>9. OrderInv'
  <2> SUFFICES ASSUME Unbroken(call) PROVE NothingAfter(Wanted)'
    BY <1>1, SameCall DEF OrderInv
  <2> PICK w: w = Wanted
    OBVIOUS
  <2>1. Wanted' = w /\ NothingAfter(w)
    BY <1>1, SameCall DEF PhotoInv, OrderInv
  <2>2. \A i, j \in 1..Len(asked'): i < j /\ asked'[i] = w => asked'[j] = w
    <3>1. \A i \in 1..Len(asked'): i \in 1..Len(asked) \/ i = Len(asked) + 1
      BY <1>6
    <3>2. \A i, j \in 1..Len(asked): i < j /\ asked[i] = w => asked[j] = w
      BY <2>1 DEF NothingAfter
    <3> QED
      BY <1>6, <3>1, <3>2
  <2>3. (\E m \in In(new): Fetched(m) /\ m.of = w) => In(asked') \subseteq {w}
    BY <1>4, <1>6, <2>1 DEF NothingAfter
  <2>4. w # NoPhoto
    BY <1>1, PhotosAssumption DEF Running, Wanted, IInv, FrameInv
  <2> QED
    BY <1>1, <1>2, <1>4, <2>1, <2>2, <2>3, <2>4 DEF NothingAfter
<1>10. GatherInv'
  BY <1>1, <1>2 DEF GatherInv
<1> QED
  BY <1>1, <1>5, <1>8, <1>9, <1>10, SameResults DEF PhotoInv

\* What Takes has in hand.
LEMMA TakesFacts ==
  ASSUME IInv, PhotoInv, NEW type, Takes(type)
  PROVE  /\ Suffix(Line, Line', 1) /\ Line # <<>> /\ Line[1] = Head(queue) /\ Head(queue).type = type
         /\ Running /\ cpc = "await" /\ Genuine(Head(queue)) /\ Head(queue) \in In(Line)
         /\ UNCHANGED <<asked, stalled, echoes>>
         /\ Wanted \in Photos /\ Wanted # NoPhoto
<1>1. Suffix(Line, Line', 1) /\ Line # <<>> /\ Line[1] = Head(queue)
  BY TakenLine DEF Takes
<1>2. Line[1] \in In(Line)
  BY <1>1, LineFacts, SeqFacts
<1>3. Wanted \in Photos /\ Wanted # NoPhoto
  BY PhotosAssumption DEF Takes, Running, Wanted, IInv, FrameInv
<1> QED
  BY <1>1, <1>2, <1>3 DEF Takes, PhotoInv, LineInv

\* Which photos an answer for us can be of.
LEMMA ForUsFacts ==
  ASSUME IInv, PhotoInv, Running, NEW m, Genuine(m), m \in In(Line), m.type \in {"media", "error"}
  PROVE  /\ m.of \in Photos /\ m.of # NoPhoto
         /\ echoes => (ForUs(m) <=> m.of = Wanted)
         /\ ~echoes => ForUs(m)
         /\ Told(call) /\ ForUs(m) => m.of = Wanted
<1>1. m.of \in Photos /\ m.id = IF echoes THEN m.of ELSE NoPhoto
  BY DEF Genuine, Header, Refusal
<1>2. m.of # NoPhoto
  BY <1>1, PhotosAssumption
<1>3. ~echoes /\ Told(call) => m.of = Wanted
  BY DEF Told, Same, PhotoInv, GottenInv, Gotten, Media, Wanted
<1> QED
  BY <1>1, <1>2, <1>3 DEF ForUs

LEMMA TakesHeaderPhoto == ASSUME IInv, PhotoInv, TakesHeader, program' = program PROVE PhotoInv'
<1> PICK m: m = Head(queue)
  OBVIOUS
<1>1. /\ Suffix(Line, Line', 1) /\ Line # <<>> /\ Line[1] = m /\ m.type = "media"
      /\ Running /\ cpc = "await" /\ Genuine(m) /\ m \in In(Line)
      /\ UNCHANGED <<program, callVars, asked, stalled, echoes>>
  BY TakesFacts DEF TakesHeader
<1>2. /\ m.of \in Photos /\ m.of # NoPhoto /\ (echoes => (ForUs(m) <=> m.of = Wanted)) /\ (~echoes => ForUs(m))
  BY <1>1, ForUsFacts
<1>3. Fetched(m) /\ Reaches(m) = 0
  BY <1>1 DEF Fetched, Reaches
<1>4. CASE ForUs(m)
  <2>1. header' = m.of /\ acc' = <<>> /\ Len(acc') = 0
    BY <1>4 DEF TakesHeader
  <2>2. Running' /\ Wanted' = Wanted
    BY <1>1, SameCall
  <2>3. Len(acc') < Total(header') /\ acc' = Pieces(header', 1, Len(acc'))
    <3> PICK n \in Nat: n = 0
      OBVIOUS
    <3>1. Total(m.of) \in Nat \ {0}
      BY <1>2, CutFacts
    <3>2. Pieces(m.of, 1, n) \in Seq(AnyPiece) /\ Len(Pieces(m.of, 1, n)) = 0
      BY <1>2, BeginFacts
    <3>3. Pieces(m.of, 1, n) = <<>>
      BY <3>2
    <3> QED
      BY <2>1, <3>1, <3>3
  <2> PICK new: new = Line'
    OBVIOUS
  <2>4. ASSUME NEW j \in 1..Len(new), First(new, j), new[j].type = "data"
        PROVE  new[j].of = m.of /\ 0 = (new[j].k - 1) * Chunk
    <3>1. j + 1 \in 1..Len(Line) /\ 1 \in 1..Len(Line) /\ new[j] = Line[j + 1] /\ Adjacent(Line, 1, j + 1)
      BY <1>1, <1>3, <2>4, NextFetched
    <3>2. GoesOn(m, new[j])
      BY <1>1, <3>1 DEF PhotoInv, LineInv, Chained
    <3>3. new[j].of = m.of /\ new[j].k = 0 + 1
      BY <1>3, <2>4, <3>2 DEF GoesOn
    <3>4. Chunk \in Nat
      BY BoundAssumption
    <3> QED
      BY <3>3, <3>4
  <2>5. GatherInv'
    BY <1>1, <1>2, <1>4, <2>1, <2>2, <2>3, <2>4 DEF GatherInv, Fits
  <2> QED
    BY <1>1, <1>2, <1>3, <2>1, <2>5, ReadKeeps
<1>5. CASE ~ForUs(m)
  <2>1. UNCHANGED accVars
    BY <1>5 DEF TakesHeader
  <2>2. header # NoPhoto => ~Followed
    <3>1. ASSUME header # NoPhoto, Followed PROVE FALSE
      <4>1. echoes /\ m.of # Wanted /\ header = Wanted /\ Unbroken(call)
        BY <1>2, <1>5, <3>1 DEF PhotoInv, GatherInv, Followed
      <4>2. OnlyOf(Line, Wanted)
        BY <1>1, <4>1 DEF PhotoInv, OrderInv, NothingAfter
      <4>3. 1 \in 1..Len(Line)
        BY <1>1, LineFacts, SeqFacts
      <4> QED
        BY <1>1, <1>3, <4>1, <4>2, <4>3 DEF OnlyOf
    <3> QED
      BY <3>1
  <2>3. GatherInv'
    <3>1. (Running' <=> Running) /\ Wanted' = Wanted /\ (Followed' <=> Followed)
      BY <1>1, SameCall DEF Followed
    <3> QED
      BY <1>1, <2>1, <2>2, <3>1 DEF PhotoInv, GatherInv
  <2> QED
    BY <1>1, <2>1, <2>3, ReadKeeps
<1> QED
  BY <1>4, <1>5

LEMMA TakesRefusalPhoto ==
  ASSUME IInv, TypeOK, PhotoInv, TakesRefusal, program' = program
  PROVE  PhotoInv'
<1> PICK m: m = Head(queue)
  OBVIOUS
<1>1. /\ Suffix(Line, Line', 1) /\ Line # <<>> /\ Line[1] = m /\ m.type = "error"
      /\ Running /\ cpc = "await" /\ Genuine(m) /\ m \in In(Line)
      /\ UNCHANGED <<program, asked, stalled, echoes>>
  BY TakesFacts DEF TakesRefusal
<1>2. Told(call) /\ ForUs(m) => m.of = Wanted
  BY <1>1, ForUsFacts
<1>3. CASE ForUs(m)
  <2>1. Ends("refused", m.of, <<>>)
    BY <1>3 DEF TakesRefusal
  <2> QED
    BY <1>1, <1>2, <1>3, <2>1, EndsKeeps
<1>4. CASE ~ForUs(m)
  <2>1. UNCHANGED <<callVars, accVars>> /\ ~Fetched(m)
    BY <1>1, <1>4 DEF TakesRefusal, Fetched
  <2>2. GatherInv'
    BY <1>1, <2>1, PassedOver
  <2> QED
    BY <1>1, <2>1, <2>2, ReadKeeps
<1> QED
  BY <1>3, <1>4

\* A whole photo is the one that was asked for, where that can be told.
LEMMA FinishedPhoto ==
  ASSUME IInv, TypeOK, PhotoInv, Running, UNCHANGED <<program, asked, echoes>>,
         NEW gone, Suffix(Line, Line', gone), header # NoPhoto,
         NEW data, Finished(data),
         Followed => \E n \in Nat: n >= Size[header] /\ data = Pieces(header, 1, n)
  PROVE  PhotoInv'
<1>1. header \in Photos
  BY DEF TypeOK, FetchTypes
<1>2. Followed => SubSeq(data, 1, Size[header]) = Whole(header)
  BY <1>1, FinishFacts
<1>3. Told(call) => header = Wanted
  <2>1. header \in Gotten
    BY DEF PhotoInv, GottenInv
  <2> QED
    BY <2>1 DEF PhotoInv, GatherInv, Told, Same, Gotten, Wanted
<1>4. Told(call) /\ Unbroken(call) => SubSeq(data, 1, Size[header]) = Whole(Wanted)
  BY <1>2, <1>3 DEF Followed
<1> PICK all, what, of: all = SubSeq(data, 1, Size[header]) /\ what = "ok" /\ of = header
  OBVIOUS
<1>5. Ends(what, of, all)
  BY DEF Finished
<1>6. Told(call) /\ Unbroken(call) => /\ what = "ok" => all = Whole(Wanted)
                                      /\ what = "refused" => of = Wanted
  BY <1>4
<1>7. Followed => what # "surplus"
  OBVIOUS
<1> QED
  BY <1>5, <1>6, <1>7, EndsKeeps

LEMMA TakesSegmentPhoto ==
  ASSUME IInv, TypeOK, PhotoInv, TakesSegment, program' = program
  PROVE  PhotoInv'
<1> PICK m: m = Head(queue)
  OBVIOUS
<1>1. /\ Suffix(Line, Line', 1) /\ Line # <<>> /\ Line[1] = m /\ m.type = "data"
      /\ Running /\ cpc = "await" /\ Genuine(m) /\ m \in In(Line)
      /\ UNCHANGED <<program, asked, stalled, echoes>>
  BY TakesFacts DEF TakesSegment
<1>2. m = Segment(m.of, m.k) /\ m.of \in Photos /\ m.k \in 1..LastSegment(m.of) /\ Fetched(m)
  BY <1>1 DEF Genuine, Fetched
<1> PICK got: got = acc \o Data(m)
  OBVIOUS
<1>3. CASE header = NoPhoto
  <2>1. UNCHANGED <<callVars, accVars>>
    BY <1>3 DEF TakesSegment
  <2>2. GatherInv'
    BY <1>1, <1>3, <2>1, PassedOver
  <2> QED
    BY <1>1, <2>1, <2>2, ReadKeeps
<1>4. CASE header # NoPhoto
  <2>1. header \in Photos
    BY <1>4 DEF TypeOK, FetchTypes
  <2>2. Followed => /\ m.of = header /\ m.k \in 1..LastSegment(header)
                    /\ got = Pieces(header, 1, Upto(header, m.k)) /\ Len(got) = Upto(header, m.k)
    <3>1. ASSUME Followed
          PROVE  /\ m.of = header /\ m.k \in 1..LastSegment(header)
                 /\ got = Pieces(header, 1, Upto(header, m.k)) /\ Len(got) = Upto(header, m.k)
      <4>1. m.of = header /\ Len(acc) = (m.k - 1) * Chunk /\ acc = Pieces(header, 1, Len(acc))
        BY <1>1, <1>2, <1>4, <3>1, GatheringOwn DEF PhotoInv, GatherInv
      <4>2. got = Pieces(header, 1, Upto(header, m.k))
        <5>1. PICK p, k: p \in Photos /\ p = header /\ k = m.k
          BY <2>1
        <5>2. k \in 1..LastSegment(p) /\ Data(m) = Data(Segment(p, k)) /\ acc = Pieces(p, 1, (k - 1) * Chunk)
          BY <1>2, <4>1, <5>1
        <5>3. Pieces(p, 1, (k - 1) * Chunk) \o Data(Segment(p, k)) = Pieces(p, 1, Upto(p, k))
          BY <5>1, <5>2, GatherFacts
        <5> QED
          BY <1>2, <5>1, <5>2, <5>3
      <4>3. Upto(header, m.k) \in Nat
        BY <1>2, <2>1, <4>1, UptoFacts
      <4> QED
        BY <1>2, <2>1, <4>1, <4>2, <4>3, BeginFacts
    <3> QED
      BY <3>1
  <2>6. Len(got) \in Nat /\ Total(header) \in Nat
    <3>1. Data(m) \in Seq(AnyPiece)
      BY <1>2, UptoFacts, PieceFacts
    <3>2. acc \in Seq(AnyPiece)
      BY DEF TypeOK, FetchTypes
    <3> QED
      BY <2>1, <3>1, <3>2, CutFacts
  <2>3. CASE Len(got) < Total(header)
    <3>1. acc' = got /\ UNCHANGED <<callVars, header>>
      BY <1>4, <2>3 DEF TakesSegment
    <3> PICK new: new = Line'
      OBVIOUS
    <3>2. ASSUME Followed, NEW j \in 1..Len(new), First(new, j), new[j].type = "data"
          PROVE  new[j].of = header /\ Len(got) = (new[j].k - 1) * Chunk
      <4>1. j + 1 \in 1..Len(Line) /\ 1 \in 1..Len(Line) /\ new[j] = Line[j + 1] /\ Adjacent(Line, 1, j + 1)
        BY <1>1, <1>2, <3>2, NextFetched
      <4>2. GoesOn(m, new[j])
        BY <1>1, <4>1 DEF PhotoInv, LineInv, Chained
      <4>3. new[j].of = header /\ new[j].k = m.k + 1
        BY <1>1, <2>2, <3>2, <4>2 DEF GoesOn, Reaches
      <4>4. m.k # LastSegment(header)
        BY <2>1, <2>2, <2>3, <3>2, CutFacts DEF Upto
      <4> QED
        BY <2>1, <2>2, <3>2, <4>3, <4>4, UptoFacts
    <3>3. GatherInv'
      <4>1. (Running' <=> Running) /\ Wanted' = Wanted /\ (Followed' <=> Followed)
        BY <1>1, <3>1, SameCall DEF Followed
      <4>2. Followed => acc' = Pieces(header, 1, Len(acc')) /\ Len(acc') < Total(header)
        BY <2>2, <2>3, <3>1
      <4>3. Followed => Fits'
        BY <3>1, <3>2 DEF Fits
      <4>4. (header # NoPhoto => Running /\ cpc = "await") /\ (header # NoPhoto /\ echoes => header = Wanted)
        BY DEF PhotoInv, GatherInv
      <4> QED
        BY <1>1, <3>1, <4>1, <4>2, <4>3, <4>4 DEF GatherInv
    <3> QED
      BY <1>1, <3>1, <3>3, ReadKeeps
  <2>4. CASE Len(got) > Total(header)
    <3>1. Ends("surplus", NoPhoto, <<>>)
      BY <1>4, <2>4, <2>6 DEF TakesSegment
    <3>2. ~Followed
      <4>1. Followed => Upto(header, m.k) <= Total(header) /\ Upto(header, m.k) \in Nat
        BY <2>1, <2>2, UptoFacts
      <4> QED
        BY <2>1, <2>2, <2>4, <4>1, CutFacts
    <3> QED
      BY <1>1, <3>1, <3>2, EndsKeeps DEF Followed, Told
  <2>5. CASE ~(Len(got) < Total(header)) /\ ~(Len(got) > Total(header))
    <3>1. Finished(got)
      BY <1>4, <2>5 DEF TakesSegment
    <3>2. Followed => \E n \in Nat: n >= Size[header] /\ got = Pieces(header, 1, n)
      <4>1. ASSUME Followed PROVE Upto(header, m.k) \in Nat /\ Upto(header, m.k) >= Size[header]
        <5>1. Len(got) = Upto(header, m.k) /\ Len(got) = Total(header)
          BY <2>2, <2>5, <2>6, <4>1
        <5> QED
          BY <2>1, <5>1, CutFacts
      <4> QED
        BY <2>2, <4>1
    <3> QED
      BY <1>1, <1>4, <3>1, <3>2, FinishedPhoto
  <2> QED
    BY <2>3, <2>4, <2>5, <2>6
<1> QED
  BY <1>3, <1>4

LEMMA TimesOutPhoto ==
  ASSUME IInv, TypeOK, PhotoInv, TimesOut, program' = program
  PROVE  PhotoInv'
<1>1. Running /\ Suffix(Line, Line', 0) /\ UNCHANGED <<asked, stalled, echoes>>
  BY SameLine DEF TimesOut
<1>2. CASE header # NoPhoto /\ Len(acc) >= Size[header]
  <2>1. Finished(acc)
    BY <1>2 DEF TimesOut
  <2>2. Len(acc) \in Nat
    BY DEF TypeOK, FetchTypes
  <2>3. Followed => \E n \in Nat: n >= Size[header] /\ acc = Pieces(header, 1, n)
    BY <1>2, <2>2 DEF PhotoInv, GatherInv
  <2> QED
    BY <1>1, <1>2, <2>1, <2>3, FinishedPhoto
<1>3. CASE ~(header # NoPhoto /\ Len(acc) >= Size[header]) /\ attempt < Attempts
  <2>1. header' = NoPhoto /\ UNCHANGED <<call, results>>
    BY <1>3 DEF TimesOut
  <2>2. GatherInv'
    BY <2>1 DEF GatherInv
  <2> QED
    BY <1>1, <2>1, <2>2, ReadKeeps
<1>4. CASE ~(header # NoPhoto /\ Len(acc) >= Size[header]) /\ ~(attempt < Attempts)
  <2>1. Ends("timeout", NoPhoto, <<>>)
    BY <1>4 DEF TimesOut
  <2> QED
    BY <1>1, <2>1, EndsKeeps
<1> QED
  BY <1>2, <1>3, <1>4

LEMMA EndsUnfitPhoto ==
  ASSUME IInv, TypeOK, PhotoInv, EndsUnfit, program' = program
  PROVE  PhotoInv'
<1>1. Ends("unfit", NoPhoto, <<>>)
  BY DEF EndsUnfit
<1>2. ASSUME NEW type, Takes(type)
      PROVE  PhotoInv'
  <2>1. Suffix(Line, Line', 1) /\ Running /\ UNCHANGED <<asked, echoes>>
    BY <1>2, TakesFacts
  <2> QED
    BY <1>1, <2>1, EndsKeeps
<1>3. ASSUME Running, UNCHANGED <<over, queue, wire, frameVars>>
      PROVE  PhotoInv'
  <2>1. Suffix(Line, Line', 0) /\ UNCHANGED <<asked, echoes>>
    BY <1>3, SameLine
  <2> QED
    BY <1>1, <1>3, <2>1, EndsKeeps
<1> QED
  BY <1>2, <1>3 DEF EndsUnfit

LEMMA FetchingPhoto == ASSUME IInv, TypeOK, PhotoInv, Fetching PROVE PhotoInv'
<1>1. program' = program
  BY DEF Fetching
<1>2. ASSUME EndsEarly PROVE PhotoInv'
  <2>1. /\ Running /\ Suffix(Line, Line', 0) /\ UNCHANGED <<asked, stalled, echoes>>
        /\ Ends("over", NoPhoto, <<>>)
    BY <1>2, SameLine DEF EndsEarly
  <2> QED
    BY <1>1, <2>1, EndsKeeps
<1> QED
  BY <1>1, <1>2, AsksPhoto, TakesHeaderPhoto, TakesRefusalPhoto, TakesSegmentPhoto, TimesOutPhoto,
     EndsUnfitPhoto DEF Fetching, GetMedia

-------------------------------------------------------------------------------
(* Steps of the frame, and of the other requests *)

LEMMA UnreadJoin ==
  ASSUME IInv, NEW t, IsSeq(t), queue' = queue, wire' = wire \o t
  PROVE  Unread' = Unread \o t
<1>1. PICK Q, W, T: queue \in Seq(Q) /\ wire \in Seq(W) /\ t \in Seq(T)
  BY LineFacts DEF IsSeq
<1>2. queue \in Seq(Q \cup W \cup T) /\ wire \in Seq(Q \cup W \cup T) /\ t \in Seq(Q \cup W \cup T)
  BY <1>1
<1>3. queue \o (wire \o t) = (queue \o wire) \o t
  BY <1>2, ConcatAssociative
<1> QED
  BY <1>3 DEF Unread

\* The frame sends of a photo it was asked for, or of the one it stopped in.
LEMMA SendsBlock ==
  ASSUME IInv, PhotoInv, UNCHANGED <<program, callVars, accVars, echoes>>,
         NEW p, NEW b, Line' = Unread \o b, Block(b, p),
         Len(b) >= 1, b[1].type = "media" \/ (stalled # NotStalled /\ Pending = <<b[1]>>),
         \/ asked # <<>> /\ p = Head(asked) /\ asked' = Tail(asked)
         \/ stalled # NotStalled /\ p = stalled.of /\ asked' = asked
  PROVE  PhotoInv'
<1> PICK new: new = Unread \o b
  OBVIOUS
<1>1. /\ IsSeq(b) /\ Len(b) \in Nat /\ b # <<>> /\ In(b) = {b[i] : i \in 1..Len(b)} /\ Chained(b)
      /\ \A i \in 1..Len(b): Fetched(b[i]) /\ Genuine(b[i]) /\ b[i].of = p
  BY SeqFacts DEF Block
<1>2. /\ IsSeq(new) /\ Len(new) = Len(Unread) + Len(b) /\ Len(Unread) \in Nat
      /\ \A i \in 1..Len(Unread): new[i] = Unread[i]
      /\ \A i \in 1..Len(b): new[Len(Unread) + i] = b[i]
      /\ In(new) = In(Unread) \cup In(b)
  <2>1. IsSeq(Unread) /\ IsSeq(b)
    BY <1>1, LineFacts
  <2> QED
    BY <2>1, JoinFacts
<1>3. /\ Len(Line) = Len(Unread) + Len(Pending) /\ Len(Pending) \in Nat
      /\ \A i \in 1..Len(Unread): Line[i] = Unread[i]
      /\ \A i \in 1..Len(Pending): Line[Len(Unread) + i] = Pending[i]
      /\ In(Line) = In(Unread) \cup In(Pending)
  <2>1. IsSeq(Unread) /\ IsSeq(Pending)
    BY LineFacts
  <2> QED
    BY <2>1, JoinFacts DEF Line
<1>4. stalled # NotStalled => /\ Len(Pending) = 1 /\ Pending[1].of = stalled.of /\ Fetched(Pending[1])
                              /\ Pending[1] \in In(Line)
  <2>1. stalled # NotStalled => Pending = <<Segment(stalled.of, stalled.from)>>
    BY DEF Pending
  <2>2. stalled # NotStalled => Pending[1] \in In(Pending) /\ Len(Pending) = 1
    BY <2>1, OneFacts
  <2> QED
    BY <1>3, <2>1, <2>2 DEF Segment, Fetched
<1>14. In(Unread) = {Unread[i] : i \in 1..Len(Unread)}
  BY LineFacts, SeqFacts
<1>15. stalled # NotStalled => Len(Unread) + 1 \in 1..Len(Line) /\ Line[Len(Unread) + 1] = Pending[1]
  <2>1. Len(Pending) = 1 => Line[Len(Unread) + 1] = Pending[1] /\ Len(Line) = Len(Unread) + 1
    BY <1>3
  <2>2. Len(Unread) + 1 \in 1..(Len(Unread) + 1)
    BY <1>2
  <2> QED
    BY <1>4, <2>1, <2>2
<1>5. Suffix(Unread, Unread, 0) /\ Chained(Unread) /\ \A q: Sorted(Line, q) => Sorted(Unread, q)
  <2>1. Chained(Unread)
    <3>1. ASSUME NEW i \in 1..Len(Unread), NEW j \in 1..Len(Unread), Adjacent(Unread, i, j)
          PROVE  GoesOn(Unread[i], Unread[j])
      <4>1. i \in 1..Len(Line) /\ j \in 1..Len(Line)
        BY <1>2, <1>3
      <4>2. \A n \in (i + 1)..(j - 1): n \in 1..Len(Unread)
        BY <1>2
      <4>3. Adjacent(Line, i, j)
        BY <1>3, <3>1, <4>1, <4>2 DEF Adjacent
      <4> QED
        BY <1>3, <4>1, <4>3 DEF PhotoInv, LineInv, Chained
    <3> QED
      BY <3>1 DEF Chained
  <2>2. \A q: Sorted(Line, q) => Sorted(Unread, q)
    BY <1>2, <1>3 DEF Sorted
  <2> QED
    BY <1>2, <2>1, <2>2, LineFacts DEF Suffix
<1>6. Chained(new)
  <2>1. stalled # NotStalled /\ Pending = <<b[1]>> => Chained(Unread \o <<b[1]>>)
    BY DEF Line, PhotoInv, LineInv
  <2>2. Fetched(b[1])
    BY <1>1
  <2> QED
    BY <1>1, <1>5, <2>1, <2>2, LineFacts, ChainedJoin
<1>7. LineInv'
  BY <1>1, <1>2, <1>3, <1>6, SameMessages DEF PhotoInv, LineInv
<1>8. Running => p \in Gotten
  <2>1. asked # <<>> => Head(asked) \in In(asked)
    BY TailFacts DEF IInv, FrameInv, IsSeq
  <2> QED
    BY <1>4, <2>1 DEF PhotoInv, GottenInv, Fetched, Media
<1>9. In(asked') \subseteq In(asked) /\ IsSeq(asked)
  BY TailFacts DEF IInv, FrameInv, IsSeq
<1>10. GottenInv'
  <2>1. \A m \in In(new): m \in In(Line) \/ m.of = p
    BY <1>1, <1>2, <1>3
  <2> QED
    BY <1>8, <1>9, <2>1, SameCall DEF PhotoInv, GottenInv
<1>11. OrderInv'
  <2> SUFFICES ASSUME Running, Unbroken(call) PROVE NothingAfter(Wanted)'
    BY SameCall DEF OrderInv
  <2> PICK w: w = Wanted
    OBVIOUS
  <2>1. Wanted' = w /\ NothingAfter(w)
    BY SameCall DEF PhotoInv, OrderInv
  <2>2. asked # <<>> /\ p = Head(asked) => p \in In(asked)
    BY <1>9, TailFacts
  <2>3. (\E m \in In(Unread): Fetched(m) /\ m.of = w) => p = w /\ In(asked) \subseteq {w}
    <3> SUFFICES ASSUME NEW i \in 1..Len(Unread), Fetched(Unread[i]), Unread[i].of = w
                 PROVE  p = w /\ In(asked) \subseteq {w}
      BY <1>14
    <3>1. i \in 1..Len(Line) /\ Line[i] = Unread[i] /\ Line[i] \in In(Line)
      BY <1>2, <1>3, LineFacts, SeqFacts
    <3>2. In(asked) \subseteq {w}
      BY <2>1, <3>1 DEF NothingAfter
    <3>3. stalled # NotStalled => stalled.of = w
      <4>2. i < Len(Unread) + 1
        BY <1>2
      <4> QED
        BY <1>4, <1>15, <2>1, <3>1, <4>2 DEF NothingAfter, Sorted
    <3> QED
      BY <2>2, <3>2, <3>3
  <2>4. p = w => In(asked') \subseteq {w}
    <3>1. CASE stalled # NotStalled /\ p = stalled.of /\ asked' = asked
      BY <1>4, <2>1, <3>1 DEF NothingAfter
    <3>2. CASE asked # <<>> /\ p = Head(asked) /\ asked' = Tail(asked)
      <4>5. PICK a: a = Tail(asked)
        OBVIOUS
      <4>1. /\ IsSeq(a) /\ Len(a) = Len(asked) - 1 /\ Len(asked) >= 1 /\ Head(asked) = asked[1] /\ Len(asked) \in Nat
            /\ \A i \in 1..(Len(asked) - 1): a[i] = asked[i + 1]
        BY <1>9, <3>2, <4>5, TailFacts, SeqFacts
      <4>2. ASSUME p = w, NEW i \in 1..Len(a)
            PROVE  a[i] = w
        <5>1. 1 \in 1..Len(asked) /\ i + 1 \in 1..Len(asked) /\ 1 < i + 1 /\ i \in 1..(Len(asked) - 1)
          BY <4>1, <4>2
        <5>2. asked[1] = w /\ a[i] = asked[i + 1]
          BY <3>2, <4>1, <4>2, <5>1
        <5> QED
          BY <2>1, <5>1, <5>2 DEF NothingAfter
      <4>3. In(a) = {a[i] : i \in 1..Len(a)}
        <5>1. IsSeq(a)
          BY <4>1
        <5> QED
          BY <5>1, SeqFacts
      <4>4. In(asked') = In(a)
        BY <3>2, <4>5
      <4> QED
        BY <4>2, <4>3, <4>4
    <3> QED
      BY <3>1, <3>2
  <2>5. Sorted(new, w)
    <3> SUFFICES ASSUME NEW i \in 1..Len(new), NEW j \in 1..Len(new), i < j, Fetched(new[i]), Fetched(new[j]),
                        new[i].of = w
                 PROVE  new[j].of = w
      BY DEF Sorted
    <3>1. \A n \in 1..Len(new): n > Len(Unread) => new[n].of = p
      <4>1. \A n \in 1..Len(new): n > Len(Unread) => n - Len(Unread) \in 1..Len(b) /\ n = Len(Unread) + (n - Len(Unread))
        BY <1>1, <1>2
      <4> QED
        BY <1>1, <1>2, <4>1
    <3>2. CASE i <= Len(Unread)
      <4>1. i \in 1..Len(Unread) /\ Unread[i] = new[i] /\ Unread[i] \in In(Unread)
        BY <1>2, <3>2, LineFacts, SeqFacts
      <4>2. p = w
        BY <2>3, <4>1
      <4>3. CASE j <= Len(Unread)
        <5>1. j \in 1..Len(Unread) /\ Unread[j] = new[j]
          BY <1>2, <4>3
        <5>2. Sorted(Unread, w)
          BY <1>5, <2>1 DEF NothingAfter
        <5>3. Fetched(Unread[i]) /\ Fetched(Unread[j]) /\ Unread[i].of = w
          BY <4>1, <5>1
        <5>4. Unread[j].of = w
          BY <4>1, <5>1, <5>2, <5>3 DEF Sorted
        <5> QED
          BY <5>1, <5>4
      <4>4. CASE j > Len(Unread)
        BY <3>1, <4>2, <4>4
      <4> QED
        BY <1>2, <4>3, <4>4
    <3>3. CASE i > Len(Unread)
      BY <1>2, <3>1, <3>3
    <3> QED
      BY <1>2, <3>2, <3>3
  <2>6. (\E m \in In(new): Fetched(m) /\ m.of = w) => In(asked') \subseteq {w}
    BY <1>1, <1>2, <1>9, <2>3, <2>4
  <2>7. \A i, j \in 1..Len(asked'): i < j /\ asked'[i] = w => asked'[j] = w
    <3>1. CASE asked' = asked
      BY <2>1, <3>1 DEF NothingAfter
    <3>2. CASE asked # <<>> /\ asked' = Tail(asked)
      <4> PICK a: a = Tail(asked)
        OBVIOUS
      <4>1. Len(a) = Len(asked) - 1 /\ Len(asked) \in Nat /\ \A i \in 1..(Len(asked) - 1): a[i] = asked[i + 1]
        BY <1>9, <3>2, TailFacts, SeqFacts
      <4>2. \A i, j \in 1..Len(a): i < j /\ a[i] = w => a[j] = w
        BY <2>1, <4>1 DEF NothingAfter
      <4> QED
        BY <3>2, <4>2
    <3> QED
      BY <3>1, <3>2
  <2>8. header = w => OnlyOf(new, w) /\ In(asked') \subseteq {w}
    <3>1. ASSUME header = w PROVE OnlyOf(new, w)
      <4>1. OnlyOf(Line, w) /\ In(asked) \subseteq {w}
        BY <2>1, <3>1 DEF NothingAfter
      <4>2. p = w
        <5>1. stalled # NotStalled => stalled.of = w
          BY <1>4, <1>15, <4>1 DEF OnlyOf
        <5> QED
          BY <2>2, <4>1, <5>1
      <4>3. \A n \in 1..Len(new): n \in 1..Len(Unread) \/ new[n].of = p
        <5>1. \A n \in 1..Len(new): n \in 1..Len(Unread)
                 \/ (n - Len(Unread) \in 1..Len(b) /\ n = Len(Unread) + (n - Len(Unread)))
          BY <1>1, <1>2
        <5> QED
          BY <1>1, <1>2, <5>1
      <4> QED
        BY <1>2, <1>3, <4>1, <4>2, <4>3 DEF OnlyOf
    <3> QED
      BY <1>9, <2>1, <3>1 DEF NothingAfter
  <2> QED
    BY <2>1, <2>5, <2>6, <2>7, <2>8 DEF NothingAfter
<1>12. GatherInv'
  <2>1. (Running' <=> Running) /\ Wanted' = Wanted /\ (Followed' <=> Followed)
    BY SameCall DEF Followed
  <2>2. ASSUME header # NoPhoto, Followed, NEW j \in 1..Len(new), First(new, j), new[j].type = "data"
        PROVE  new[j].of = header /\ Len(acc) = (new[j].k - 1) * Chunk
    <3>1. \A n \in 1..Len(Unread): n \in 1..Len(Line) /\ new[n] = Line[n]
      BY <1>2, <1>3
    <3>2. j \in 1..Len(Line) /\ Line[j] = new[j]
      <4>1. CASE j <= Len(Unread)
        BY <1>2, <3>1, <4>1
      <4>2. CASE j > Len(Unread)
        <5>1. Len(Unread) + 1 \in 1..Len(new) /\ new[Len(Unread) + 1] = b[1] /\ Fetched(b[1])
          BY <1>1, <1>2
        <5>2. j = Len(Unread) + 1
          BY <1>2, <2>2, <4>2, <5>1 DEF First
        <5>3. stalled # NotStalled /\ Pending = <<b[1]>>
          BY <2>2, <5>1, <5>2
        <5> QED
          BY <1>2, <1>3, <1>4, <5>1, <5>2, <5>3
      <4> QED
        BY <1>2, <4>1, <4>2
    <3>3. First(Line, j)
      <4>1. \A n \in 1..(j - 1): new[n] = Line[n]
        <5>1. \A n \in 1..(j - 1): n \in 1..Len(Unread)
          BY <1>2, <1>3, <3>2, LineFacts
        <5> QED
          BY <3>1, <5>1
      <4> QED
        BY <2>2, <3>2, <4>1 DEF First
    <3> QED
      BY <2>2, <3>2, <3>3 DEF PhotoInv, GatherInv, Fits
  <2> QED
    BY <2>1, <2>2 DEF PhotoInv, GatherInv, Fits
<1> QED
  BY <1>7, <1>10, <1>11, <1>12, SameResults DEF PhotoInv
\* The frame takes a request up, or none.
LEMMA AskedKeeps ==
  ASSUME IInv, asked' = asked \/ (asked # <<>> /\ asked' = Tail(asked))
  PROVE  /\ IsSeq(asked) /\ In(asked') \subseteq In(asked)
         /\ \A w: (\A i, j \in 1..Len(asked): i < j /\ asked[i] = w => asked[j] = w)
                  => \A i, j \in 1..Len(asked'): i < j /\ asked'[i] = w => asked'[j] = w
<1>1. IsSeq(asked)
  BY DEF IInv, FrameInv, IsSeq
<1>2. CASE asked' = asked
  BY <1>1, <1>2
<1>3. CASE asked # <<>> /\ asked' = Tail(asked)
  <2>1. PICK a: a = Tail(asked)
    OBVIOUS
  <2>2. /\ Len(a) = Len(asked) - 1 /\ Len(asked) \in Nat /\ In(a) \subseteq In(asked)
        /\ \A i \in 1..(Len(asked) - 1): a[i] = asked[i + 1]
    BY <1>1, <1>3, <2>1, TailFacts, SeqFacts
  <2>3. ASSUME NEW w, \A i, j \in 1..Len(asked): i < j /\ asked[i] = w => asked[j] = w
        PROVE  \A i, j \in 1..Len(a): i < j /\ a[i] = w => a[j] = w
    BY <2>2, <2>3
  <2>4. asked' = a
    BY <1>3, <2>1
  <2> QED
    BY <1>1, <2>2, <2>3, <2>4
<1> QED
  BY <1>2, <1>3

\* A message that is neither header nor segment is sent, or none at all.
LEMMA InsertsKeeps ==
  ASSUME IInv, PhotoInv, UNCHANGED <<program, callVars, accVars, echoes>>,
         asked' = asked \/ (asked # <<>> /\ asked' = Tail(asked)),
         NEW m, ~Fetched(m), Genuine(m), Running /\ m.type \in Media => m.of \in Gotten,
         Line' = Line \/ Line' = Append(Unread, m) \o Pending
  PROVE  PhotoInv'
<1>1. PICK new: new = Line'
  OBVIOUS
<1>2. IsSeq(Unread) /\ IsSeq(Pending) /\ Len(Pending) <= 1
  BY LineFacts
<1>3. /\ In(new) \subseteq In(Line) \cup {m} /\ (Chained(Line) => Chained(new))
      /\ \A p: (Sorted(Line, p) => Sorted(new, p)) /\ (OnlyOf(Line, p) => OnlyOf(new, p))
      /\ \A j \in 1..Len(new): First(new, j) => \E i \in 1..Len(Line): First(Line, i) /\ Line[i] = new[j]
  <2>1. CASE new = Line
    BY <2>1
  <2>2. CASE new = Append(Unread, m) \o Pending
    <3>1. PICK s, c: s = Unread /\ c = Pending
      OBVIOUS
    <3>2. IsSeq(s) /\ IsSeq(c) /\ Len(c) <= 1 /\ Line = s \o c /\ new = Append(s, m) \o c
      BY <1>2, <2>2, <3>1 DEF Line
    <3> HIDE <3>1
    <3>3. LET t == s \o c
              u == Append(s, m) \o c
          IN  /\ IsSeq(u) /\ In(u) = In(t) \cup {m}
              /\ Chained(t) => Chained(u)
              /\ \A p: (Sorted(t, p) => Sorted(u, p)) /\ (OnlyOf(t, p) => OnlyOf(u, p))
              /\ \A j \in 1..Len(u): First(u, j) => \E i \in 1..Len(t): First(t, i) /\ t[i] = u[j]
      BY <3>2, InsertKeeps
    <3> QED
      BY <3>2, <3>3
  <2> QED
    BY <1>1, <2>1, <2>2
<1>4. LineInv'
  BY <1>1, <1>3, SameMessages DEF PhotoInv, LineInv
<1>5. GottenInv'
  BY <1>1, <1>3, AskedKeeps, SameCall DEF PhotoInv, GottenInv
<1>6. OrderInv'
  <2> SUFFICES ASSUME Running, Unbroken(call) PROVE NothingAfter(Wanted)'
    BY SameCall DEF OrderInv
  <2>1. PICK w: w = Wanted
    OBVIOUS
  <2>2. Wanted' = w /\ NothingAfter(w)
    BY <2>1, SameCall DEF PhotoInv, OrderInv
  <2>3. /\ Sorted(new, w) /\ In(asked') \subseteq In(asked)
        /\ \A i, j \in 1..Len(asked'): i < j /\ asked'[i] = w => asked'[j] = w
    BY <1>3, <2>2, AskedKeeps DEF NothingAfter
  <2>4. (\E n \in In(new): Fetched(n) /\ n.of = w) => In(asked') \subseteq {w}
    BY <1>3, <2>2, <2>3 DEF NothingAfter
  <2>5. header = w => OnlyOf(new, w) /\ In(asked') \subseteq {w}
    BY <1>3, <2>2, <2>3 DEF NothingAfter
  <2> QED
    BY <1>1, <2>2, <2>3, <2>4, <2>5 DEF NothingAfter
<1>7. GatherInv'
  <2>1. (Running' <=> Running) /\ Wanted' = Wanted /\ (Followed' <=> Followed)
    BY SameCall DEF Followed
  <2>2. Fits => \A j \in 1..Len(new): First(new, j) /\ new[j].type = "data" =>
                  new[j].of = header /\ Len(acc) = (new[j].k - 1) * Chunk
    BY <1>3 DEF Fits
  <2> QED
    BY <1>1, <2>1, <2>2 DEF PhotoInv, GatherInv, Fits
<1> QED
  BY <1>4, <1>5, <1>6, <1>7, SameResults DEF PhotoInv
LEMMA AppendIsJoin == ASSUME NEW s, IsSeq(s), NEW m PROVE Append(s, m) = s \o <<m>>
<1>1. PICK S: s \in Seq(S)
  BY DEF IsSeq
<1>2. s \in Seq(S \cup {m}) /\ m \in S \cup {m}
  BY <1>1
<1> QED
  BY <1>2

\* The frame sends something that is no part of a photo, or nothing.
LEMMA SendsOne ==
  ASSUME IInv, PhotoInv, UNCHANGED <<program, callVars, accVars, echoes, queue, stalled>>,
         asked' = asked \/ (asked # <<>> /\ asked' = Tail(asked)),
         NEW m, ~Fetched(m), Genuine(m), Running /\ m.type \in Media => m.of \in Gotten,
         wire' = wire \/ wire' = Append(wire, m)
  PROVE  PhotoInv'
<1>1. CASE wire' = wire
  BY <1>1, SameLine, InsertsKeeps
<1>2. CASE wire' = Append(wire, m)
  <2>1. wire' = wire \o <<m>> /\ IsSeq(<<m>>)
    BY <1>2, LineFacts, OneFacts, AppendIsJoin
  <2>2. Unread' = Unread \o <<m>>
    BY <2>1, UnreadJoin
  <2>3. Unread' = Append(Unread, m) /\ Pending' = Pending
    BY <2>2, LineFacts, AppendIsJoin DEF Pending, NotStalled, Segment
  <2>4. Line' = Append(Unread, m) \o Pending
    BY <2>3 DEF Line
  <2> QED
    BY <2>4, InsertsKeeps
<1> QED
  BY <1>1, <1>2

LEMMA FrameWorksPhoto == ASSUME IInv, PhotoInv, FrameWorks PROVE PhotoInv'
<1>1. UNCHANGED <<program, callVars, accVars, echoes, queue, stalled, asked>>
  BY DEF FrameWorks, FrameCollects, FrameActs, FrameLists, FrameTakes
<1>2. \A k, ok: LET m == Ack(k, ok) IN ~Fetched(m) /\ Genuine(m) /\ m.type \notin Media
  BY DEF Ack, Fetched, Genuine, Media
<1>3. \A items: LET m == Listing(items) IN ~Fetched(m) /\ Genuine(m) /\ m.type \notin Media
  BY DEF Listing, Fetched, Genuine, Media
<1>4. CASE FrameCollects
  <2>1. wire' = wire
    BY <1>4 DEF FrameCollects
  <2> QED
    BY <1>1, <1>3, <2>1, SendsOne
<1>5. CASE FrameActs
  <2>1. PICK k, ok: wire' \in {wire, Append(wire, Ack(k, ok))}
    BY <1>5 DEF FrameActs
  <2> QED
    BY <1>1, <1>2, <2>1, SendsOne
<1>6. CASE FrameLists
  <2>1. wire' \in {wire, Append(wire, Listing(library))}
    BY <1>6 DEF FrameLists
  <2> QED
    BY <1>1, <1>3, <2>1, SendsOne
<1> QED
  BY <1>4, <1>5, <1>6 DEF FrameWorks

\* What the frame is asked for, or stopped in, is a photo of the program.
LEMMA FrameFacts ==
  ASSUME IInv, PhotoInv
  PROVE  /\ asked # <<>> => Head(asked) \in Photos /\ Head(asked) \in In(asked)
         /\ Running /\ asked # <<>> => Head(asked) \in Gotten
         /\ stalled # NotStalled => stalled.of \in Photos /\ stalled.from \in 1..LastSegment(stalled.of)
<1>1. asked # <<>> => Head(asked) \in Photos /\ Head(asked) \in In(asked)
  BY TailFacts DEF IInv, FrameInv, IsSeq
<1>2. ASSUME stalled # NotStalled
      PROVE  stalled.of \in Photos /\ stalled.from \in 1..LastSegment(stalled.of)
  <2>1. Pending = <<Segment(stalled.of, stalled.from)>>
    BY <1>2 DEF Pending
  <2>2. Segment(stalled.of, stalled.from) \in In(Line)
    BY <2>1, LineFacts, OneFacts
  <2> QED
    BY <2>2 DEF PhotoInv, LineInv, Genuine, Segment
<1> QED
  BY <1>1, <1>2 DEF PhotoInv, GottenInv

LEMMA FrameRefusesPhoto ==
  ASSUME IInv, PhotoInv, FrameRefuses \/ FrameIgnores, program' = program
  PROVE  PhotoInv'
<1>1. /\ UNCHANGED <<program, callVars, accVars, echoes, queue, stalled>>
      /\ asked # <<>> /\ asked' = Tail(asked)
      /\ wire' = wire \/ wire' = Append(wire, Refusal(Head(asked)))
  BY DEF FrameRefuses, FrameIgnores, FrameUnchanged
<1>2. PICK m: m = Refusal(Head(asked))
  OBVIOUS
<1>3. m.type = "error" /\ m.of = Head(asked)
  BY <1>2 DEF Refusal
<1>4. ~Fetched(m) /\ Genuine(m) /\ (Running => m.of \in Gotten)
  BY <1>1, <1>2, <1>3, FrameFacts DEF Fetched, Genuine
<1> QED
  BY <1>1, <1>2, <1>4, SendsOne
LEMMA JoinEmpty == ASSUME NEW s, IsSeq(s) PROVE s \o <<>> = s /\ <<>> \o s = s
<1>1. PICK S: s \in Seq(S)
  BY DEF IsSeq
<1> QED
  BY <1>1

\* (Named, so that it can be used without what is known of sequences.)
Regroups(s, t, u) == (s \o t) \o u = s \o (t \o u)

LEMMA JoinJoined == ASSUME NEW s, NEW t, NEW u, IsSeq(s), IsSeq(t), IsSeq(u) PROVE Regroups(s, t, u)
<1>1. PICK A, B, C: s \in Seq(A) /\ t \in Seq(B) /\ u \in Seq(C)
  BY DEF IsSeq
<1>2. s \in Seq(A \cup B \cup C) /\ t \in Seq(A \cup B \cup C) /\ u \in Seq(A \cup B \cup C)
  BY <1>1
<1> QED
  BY <1>2, ConcatAssociative DEF Regroups

\* Messages about one photo are sent, and one more of them may be held back.
LEMMA SendsPhoto ==
  ASSUME IInv, PhotoInv, UNCHANGED <<program, callVars, accVars, echoes, queue>>,
         NEW p, NEW t, NEW rest, IsSeq(t), IsSeq(rest), wire' = wire \o t, Pending' = rest,
         NEW b, b = t \o rest, Block(b, p), Len(b) >= 1,
         b[1].type = "media" \/ (stalled # NotStalled /\ Pending = <<b[1]>>),
         \/ asked # <<>> /\ p = Head(asked) /\ asked' = Tail(asked)
         \/ stalled # NotStalled /\ p = stalled.of /\ asked' = asked
  PROVE  PhotoInv'
<1>1. Unread' = Unread \o t
  BY UnreadJoin
<1>2. (Unread \o t) \o rest = Unread \o b
  <2>1. PICK u: u = Unread
    OBVIOUS
  <2>2. IsSeq(u) /\ IsSeq(t) /\ IsSeq(rest)
    BY <2>1, LineFacts
  <2>3. Regroups(u, t, rest)
    BY <2>2, JoinJoined
  <2> QED
    BY <2>1, <2>3 DEF Regroups
<1>3. Line' = Unread \o b
  BY <1>1, <1>2 DEF Line
<1> QED
  BY <1>3, SendsBlock

\* A header and segments, and what is held back.
LEMMA AnswerFacts ==
  ASSUME NEW p \in Photos, NEW n \in 0..LastSegment(p)
  PROVE  LET a == <<Header(p)>> \o Segments(p, 1, n)
         IN  IsSeq(a) /\ Block(a, p) /\ Len(a) >= 1 /\ a[1] = Header(p) /\ a[1].type = "media"
<1> DEFINE a == <<Header(p)>> \o Segments(p, 1, n)
<1>1. n \in Nat /\ 1 \in Nat
  BY CutFacts
<1>2. IsSeq(<<Header(p)>>) /\ IsSeq(Segments(p, 1, n))
  BY <1>1, OneFacts, SegmentFacts
<1>3. IsSeq(a)
  BY <1>2, JoinFacts
<1>4. a \o <<>> = a
  BY <1>3, JoinEmpty
<1>5. Block(a \o <<>>, p) /\ Len(a \o <<>>) >= 1 /\ (a \o <<>>)[1] = Header(p)
  BY AnswerBlock
<1> QED
  BY <1>3, <1>4, <1>5, HeaderBlock

LEMMA FrameFlushesPhoto ==
  ASSUME IInv, PhotoInv, FrameFlushes, program' = program
  PROVE  PhotoInv'
<1>1. PICK p, from: p = stalled.of /\ from = stalled.from
  OBVIOUS
<1>2. /\ stalled # NotStalled /\ UNCHANGED <<program, callVars, accVars, echoes, queue, asked>>
      /\ stalled' = NotStalled /\ p \in Photos /\ from \in 1..LastSegment(p)
  BY <1>1, FrameFacts DEF FrameFlushes, FrameUnchanged
<1>3. Pending' = <<>> /\ IsSeq(<<>>)
  BY <1>2, EmptyFacts DEF Pending, NotStalled
<1>4. LastSegment(p) \in Nat \ {0} /\ from \in Nat \ {0}
  BY <1>2, CutFacts
<1>5. IsSeq(wire) /\ IsSeq(<<Header(p)>>) /\ IsSeq(Segments(p, 1, LastSegment(p)))
  BY <1>4, LineFacts, OneFacts, SegmentFacts
<1>6. CASE wire' = wire \o Segments(p, from, LastSegment(p))
  <2>1. PICK b: b = Segments(p, from, LastSegment(p))
    OBVIOUS
  <2>2. IsSeq(b) /\ Block(b, p) /\ Len(b) >= 1 /\ b[1] = Segment(p, from)
    BY <1>2, <1>4, <2>1, SegmentsBlock DEF Block
  <2>3. Pending = <<b[1]>> /\ b \o <<>> = b
    BY <1>1, <1>2, <2>2, JoinEmpty DEF Pending
  <2> QED
    BY <1>1, <1>2, <1>3, <1>6, <2>1, <2>2, <2>3, SendsPhoto
<1>7. CASE wire' = wire \o (<<Header(p)>> \o Segments(p, 1, LastSegment(p)))
  <2>1. PICK b: b = <<Header(p)>> \o Segments(p, 1, LastSegment(p))
    OBVIOUS
  <2>2. LastSegment(p) \in 0..LastSegment(p)
    BY <1>4
  <2>3. IsSeq(b) /\ Block(b, p) /\ Len(b) >= 1 /\ b[1].type = "media"
    BY <1>2, <2>1, <2>2, AnswerFacts
  <2>4. b \o <<>> = b
    BY <2>3, JoinEmpty
  <2> QED
    BY <1>1, <1>2, <1>3, <1>7, <2>1, <2>3, <2>4, SendsPhoto
<1>8. (wire \o <<Header(p)>>) \o Segments(p, 1, LastSegment(p)) = wire \o (<<Header(p)>> \o Segments(p, 1, LastSegment(p)))
  <2>1. Regroups(wire, <<Header(p)>>, Segments(p, 1, LastSegment(p)))
    BY <1>5, JoinJoined
  <2> QED
    BY <2>1 DEF Regroups
<1> QED
  BY <1>1, <1>6, <1>7, <1>8 DEF FrameFlushes, Stream

LEMMA FrameServesPhoto ==
  ASSUME IInv, PhotoInv, FrameServes, program' = program
  PROVE  PhotoInv'
<1>1. PICK p: p = Head(asked)
  OBVIOUS
<1>2. /\ UNCHANGED <<program, callVars, accVars, echoes, queue>> /\ asked # <<>> /\ asked' = Tail(asked)
      /\ p \in Photos /\ LastSegment(p) \in Nat \ {0}
  BY <1>1, FrameFacts, CutFacts DEF FrameServes, FrameUnchanged
<1>3. PICK cut \in 0..LastSegment(p),
           again \in {<<>>} \cup {<<Header(p)>> \o Segments(p, 1, n) : n \in 1..(LastSegment(p) - 1)}:
        /\ wire' = wire \o again \o <<Header(p)>> \o Segments(p, 1, cut)
        /\ stalled' = IF cut = LastSegment(p) THEN NotStalled ELSE [of |-> p, from |-> cut + 1]
  BY <1>1 DEF FrameServes
<1>4. PICK a, rest, b: /\ a = <<Header(p)>> \o Segments(p, 1, cut)
                       /\ rest = (IF cut = LastSegment(p) THEN <<>> ELSE <<Segment(p, cut + 1)>>)
                       /\ b = a \o rest
  OBVIOUS
<1>5. IsSeq(rest) /\ (rest = <<>> \/ (cut < LastSegment(p) /\ rest = <<Segment(p, cut + 1)>>))
  BY <1>2, <1>4, OneFacts, EmptyFacts
<1>6. Pending' = rest
  <2>1. CASE cut = LastSegment(p)
    BY <1>3, <1>4, <2>1 DEF Pending, NotStalled
  <2>2. CASE cut # LastSegment(p)
    <3>1. stalled' = [of |-> p, from |-> cut + 1] /\ rest = <<Segment(p, cut + 1)>> /\ p # NoPhoto
      BY <1>2, <1>3, <1>4, <2>2, PhotosAssumption
    <3> QED
      BY <3>1 DEF Pending, NotStalled, Segment
  <2> QED
    BY <2>1, <2>2
<1>7. IsSeq(a) /\ Block(b, p) /\ Len(b) >= 1 /\ b[1] = Header(p) /\ b[1].type = "media"
  BY <1>2, <1>4, <1>5, AnswerFacts, AnswerBlock, HeaderBlock
<1>8. IsSeq(wire) /\ IsSeq(<<Header(p)>>) /\ IsSeq(Segments(p, 1, cut)) /\ IsSeq(b)
  BY <1>2, <1>7, LineFacts, OneFacts, SegmentFacts DEF Block
<1>9. again = <<>> \/ (IsSeq(again) /\ Block(again, p) /\ Len(again) >= 1 /\ again[1].type = "media")
  <2>1. ASSUME again # <<>>
        PROVE  IsSeq(again) /\ Block(again, p) /\ Len(again) >= 1 /\ again[1].type = "media"
    <3>1. PICK n \in 1..(LastSegment(p) - 1): again = <<Header(p)>> \o Segments(p, 1, n)
      BY <1>3, <2>1
    <3>2. n \in 0..LastSegment(p)
      BY <1>2
    <3> QED
      BY <1>2, <3>1, <3>2, AnswerFacts
  <2> QED
    BY <2>1
<1>10. IsSeq(again)
  BY <1>9, EmptyFacts
<1>11. PICK t: t = again \o a
  OBVIOUS
<1>12. wire' = wire \o t
  <2>1. ((wire \o again) \o <<Header(p)>>) \o Segments(p, 1, cut) = (wire \o again) \o a
    <3>1. IsSeq(wire \o again)
      BY <1>8, <1>10, JoinFacts
    <3> QED
      <4>1. Regroups(wire \o again, <<Header(p)>>, Segments(p, 1, cut))
        BY <1>8, <3>1, JoinJoined
      <4> QED
        BY <1>4, <4>1 DEF Regroups
  <2>2. (wire \o again) \o a = wire \o t
    <3>1. IsSeq(wire) /\ IsSeq(again) /\ IsSeq(a)
      BY <1>7, <1>8, <1>10
    <3> QED
      <4>1. Regroups(wire, again, a)
        BY <3>1, JoinJoined
      <4> QED
        BY <1>11, <4>1 DEF Regroups
  <2> QED
    BY <1>3, <2>1, <2>2
<1>13. PICK c: c = t \o rest
  OBVIOUS
<1>14. c = again \o b /\ IsSeq(t)
  <2>1. IsSeq(again) /\ IsSeq(a) /\ IsSeq(rest)
    BY <1>5, <1>7, <1>10
  <2>2. IsSeq(t)
    BY <1>11, <2>1, JoinFacts
  <2>3. Regroups(again, a, rest)
    BY <2>1, JoinJoined
  <2> QED
    BY <1>4, <1>11, <1>13, <2>2, <2>3 DEF Regroups
<1>15. Block(c, p) /\ Len(c) >= 1 /\ c[1].type = "media"
  <2>1. CASE again = <<>>
    BY <1>7, <1>8, <1>14, <2>1, JoinEmpty
  <2>2. CASE again # <<>>
    <3>1. Block(c, p)
      BY <1>7, <1>9, <1>14, <2>2, BlocksJoin
    <3>2. Len(c) = Len(again) + Len(b) /\ c[1] = again[1]
      <4>1. /\ Len(c) = Len(again) + Len(b) /\ Len(again) \in Nat
            /\ \A i \in 1..Len(again): c[i] = again[i]
        BY <1>8, <1>10, <1>14, JoinFacts
      <4>2. 1 \in 1..Len(again)
        BY <1>9, <2>2, <4>1
      <4> QED
        BY <4>1, <4>2
    <3> QED
      BY <1>7, <1>8, <1>9, <1>10, <2>2, <3>1, <3>2, SeqFacts
  <2> QED
    BY <2>1, <2>2
<1> QED
  BY <1>1, <1>2, <1>5, <1>6, <1>12, <1>13, <1>14, <1>15, SendsPhoto
\* Nothing is taken and nothing is sent.
LEMMA SameLineKeeps ==
  ASSUME IInv, PhotoInv, UNCHANGED <<program, callVars, accVars, echoes, asked>>, Line' = Line
  PROVE  PhotoInv'
<1>1. LET m == Listing(<<>>) IN ~Fetched(m) /\ Genuine(m) /\ m.type \notin Media
  BY DEF Listing, Fetched, Genuine, Media
<1> QED
  BY <1>1, InsertsKeeps

\* What arrives was the next to be read before.
LEMMA ArrivesLine ==
  ASSUME IInv, Arrives
  PROVE  Line' = Line
<1>1. IsSeq(queue) /\ IsSeq(wire) /\ wire # <<>>
  BY LineFacts DEF Arrives
<1>2. PICK S, T: queue \in Seq(S) /\ wire \in Seq(T)
  BY <1>1 DEF IsSeq
<1>3. PICK q, w: q = queue /\ w = wire
  OBVIOUS
<1>4. q \in Seq(S \cup T) /\ w \in Seq(S \cup T) /\ w # <<>>
  BY <1>1, <1>2, <1>3
<1>5. Append(q, Head(w)) \o Tail(w) = q \o w
  <2>1. Append(q, Head(w)) = q \o <<Head(w)>> /\ <<Head(w)>> \in Seq(S \cup T) /\ Tail(w) \in Seq(S \cup T)
    BY <1>4
  <2>2. <<Head(w)>> \o Tail(w) = w
    BY <1>4
  <2>3. (q \o <<Head(w)>>) \o Tail(w) = q \o (<<Head(w)>> \o Tail(w))
    BY <1>4, <2>1, ConcatAssociative
  <2> QED
    BY <2>1, <2>2, <2>3
<1>6. Unread' = Unread /\ Pending' = Pending
  BY <1>3, <1>5 DEF Arrives, Unread, Pending, NotStalled, Segment
<1> QED
  BY <1>6 DEF Line

LEMMA ElsewherePhoto == ASSUME IInv, PhotoInv, Elsewhere PROVE PhotoInv'
<1>1. program' = program
  BY DEF Elsewhere
<1>2. CASE Arrives
  BY <1>1, <1>2, ArrivesLine, SameLineKeeps DEF Arrives
<1>3. CASE FrameFetches
  BY <1>1, <1>3, FrameServesPhoto, FrameRefusesPhoto, FrameFlushesPhoto DEF FrameFetches
<1>4. CASE ConnectionOrContextEnds
  BY <1>1, <1>4, SameLine, SameLineKeeps DEF ConnectionOrContextEnds
<1> QED
  BY <1>2, <1>3, <1>4 DEF Elsewhere

\* By the time of the requests no photo is gathered any more.
LEMMA RequestingPhoto == ASSUME IInv, PhotoInv, Requesting PROVE PhotoInv'
<1>1. /\ ~Running /\ UNCHANGED <<program, callVars, accVars, echoes, asked, wire, stalled>>
      /\ queue' = queue \/ (queue # <<>> /\ queue' = Tail(queue))
  BY DEF Requesting, FindsUnfit, Sends, StopsEarly, TakesAnswer, AckTimesOut, Asking
<1>2. CASE queue' = queue
  BY <1>1, <1>2, SameLine, SameLineKeeps
<1>3. CASE queue # <<>> /\ queue' = Tail(queue)
  <2>1. Suffix(Line, Line', 1) /\ Line # <<>> /\ Line[1] = Head(queue)
    BY <1>1, <1>3, TakenLine
  <2>2. header = NoPhoto
    BY <1>1 DEF PhotoInv, GatherInv
  <2>3. GatherInv'
    BY <1>1, <2>1, <2>2, PassedOver
  <2> QED
    BY <1>1, <2>1, <2>3, ReadKeeps
<1> QED
  BY <1>1, <1>2, <1>3

LEMMA NextPhoto == ASSUME IInv, TypeOK, PhotoInv, [Next]_vars PROVE PhotoInv'
<1>1. CASE UNCHANGED vars
  BY <1>1, SameLine, SameLineKeeps
<1> QED
  BY <1>1, FetchingPhoto, RequestingPhoto, FrameWorksPhoto, ElsewherePhoto DEF Next

LEMMA InitPhoto == ASSUME Init PROVE PhotoInv
<1>1. /\ queue = <<>> /\ wire = <<>> /\ stalled = NotStalled /\ asked = <<>> /\ header = NoPhoto /\ results = <<>>
  BY DEF Init, FetchInit
<1>2. Line = <<>>
  BY <1>1 DEF Line, Unread, Pending
<1>3. Len(Line) = 0 /\ In(Line) = {} /\ In(asked) = {} /\ Len(asked) = 0 /\ Len(results) = 0
  BY <1>1, <1>2, EmptyFacts
<1>4. LineInv /\ GottenInv
  BY <1>1, <1>3 DEF LineInv, Chained, GottenInv
<1>5. OrderInv
  BY <1>3 DEF OrderInv, NothingAfter, Sorted, OnlyOf
<1>6. GatherInv /\ ResultInv
  BY <1>1, <1>3 DEF GatherInv, ResultInv, RightPhoto, NoFalseRefusal
<1> QED
  BY <1>4, <1>5, <1>6 DEF PhotoInv
-------------------------------------------------------------------------------
(* Types *)

Msgs == MediaMsgs \cup AnswerMsgs

LinkTypes == queue \in Seq(Msgs) /\ Len(queue) <= QueueCap /\ wire \in Seq(Msgs)

RequestTypes ==
  /\ req \in 1..(Len(program.requests) + 1)
  /\ req \in Numbers => sent \in 0..Messages(req)
  /\ Len(outcomes) = req - 1
  /\ \A k \in DOMAIN outcomes: outcomes[k].what \in {"ok", "refused", "timeout", "unfit", "over"}

DeedTypes ==
  /\ toFrame \in Seq([req: Numbers, n: Nat]) /\ open \in Seq([req: Numbers, n: Nat])
  /\ files \in [Numbers -> Seq([req: Numbers, n: Nat])]
  /\ library \in [Numbers -> Kept]
  /\ did \in [Numbers -> {"nothing", "ok", "refused"}]

LEMMA TypeParts == TypeOK <=> FetchTypes /\ over \in BOOLEAN /\ LinkTypes /\ RequestTypes /\ DeedTypes
BY DEF TypeOK, LinkTypes, RequestTypes, DeedTypes, Msgs

LEMMA SameTypes ==
  ASSUME program' = program
  PROVE  /\ Msgs' = Msgs
         /\ UNCHANGED requestVars /\ RequestTypes => RequestTypes'
         /\ UNCHANGED deedVars /\ DeedTypes => DeedTypes'
BY SameProgram DEF Msgs, AnswerMsgs, RequestTypes, DeedTypes

\* Reading leaves messages behind, and sending adds some.
LEMMA ShorterTypes ==
  ASSUME TypeOK, program' = program,
         \/ UNCHANGED <<queue, wire>>
         \/ queue # <<>> /\ queue' = Tail(queue) /\ wire' = wire
         \/ Discards
  PROVE  LinkTypes'
<1>1. queue \in Seq(Msgs) /\ Len(queue) <= QueueCap /\ wire \in Seq(Msgs) /\ QueueCap \in Nat
  BY TypeParts, BoundAssumption DEF LinkTypes
<1>2. CASE UNCHANGED <<queue, wire>>
  BY <1>1, <1>2, SameTypes DEF LinkTypes
<1>3. CASE queue # <<>> /\ queue' = Tail(queue) /\ wire' = wire
  <2>1. queue' \in Seq(Msgs) /\ Len(queue') = Len(queue) - 1 /\ Len(queue) \in Nat
    BY <1>1, <1>3
  <2>2. Len(queue') <= QueueCap
    BY <1>1, <2>1
  <2> QED
    BY <1>1, <1>3, <2>1, <2>2, SameTypes DEF LinkTypes
<1>4. CASE Discards
  <2>1. PICK lost \in 0..Len(wire): wire' = SubSeq(wire, lost + 1, Len(wire))
    BY <1>4 DEF Discards
  <2>2. wire' \in Seq(Msgs) /\ queue' = <<>>
    BY <1>1, <1>4, <2>1 DEF Discards
  <2> QED
    BY <1>1, <2>2, SameTypes DEF LinkTypes
<1> QED
  BY <1>2, <1>3, <1>4

LEMMA LongerTypes ==
  ASSUME TypeOK, program' = program, queue' = queue, NEW t, t \in Seq(Msgs), wire' = wire \o t
  PROVE  LinkTypes'
<1>1. queue \in Seq(Msgs) /\ Len(queue) <= QueueCap /\ wire \in Seq(Msgs)
  BY TypeParts DEF LinkTypes
<1>2. wire' \in Seq(Msgs)
  BY <1>1
<1> QED
  BY <1>1, <1>2, SameTypes DEF LinkTypes

LEMMA DataTypes ==
  ASSUME NEW m, Genuine(m), m.type = "data"
  PROVE  Data(m) \in Seq(AnyPiece)
<1>1. PICK p, k: p \in Photos /\ k \in 1..LastSegment(p) /\ m = Segment(p, k)
  BY DEF Genuine
<1>2. /\ (k - 1) * Chunk \in Nat /\ Upto(p, k) \in Nat /\ (k - 1) * Chunk <= Upto(p, k)
      /\ Data(m) = Pieces(p, (k - 1) * Chunk + 1, Upto(p, k))
  BY <1>1, UptoFacts
<1>3. PICK n \in Nat, to \in Nat: n <= to /\ Data(m) = Pieces(p, n + 1, to)
  BY <1>2
<1> QED
  BY <1>1, <1>3, PieceFacts

Outcome == [what: {"ok", "timeout", "refused", "surplus", "unfit", "over"},
            of: Photos \cup {NoPhoto}, data: Seq(AnyPiece)]

LEMMA EndsTypes ==
  ASSUME IInv, TypeOK, Running, UNCHANGED <<program, asked, stalled, echoes>>,
         NEW what, NEW of, NEW data, Ends(what, of, data), [what |-> what, of |-> of, data |-> data] \in Outcome
  PROVE  FetchTypes'
<1>1. /\ call \in 1..(Len(program.gets) + 1) /\ results \in Seq(Outcome) /\ Len(results) = call - 1
      /\ asked \in Seq(Photos) /\ stalled \in [of: Photos \cup {NoPhoto}, from: Nat] /\ echoes \in BOOLEAN
  BY TypeParts DEF FetchTypes, Outcome
<1>2. PICK len: len = Len(program.gets)
  OBVIOUS
<1>3. len \in Nat /\ call <= len
  BY <1>2 DEF IInv, FrameInv, Running
<1>4. call' \in 1..(len + 1) /\ call' = call + 1
  BY <1>1, <1>2, <1>3 DEF Ends
<1>5. results' \in Seq(Outcome) /\ Len(results') = call' - 1
  BY <1>1, <1>4 DEF Ends
<1>6. attempt' \in 1..Attempts /\ cpc' = "ask" /\ header' = NoPhoto /\ acc' = <<>>
  BY BoundAssumption DEF Ends
<1>7. acc' \in Seq(AnyPiece)
  BY <1>6
<1> QED
  BY <1>1, <1>2, <1>4, <1>5, <1>6, <1>7 DEF FetchTypes, Outcome
LEMMA NextParts ==
  ASSUME FetchTypes', over' \in BOOLEAN, LinkTypes', RequestTypes', DeedTypes'
  PROVE  TypeOK'
BY DEF TypeOK, LinkTypes, RequestTypes, DeedTypes, Msgs

\* What the fetching of photos keeps: the types of the client's side.
LEMMA FetchingTypes == ASSUME IInv, TypeOK, PhotoInv, Fetching PROVE TypeOK'
<1>1. /\ UNCHANGED <<program, requestVars, deedVars, stalled, echoes, over>> /\ Running
      /\ FetchTypes /\ over \in BOOLEAN /\ RequestTypes /\ DeedTypes
  BY TypeParts DEF Fetching, GetMedia, Asks, EndsEarly, TakesHeader, TakesRefusal, TakesSegment, Takes,
              EndsUnfit, TimesOut
<1>2. LinkTypes'
  <2>1. \/ UNCHANGED <<queue, wire>>
        \/ queue # <<>> /\ queue' = Tail(queue) /\ wire' = wire
        \/ Discards
    BY DEF Fetching, GetMedia, Asks, EndsEarly, TakesHeader, TakesRefusal, TakesSegment, Takes,
              EndsUnfit, TimesOut
  <2> QED
    BY <1>1, <2>1, ShorterTypes
<1>3. /\ call \in 1..(Len(program.gets) + 1) /\ attempt \in 1..Attempts /\ header \in Photos \cup {NoPhoto}
      /\ acc \in Seq(AnyPiece) /\ results \in Seq(Outcome) /\ Len(results) = call - 1
      /\ asked \in Seq(Photos) /\ stalled \in [of: Photos \cup {NoPhoto}, from: Nat] /\ echoes \in BOOLEAN
      /\ cpc \in {"ask", "await"} /\ Attempts \in Nat
  BY <1>1, BoundAssumption DEF FetchTypes, Outcome
<1>4. <<>> \in Seq(AnyPiece)
  OBVIOUS
<1>13. FetchTypes' => TypeOK'
  BY <1>1, <1>2, SameTypes, NextParts
<1>5. CASE Asks
  <2>1. asked' \in Seq(Photos)
    BY <1>1, <1>3, <1>5 DEF Asks, IInv, FrameInv, Wanted, Running
  <2> QED
    BY <1>1, <1>3, <1>5, <1>13, <2>1 DEF Asks, FetchTypes, Outcome
<1>6. CASE EndsEarly
  <2>1. [what |-> "over", of |-> NoPhoto, data |-> <<>>] \in Outcome
    BY <1>4 DEF Outcome
  <2>2. FetchTypes'
    BY <1>1, <1>6, <2>1, EndsTypes DEF EndsEarly
  <2> QED
    BY <1>13, <2>2
<1>7. ASSUME NEW type, Takes(type)
      PROVE  Genuine(Head(queue)) /\ Head(queue).type = type /\ UNCHANGED asked
  BY <1>7, TakesFacts
<1>8. CASE TakesHeader
  <2>1. Head(queue).of \in Photos /\ asked' = asked
    BY <1>7, <1>8 DEF TakesHeader, Genuine
  <2>2. FetchTypes'
    BY <1>1, <1>3, <1>4, <1>8, <2>1 DEF TakesHeader, FetchTypes, Outcome
  <2> QED
    BY <1>13, <2>2
<1>9. CASE TakesRefusal
  <2>1. PICK of: of = Head(queue).of
    OBVIOUS
  <2>2. of \in Photos /\ asked' = asked
    BY <1>7, <1>9, <2>1 DEF TakesRefusal, Genuine
  <2>3. [what |-> "refused", of |-> of, data |-> <<>>] \in Outcome
    BY <1>4, <2>2 DEF Outcome
  <2>4. FetchTypes'
    <3>1. CASE Ends("refused", of, <<>>)
      BY <1>1, <2>2, <2>3, <3>1, EndsTypes
    <3>2. CASE UNCHANGED <<callVars, accVars>>
      BY <1>1, <1>3, <2>2, <3>2 DEF FetchTypes, Outcome
    <3> QED
      BY <1>9, <2>1, <3>1, <3>2 DEF TakesRefusal
  <2> QED
    BY <1>13, <2>4
<1>10. ASSUME NEW data \in Seq(AnyPiece), header # NoPhoto, Len(data) >= Size[header], Finished(data), asked' = asked
       PROVE  FetchTypes'
  <2>1. PICK p \in Photos: p = header
    BY <1>3, <1>10
  <2>2. Size[p] \in Nat
    BY PhotosAssumption
  <2>3. PICK kept \in Seq(AnyPiece): kept = SubSeq(data, 1, Size[header])
    <3>1. PICK n \in Nat: n = Size[header]
      BY <2>1, <2>2
    <3>2. n <= Len(data)
      BY <1>10, <3>1
    <3>3. SubSeq(data, 1, n) \in Seq(AnyPiece)
      BY <1>10, <3>2
    <3> QED
      BY <3>1, <3>3
  <2>4. [what |-> "ok", of |-> p, data |-> kept] \in Outcome
    BY DEF Outcome
  <2> QED
    BY <1>1, <1>10, <2>1, <2>3, <2>4, EndsTypes DEF Finished
<1>11. CASE TakesSegment
  <2>1. PICK got: got = acc \o Data(Head(queue))
    OBVIOUS
  <2>2. Data(Head(queue)) \in Seq(AnyPiece) /\ asked' = asked
    BY <1>7, <1>11, DataTypes DEF TakesSegment
  <2>3. got \in Seq(AnyPiece)
    BY <1>3, <2>1, <2>2
  <2>4. FetchTypes'
    <3>1. CASE UNCHANGED <<callVars, accVars>>
      BY <1>1, <1>3, <2>2, <3>1 DEF FetchTypes, Outcome
    <3>2. CASE acc' = got /\ UNCHANGED <<callVars, header>>
      BY <1>1, <1>3, <2>2, <2>3, <3>2 DEF FetchTypes, Outcome
    <3>3. CASE Ends("surplus", NoPhoto, <<>>)
      <4>1. [what |-> "surplus", of |-> NoPhoto, data |-> <<>>] \in Outcome
        BY <1>4 DEF Outcome
      <4> QED
        BY <1>1, <2>2, <3>3, <4>1, EndsTypes
    <3>4. CASE header # NoPhoto /\ Finished(got) /\ ~(Len(got) < Total(header))
      <4>1. PICK p \in Photos: p = header
        BY <1>3, <3>4
      <4>2. Size[p] <= Total(p) /\ Total(p) \in Nat /\ Size[p] \in Nat /\ Len(got) \in Nat
        BY <2>3, CutFacts
      <4>3. Len(got) >= Size[header]
        BY <3>4, <4>1, <4>2
      <4> QED
        BY <1>10, <2>2, <2>3, <3>4, <4>3
    <3> QED
      BY <1>11, <2>1, <3>1, <3>2, <3>3, <3>4 DEF TakesSegment
  <2> QED
    BY <1>13, <2>4
<1>12. CASE TimesOut
  <2>1. asked' = asked
    BY <1>12 DEF TimesOut
  <2>2. FetchTypes'
    <3>1. CASE header # NoPhoto /\ Len(acc) >= Size[header] /\ Finished(acc)
      BY <1>3, <1>10, <2>1, <3>1
    <3>2. CASE /\ attempt < Attempts /\ attempt' = attempt + 1 /\ cpc' = "ask"
               /\ header' = NoPhoto /\ acc' = <<>> /\ UNCHANGED <<call, results>>
      BY <1>1, <1>3, <1>4, <2>1, <3>2 DEF FetchTypes, Outcome
    <3>3. CASE Ends("timeout", NoPhoto, <<>>)
      <4>1. [what |-> "timeout", of |-> NoPhoto, data |-> <<>>] \in Outcome
        BY <1>4 DEF Outcome
      <4> QED
        BY <1>1, <2>1, <3>3, <4>1, EndsTypes
    <3> QED
      BY <1>12, <3>1, <3>2, <3>3 DEF TimesOut
  <2> QED
    BY <1>13, <2>2
<1>14. CASE EndsUnfit
  <2>1. asked' = asked /\ Ends("unfit", NoPhoto, <<>>)
    BY <1>14 DEF EndsUnfit, Takes
  <2>2. [what |-> "unfit", of |-> NoPhoto, data |-> <<>>] \in Outcome
    BY <1>4 DEF Outcome
  <2>3. FetchTypes'
    BY <1>1, <2>1, <2>2, EndsTypes
  <2> QED
    BY <1>13, <2>3
<1> QED
  BY <1>5, <1>6, <1>8, <1>9, <1>11, <1>12, <1>14 DEF Fetching, GetMedia
LEMMA RequestingTypes == ASSUME IInv, TypeOK, PhotoInv, Requesting, TypeInv' PROVE TypeOK'
<1>1. /\ UNCHANGED <<program, callVars, accVars, frameVars, over, wire>> /\ Asking
      /\ FetchTypes /\ over \in BOOLEAN /\ LinkTypes /\ RequestTypes /\ DeedTypes
  BY TypeParts DEF Requesting, FindsUnfit, Sends, StopsEarly, TakesAnswer, AckTimesOut
<1>2. FetchTypes' /\ over' \in BOOLEAN
  BY <1>1 DEF FetchTypes
<1>3. LinkTypes'
  <2>1. UNCHANGED <<queue, wire>> \/ (queue # <<>> /\ queue' = Tail(queue) /\ wire' = wire)
    BY <1>1 DEF Requesting, FindsUnfit, Sends, StopsEarly, TakesAnswer, AckTimesOut
  <2> QED
    BY <1>1, <2>1, ShorterTypes
<1>4. /\ req' \in 1..(Len(program.requests) + 1) /\ Len(outcomes') = req' - 1
      /\ req' \in Numbers => sent' \in 0..Messages(req')
  <2>1. /\ req' \in 1..(Len(program'.requests) + 1) /\ Len(outcomes') = req' - 1 /\ sent' \in Nat
        /\ \A k \in Numbers: k = req' => sent' <= Messages(k)
    BY <1>1, SameProgram DEF TypeInv
  <2>2. \A k \in Numbers: Messages(k) \in Nat
    BY RequestFacts DEF IInv, TypeInv
  <2> QED
    BY <1>1, <2>1, <2>2
<1>5. \A k \in DOMAIN outcomes': outcomes'[k].what \in {"ok", "refused", "timeout", "unfit", "over"}
  <2>1. CASE outcomes' = outcomes
    BY <1>1, <2>1 DEF RequestTypes
  <2>2. ASSUME NEW what \in {"ok", "refused", "timeout", "unfit", "over"}, NEW items, Settles(what, items)
        PROVE  \A k \in DOMAIN outcomes': outcomes'[k].what \in {"ok", "refused", "timeout", "unfit", "over"}
    <3>1. PICK o, x: o = outcomes /\ x = [what |-> what, items |-> items]
      OBVIOUS
    <3>2. IsSeq(o) /\ outcomes' = Append(o, x)
      BY <2>2, <3>1 DEF Settles, IInv, TypeInv
    <3>3. /\ Len(o) \in Nat /\ DOMAIN o = 1..Len(o) /\ DOMAIN outcomes' = 1..(Len(o) + 1)
          /\ outcomes'[Len(o) + 1] = x /\ \A i \in 1..Len(o): outcomes'[i] = o[i]
      BY <3>2, SeqFacts, AppendFacts
    <3>4. \A k \in 1..(Len(o) + 1): k \in 1..Len(o) \/ k = Len(o) + 1
      BY <3>3
    <3> QED
      BY <1>1, <2>2, <3>1, <3>3, <3>4 DEF RequestTypes
  <2>3. \/ outcomes' = outcomes
        \/ \E what \in {"ok", "refused", "timeout", "unfit", "over"}: \E items: Settles(what, items)
    BY DEF Requesting, FindsUnfit, Sends, StopsEarly, TakesAnswer, AckTimesOut
  <2> QED
    BY <2>1, <2>2, <2>3
<1>6. RequestTypes'
  BY <1>1, <1>4, <1>5, SameProgram DEF RequestTypes
<1>7. DeedTypes'
  <2>1. CASE UNCHANGED deedVars
    BY <1>1, <2>1, SameTypes
  <2>2. CASE Sends
    <3>1. sent \in Nat /\ req \in Numbers
      BY <1>1 DEF Asking, IInv, TypeInv
    <3>2. Message(req, sent + 1) \in [req: Numbers, n: Nat]
      BY <3>1 DEF Message
    <3>3. toFrame' \in Seq([req: Numbers, n: Nat])
      BY <1>1, <2>2, <3>2 DEF Sends, DeedTypes
    <3> QED
      BY <1>1, <2>2, <3>3, SameProgram DEF Sends, DeedTypes
  <2> QED
    BY <2>1, <2>2 DEF Requesting, FindsUnfit, StopsEarly, TakesAnswer, AckTimesOut
<1> QED
  BY <1>2, <1>3, <1>6, <1>7, NextParts

LEMMA FrameWorksTypes == ASSUME IInv, TypeOK, FrameWorks, IInv' PROVE TypeOK'
<1> DEFINE M == [req: Numbers, n: Nat]
<1>1. /\ UNCHANGED <<program, callVars, accVars, frameVars, over, queue, requestVars>> /\ FrameTakes
      /\ FetchTypes /\ over \in BOOLEAN /\ LinkTypes /\ RequestTypes /\ DeedTypes
  BY TypeParts DEF FrameWorks, FrameCollects, FrameActs, FrameLists, FrameTakes
<1>2. FetchTypes' /\ over' \in BOOLEAN /\ RequestTypes'
  BY <1>1, SameTypes DEF FetchTypes
<1>3. /\ toFrame \in Seq(M) /\ toFrame # <<>> /\ toFrame' = Tail(toFrame) /\ open \in Seq(M)
      /\ files \in [Numbers -> Seq(M)] /\ library \in [Numbers -> Kept]
      /\ did \in [Numbers -> {"nothing", "ok", "refused"}]
  BY <1>1 DEF FrameTakes, DeedTypes
<1> HIDE DEF M
<1>4. toFrame' \in Seq(M) /\ Arrived \in M
  <2>1. Head(toFrame) \in M /\ Tail(toFrame) \in Seq(M)
    BY <1>3
  <2> QED
    BY <1>3, <2>1 DEF Arrived
<1>5. open' \in Seq(M)
  <2>1. open' \in {open, <<>>, <<Arrived>>, Append(open, Arrived)}
    BY DEF FrameWorks, FrameCollects, FrameActs, FrameLists
  <2>2. <<>> \in Seq(M) /\ <<Arrived>> \in Seq(M) /\ Append(open, Arrived) \in Seq(M)
    BY <1>3, <1>4
  <2> QED
    BY <1>3, <2>1, <2>2
<1> USE DEF M
<1>6. files' \in [Numbers -> Seq(M)]
  <2>1. CASE files' = files
    BY <1>3, <2>1
  <2>2. CASE files' = [files EXCEPT ![Arrived.req] = Append(open, Arrived)]
    <3>1. Append(open, Arrived) \in Seq(M)
      BY <1>3, <1>4
    <3> QED
      BY <1>3, <2>2, <3>1
  <2> QED
    BY <2>1, <2>2 DEF FrameWorks, FrameCollects, FrameActs, FrameLists
<1>7. library' \in [Numbers -> Kept]
  <2>1. CASE library' = library
    BY <1>3, <2>1
  <2>2. CASE FrameActs /\ library' = Granted(Arrived.req)
    <3>1. Request(Arrived.req).kind # "list" /\ Arrived.req \in Numbers
      BY <1>4, <2>2 DEF FrameActs, ArrivedKind
    <3>2. PICK k \in Numbers, s \in Numbers: k = Arrived.req /\ s = Subject(k)
      BY <3>1, RequestFacts DEF IInv, TypeInv
    <3>3. Request(k) \in Requests /\ Request(k).kind # "list"
      BY <3>1, <3>2, RequestFacts DEF IInv, TypeInv
    <3>4. Request(k).kind \in {"photo", "delete", "hide", "show"}
      BY <3>3 DEF Requests, Changes
    <3>5. Granted(k) \in [Numbers -> Kept]
      BY <1>3, <3>2, <3>4 DEF Granted, Kept
    <3> QED
      BY <2>2, <3>2, <3>5
  <2> QED
    BY <2>1, <2>2 DEF FrameWorks, FrameCollects, FrameActs, FrameLists
<1>8. DeedTypes'
  BY <1>1, <1>4, <1>5, <1>6, <1>7, SameProgram DEF DeedTypes, IInv, TypeInv
<1>9. LinkTypes'
  <2>1. \A ok \in BOOLEAN: Ack(Arrived.req, ok) \in Msgs
    BY <1>4 DEF Ack, Msgs, AnswerMsgs
  <2>2. Listing(library) \in Msgs
    BY <1>3 DEF Listing, Msgs, AnswerMsgs
  <2>3. wire' = wire \/ \E m \in Msgs: wire' = Append(wire, m)
    BY <2>1, <2>2 DEF FrameWorks, FrameCollects, FrameActs, FrameLists
  <2>4. CASE wire' = wire
    BY <1>1, <2>4, ShorterTypes
  <2>5. ASSUME NEW m \in Msgs, wire' = Append(wire, m)
        PROVE  LinkTypes'
    <3>1. <<m>> \in Seq(Msgs) /\ wire' = wire \o <<m>>
      BY <1>1, <2>5 DEF LinkTypes
    <3> QED
      BY <1>1, <3>1, LongerTypes
  <2> QED
    BY <2>3, <2>4, <2>5
<1> QED
  BY <1>2, <1>8, <1>9, NextParts
LEMMA HeaderType == ASSUME TypeOK, NEW p \in Photos PROVE <<Header(p)>> \in Seq(Msgs)
<1>1. Header(p) \in MediaMsgs
  BY TypeParts DEF FetchTypes, Header, MediaMsgs
<1> QED
  BY <1>1 DEF Msgs

LEMMA SegmentsType ==
  ASSUME NEW p \in Photos, NEW from \in Nat, NEW to \in Nat
  PROVE  Segments(p, from, to) \in Seq(Msgs)
<1>1. PICK n \in Nat: 1..(to + 1 - from) = 1..n
  <2>1. CASE to + 1 - from >= 0
    <3>1. to + 1 - from \in Nat
      BY <2>1
    <3> QED
      BY <3>1
  <2>2. CASE to + 1 - from < 0
    <3>1. 1..(to + 1 - from) = 1..0
      BY <2>2
    <3> QED
      BY <3>1
  <2> QED
    BY <2>1, <2>2
<1>2. \A i \in 1..n: Segment(p, from + i - 1) \in Msgs
  BY DEF Segment, Msgs, MediaMsgs
<1>3. Segments(p, from, to) = [i \in 1..n |-> Segment(p, from + i - 1)]
  BY <1>1 DEF Segments
<1> QED
  BY <1>2, <1>3

LEMMA ElsewhereTypes == ASSUME IInv, TypeOK, PhotoInv, Elsewhere PROVE TypeOK'
<1>1. /\ UNCHANGED <<program, callVars, accVars, echoes, requestVars, deedVars>> /\ over' \in BOOLEAN
      /\ FetchTypes /\ over \in BOOLEAN /\ LinkTypes /\ RequestTypes /\ DeedTypes
  BY TypeParts DEF Elsewhere, Arrives, FrameFetches, FrameServes, FrameRefuses, FrameIgnores, FrameFlushes,
                   FrameUnchanged, ConnectionOrContextEnds
<1>2. /\ queue \in Seq(Msgs) /\ Len(queue) <= QueueCap /\ wire \in Seq(Msgs) /\ QueueCap \in Nat
      /\ asked \in Seq(Photos) /\ stalled \in [of: Photos \cup {NoPhoto}, from: Nat]
  BY <1>1, BoundAssumption DEF LinkTypes, FetchTypes
<1>3. ASSUME LinkTypes', asked' \in Seq(Photos), stalled' \in [of: Photos \cup {NoPhoto}, from: Nat]
      PROVE  TypeOK'
  <2>1. FetchTypes'
    BY <1>1, <1>3 DEF FetchTypes
  <2> QED
    BY <1>1, <1>3, <2>1, SameTypes, NextParts
<1>4. CASE Arrives
  <2>1. UNCHANGED <<asked, stalled>> /\ wire # <<>> /\ Len(queue) < QueueCap
        /\ queue' = Append(queue, Head(wire)) /\ wire' = Tail(wire)
    BY <1>4 DEF Arrives
  <2>2. Head(wire) \in Msgs /\ Tail(wire) \in Seq(Msgs)
    BY <1>2, <2>1
  <2>3. queue' \in Seq(Msgs) /\ Len(queue') = Len(queue) + 1 /\ Len(queue) \in Nat
    BY <1>2, <2>1, <2>2
  <2>4. LinkTypes'
    BY <1>1, <1>2, <2>1, <2>2, <2>3, SameTypes DEF LinkTypes
  <2> QED
    BY <1>2, <1>3, <2>1, <2>4
<1>5. CASE ConnectionOrContextEnds
  <2>1. UNCHANGED <<asked, stalled, queue, wire>>
    BY <1>5 DEF ConnectionOrContextEnds
  <2> QED
    BY <1>1, <1>2, <1>3, <2>1, ShorterTypes
<1>6. asked # <<>> => Tail(asked) \in Seq(Photos) /\ Head(asked) \in Photos
  BY <1>2
<1>7. NotStalled \in [of: Photos \cup {NoPhoto}, from: Nat]
  BY DEF NotStalled
<1>8. CASE FrameServes
  <2>1. PICK p \in Photos: p = Head(asked)
    BY <1>6, <1>8 DEF FrameServes
  <2>2. PICK cut \in 0..LastSegment(p),
             again \in {<<>>} \cup {<<Header(p)>> \o Segments(p, 1, n) : n \in 1..(LastSegment(p) - 1)}:
          /\ wire' = wire \o again \o <<Header(p)>> \o Segments(p, 1, cut)
          /\ stalled' = IF cut = LastSegment(p) THEN NotStalled ELSE [of |-> p, from |-> cut + 1]
    BY <1>8, <2>1 DEF FrameServes
  <2>3. cut \in Nat /\ 1 \in Nat /\ LastSegment(p) \in Nat
    BY CutFacts
  <2>4. <<Header(p)>> \in Seq(Msgs) /\ \A n \in Nat: Segments(p, 1, n) \in Seq(Msgs)
    BY HeaderType, SegmentsType
  <2>5. again \in Seq(Msgs)
    <3>1. CASE again = <<>>
      BY <3>1
    <3>2. CASE again # <<>>
      <4>1. PICK n \in 1..(LastSegment(p) - 1): again = <<Header(p)>> \o Segments(p, 1, n)
        BY <2>2, <3>2
      <4>2. n \in Nat
        BY <2>3
      <4> QED
        BY <2>4, <4>1, <4>2
    <3> QED
      BY <3>1, <3>2
  <2>6. wire' \in Seq(Msgs)
    BY <1>2, <2>2, <2>3, <2>4, <2>5
  <2>7. LinkTypes'
    BY <1>1, <1>2, <1>8, <2>6, SameTypes DEF LinkTypes, FrameServes, FrameUnchanged
  <2>8. stalled' \in [of: Photos \cup {NoPhoto}, from: Nat]
    BY <1>7, <2>2, <2>3
  <2> QED
    BY <1>3, <1>6, <1>8, <2>7, <2>8 DEF FrameServes
<1>9. CASE FrameRefuses
  <2>1. Refusal(Head(asked)) \in Msgs
    BY <1>1, <1>6, <1>9 DEF FrameRefuses, Refusal, Msgs, MediaMsgs, FetchTypes
  <2>2. wire' \in Seq(Msgs) /\ UNCHANGED <<queue, stalled>> /\ asked' = Tail(asked)
    BY <1>2, <1>9, <2>1 DEF FrameRefuses, FrameUnchanged
  <2>3. LinkTypes'
    BY <1>1, <1>2, <2>2, SameTypes DEF LinkTypes
  <2> QED
    BY <1>2, <1>3, <1>6, <1>9, <2>2, <2>3 DEF FrameRefuses
<1>10. CASE FrameIgnores
  <2>1. UNCHANGED <<queue, wire, stalled>> /\ asked' = Tail(asked) /\ asked # <<>>
    BY <1>10 DEF FrameIgnores, FrameUnchanged
  <2> QED
    BY <1>1, <1>2, <1>3, <1>6, <2>1, ShorterTypes
<1>11. CASE FrameFlushes
  <2>1. PICK p \in Photos, from \in Nat: p = stalled.of /\ from = stalled.from
    BY <1>11, LineFacts DEF FrameFlushes
  <2>2. LastSegment(p) \in Nat /\ 1 \in Nat
    BY CutFacts
  <2>3. /\ <<Header(p)>> \in Seq(Msgs) /\ Segments(p, from, LastSegment(p)) \in Seq(Msgs)
        /\ Segments(p, 1, LastSegment(p)) \in Seq(Msgs)
    BY <2>2, HeaderType, SegmentsType
  <2>4. wire' \in Seq(Msgs)
    <3>1. \/ wire' = wire \o Segments(p, from, LastSegment(p))
          \/ wire' = wire \o <<Header(p)>> \o Segments(p, 1, LastSegment(p))
          \/ wire' = wire \o (<<Header(p)>> \o Segments(p, 1, LastSegment(p)))
      BY <1>11, <2>1 DEF FrameFlushes, Stream
    <3>2. PICK w \in Seq(Msgs), h \in Seq(Msgs), a \in Seq(Msgs), s \in Seq(Msgs):
            /\ w = wire /\ h = <<Header(p)>>
            /\ a = Segments(p, from, LastSegment(p)) /\ s = Segments(p, 1, LastSegment(p))
      BY <1>2, <2>3
    <3>3. w \o a \in Seq(Msgs) /\ w \o h \o s \in Seq(Msgs) /\ w \o (h \o s) \in Seq(Msgs)
      OBVIOUS
    <3> QED
      BY <3>1, <3>2, <3>3
  <2>5. LinkTypes'
    BY <1>1, <1>2, <1>11, <2>4, SameTypes DEF LinkTypes, FrameFlushes, FrameUnchanged
  <2> QED
    BY <1>2, <1>3, <1>7, <1>11, <2>5 DEF FrameFlushes
<1> QED
  BY <1>4, <1>5, <1>8, <1>9, <1>10, <1>11 DEF Elsewhere, FrameFetches

LEMMA NextTypes == ASSUME IInv, TypeOK, PhotoInv, [Next]_vars, IInv' PROVE TypeOK'
<1>1. CASE UNCHANGED vars
  <2>1. program' = program /\ FetchTypes /\ over \in BOOLEAN /\ LinkTypes /\ RequestTypes /\ DeedTypes
    BY <1>1, TypeParts
  <2>2. FetchTypes' /\ over' \in BOOLEAN /\ LinkTypes' /\ RequestTypes' /\ DeedTypes'
    BY <1>1, <2>1, SameTypes DEF FetchTypes, LinkTypes
  <2> QED
    BY <2>2, NextParts
<1> QED
  BY <1>1, FetchingTypes, RequestingTypes, FrameWorksTypes, ElsewhereTypes DEF Next, IInv

LEMMA InitTypes == ASSUME Init PROVE TypeOK
<1>1. program.gets \in Seq(Photos) /\ program.requests \in Seq(Requests)
  BY PhotosAssumption, RequestsAssumption DEF Init, FetchInit
<1>2. Len(program.gets) \in Nat /\ Len(program.requests) \in Nat
  BY <1>1
<1>3. /\ <<>> \in Seq(AnyPiece) /\ <<>> \in Seq(Outcome) /\ <<>> \in Seq(Photos) /\ <<>> \in Seq(Msgs)
      /\ <<>> \in Seq([req: Numbers, n: Nat])
  OBVIOUS
<1>4. FetchTypes
  <2>1. call = 1 /\ call \in 1..(Len(program.gets) + 1) /\ attempt \in 1..Attempts
    BY <1>2, BoundAssumption DEF Init, FetchInit
  <2>2. stalled \in [of: Photos \cup {NoPhoto}, from: Nat]
    BY DEF Init, FetchInit, NotStalled
  <2>3. results \in Seq(Outcome) /\ Len(results) = call - 1
    BY <1>3, <2>1 DEF Init, FetchInit
  <2> QED
    <3>1. cpc = "ask" /\ header = NoPhoto /\ acc = <<>> /\ asked = <<>> /\ echoes \in BOOLEAN
      BY DEF Init, FetchInit
    <3>2. acc \in Seq(AnyPiece) /\ asked \in Seq(Photos)
      BY <1>3, <3>1
    <3>3. cpc \in {"ask", "await"} /\ header \in Photos \cup {NoPhoto}
      BY <3>1
    <3> QED
      BY <2>1, <2>2, <2>3, <3>1, <3>2, <3>3 DEF FetchTypes, Outcome
<1>5. over \in BOOLEAN /\ LinkTypes
  <2>1. over = FALSE /\ queue = <<>> /\ wire = <<>>
    BY DEF Init, FetchInit
  <2>2. QueueCap \in Nat \ {0} /\ Len(queue) = 0
    BY <2>1, EmptyFacts, BoundAssumption
  <2>3. queue \in Seq(Msgs) /\ wire \in Seq(Msgs) /\ Len(queue) <= QueueCap
    BY <1>3, <2>1, <2>2
  <2> QED
    BY <2>1, <2>3 DEF LinkTypes
<1>6. RequestTypes
  <2>1. \A k \in Numbers: Messages(k) \in Nat
    BY RequestFacts DEF Init, FetchInit
  <2> QED
    BY <1>2, <2>1 DEF Init, FetchInit, RequestTypes
<1>7. DeedTypes
  BY <1>3 DEF Init, FetchInit, DeedTypes, Kept
<1> QED
  BY <1>4, <1>5, <1>6, <1>7, TypeParts

-------------------------------------------------------------------------------

\* The photos and the types depend on each other: what is gathered is of the
\* type of pieces as long as the segments are genuine.
THEOREM PhotoInvariance == Spec => [](IInv /\ TypeOK /\ PhotoInv)
<1>1. Init => IInv /\ TypeOK /\ PhotoInv
  BY InitInv, InitTypes, InitPhoto
<1>2. IInv /\ TypeOK /\ PhotoInv /\ [Next]_vars => (IInv /\ TypeOK /\ PhotoInv)'
  BY NextKeeps, NextTypes, NextPhoto
<1> QED
  BY <1>1, <1>2, PTL DEF Spec

\* Everything stays of its type, and Client.frames within its capacity.
THEOREM TypeCorrect == Spec => []TypeOK
BY PhotoInvariance, PTL

\* The photo returned is the one asked for, whole and in order, and a refusal
\* is of that photo, whatever the frame abandons, repeats or answers late.
THEOREM RightPhotoHolds == Spec => []RightPhoto
<1>1. PhotoInv => RightPhoto
  BY DEF PhotoInv, ResultInv
<1> QED
  BY <1>1, PhotoInvariance, PTL

\* No photo is refused for more bytes than were announced.
THEOREM NoFalseRefusalHolds == Spec => []NoFalseRefusal
<1>1. PhotoInv => NoFalseRefusal
  BY DEF PhotoInv, ResultInv
<1> QED
  BY <1>1, PhotoInvariance, PTL
===============================================================================
