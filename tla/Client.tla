--------------------------------- MODULE Client ---------------------------------
(***************************************************************************)
(* A connection to a frame as its user has it: photos are fetched          *)
(* (Download), then the frame is asked for other things, one at a time:    *)
(* SendPhoto, DeleteMedia, SetMediaVisible and ListMedia                   *)
(* (internal/frameo/media.go, client.go).  A confirmation names the        *)
(* request it is for and nothing else does, and it may come when nobody    *)
(* waits for it any more.                                                  *)
(*                                                                         *)
(* `get` goes on after a photo it could not have, the other commands stop  *)
(* at the first failure; a user of the client who goes on with the next    *)
(* request meets more, and is modelled.  The frame is external and follows *)
(* frameotest/fakeframe.go, in the order of requests.                      *)
(***************************************************************************)
EXTENDS Download

VARIABLES
  req,        \* which request is being made
  sent,       \* messages of it that were sent
  outcomes,   \* of the requests made
  toFrame,    \* what the frame has not taken up
  open,       \* messages of the upload the frame is receiving
  files,      \* what the frame stored of each upload
  library,    \* and how it keeps it
  did         \* what the frame made of each request

requestVars == <<req, sent, outcomes>>
deedVars == <<toFrame, open, files, library, did>>
vars == <<program, callVars, accVars, linkVars, frameVars, requestVars, deedVars>>

Changes == {"delete", "hide", "show"}
Requests == [kind: {"photo"}, segments: Nat \ {0}]
            \cup [kind: Changes, of: Nat] \cup [kind: {"list"}]

\* A request of the program stands for the photo it uploads and for the id of
\* its acknowledgement; newID never returns an id twice.
Numbers == DOMAIN program.requests
Request(k) == program.requests[k]

ASSUME RequestsAssumption ==
  \A p \in Programs: /\ p.requests \in Seq(Requests)
                     /\ \A k \in DOMAIN p.requests: p.requests[k].kind \in Changes =>
                          p.requests[k].of \in DOMAIN p.requests

Message(k, n) == [req |-> k, n |-> n]
Ack(k, ok) == [type |-> "ack", id |-> k, ok |-> ok]
Listing(items) == [type |-> "list", items |-> items]

\* The photo a request is about.
Subject(k) == IF Request(k).kind = "photo" THEN k ELSE Request(k).of

\* A header and the segments of the file, or the one message of the request.
Messages(k) == IF Request(k).kind = "photo" THEN 1 + Request(k).segments ELSE 1

Kept == {"absent", "shown", "hidden"}
AnswerMsgs == [type: {"ack"}, id: Numbers, ok: BOOLEAN] \cup [type: {"list"}, items: [Numbers -> Kept]]

\* The types; the queue of messages keeps to its capacity.
TypeOK ==
  /\ FetchTypes
  /\ over \in BOOLEAN
  /\ queue \in Seq(MediaMsgs \cup AnswerMsgs) /\ Len(queue) <= QueueCap
  /\ wire \in Seq(MediaMsgs \cup AnswerMsgs)
  /\ req \in 1..(Len(program.requests) + 1)
  /\ req \in Numbers => sent \in 0..Messages(req)
  /\ Len(outcomes) = req - 1
  /\ \A k \in DOMAIN outcomes: outcomes[k].what \in {"ok", "refused", "timeout", "unfit", "over"}
  /\ toFrame \in Seq([req: Numbers, n: Nat]) /\ open \in Seq([req: Numbers, n: Nat])
  /\ files \in [Numbers -> Seq([req: Numbers, n: Nat])]
  /\ library \in [Numbers -> Kept]
  /\ did \in [Numbers -> {"nothing", "ok", "refused"}]

Init ==
  /\ FetchInit
  /\ req = 1 /\ sent = 0 /\ outcomes = <<>>
  /\ toFrame = <<>> /\ open = <<>>
  /\ files = [k \in Numbers |-> <<>>]
  /\ library = [k \in Numbers |-> "absent"]
  /\ did = [k \in Numbers |-> "nothing"]

Asking == ~Running /\ req \in Numbers

-------------------------------------------------------------------------------
(* SendPhoto, DeleteMedia, SetMediaVisible, ListMedia *)

Settles(what, items) ==
  /\ outcomes' = Append(outcomes, [what |-> what, items |-> items])
  /\ req' = req + 1 /\ sent' = 0

Nothing == <<>>

\* The file cannot be read, is empty, or is longer than 32 bits can say: it is
\* refused before the frame is told anything.
FindsUnfit ==
  /\ Asking /\ sent = 0 /\ Request(req).kind = "photo"
  /\ Settles("unfit", Nothing)
  /\ UNCHANGED <<callVars, accVars, linkVars, frameVars, deedVars>>

\* One message of the request after the other.
Sends ==
  /\ Asking /\ ~over /\ sent < Messages(req)
  /\ toFrame' = Append(toFrame, Message(req, sent + 1))
  /\ sent' = sent + 1
  /\ UNCHANGED <<callVars, accVars, linkVars, frameVars, req, outcomes, open, files, library, did>>

\* Sending fails, or await reports the end.
StopsEarly ==
  /\ Asking /\ over
  /\ Settles("over", Nothing)
  /\ UNCHANGED <<callVars, accVars, linkVars, frameVars, deedVars>>

\* Mutant: any confirmation will do.
Accepts_AnyAck(m) == m.type = (IF Request(req).kind = "list" THEN "list" ELSE "ack")

\* A listing is known by its type alone.
Accepts(m) == IF Request(req).kind = "list" THEN m.type = "list" ELSE m.type = "ack" /\ m.id = req

\* await: what is not accepted is dropped.
TakesAnswer ==
  /\ Asking /\ sent = Messages(req) /\ queue # <<>>
  /\ LET m == Head(queue) IN
       IF ~Accepts(m) THEN UNCHANGED requestVars
       ELSE IF m.type = "list" THEN Settles("ok", m.items)
       ELSE Settles(IF m.ok THEN "ok" ELSE "refused", Nothing)
  /\ queue' = Tail(queue)
  /\ UNCHANGED <<callVars, accVars, over, wire, frameVars, deedVars>>

\* AckTimeout.  A listing is waited for as long as the context lasts.
AckTimesOut ==
  /\ Asking /\ sent = Messages(req) /\ Request(req).kind # "list"
  /\ Settles("timeout", Nothing)
  /\ UNCHANGED <<callVars, accVars, linkVars, frameVars, deedVars>>

Requesting == (FindsUnfit \/ Sends \/ StopsEarly \/ TakesAnswer \/ AckTimesOut) /\ UNCHANGED program

-------------------------------------------------------------------------------
(* The frame *)

Arrived == Head(toFrame)
ArrivedKind == Request(Arrived.req).kind

FrameTakes ==
  /\ ~over /\ asked = <<>> /\ toFrame # <<>>
  /\ toFrame' = Tail(toFrame)
  /\ UNCHANGED <<callVars, accVars, over, queue, frameVars, requestVars>>

\* A header opens a transfer, and a segment goes to the one that is open.
FrameCollects ==
  /\ FrameTakes /\ Arrived.n < Messages(Arrived.req)
  /\ open' = IF Arrived.n = 1 THEN <<Arrived>> ELSE Append(open, Arrived)
  /\ UNCHANGED <<wire, files, library, did>>

\* The library after a request that is granted; what is not there stays away.
Granted(k) ==
  LET r == Request(k) IN
    [library EXCEPT ![Subject(k)] =
       CASE r.kind = "photo" -> "shown"
         [] r.kind = "delete" -> "absent"
         [] r.kind = "hide" -> IF @ = "absent" THEN @ ELSE "hidden"
         [] r.kind = "show" -> IF @ = "absent" THEN @ ELSE "shown"]

\* The request is all there.  It is granted or refused, confirmed or not; an
\* upload is granted only if the bytes announced have come.
FrameActs ==
  /\ FrameTakes /\ Arrived.n = Messages(Arrived.req) /\ ArrivedKind # "list"
  /\ open' = IF ArrivedKind = "photo" THEN <<>> ELSE open
  /\ \E ok \in BOOLEAN :
       /\ ok /\ ArrivedKind = "photo" => Len(open) + 1 = Messages(Arrived.req)
       /\ files' = IF ok /\ ArrivedKind = "photo"
                   THEN [files EXCEPT ![Arrived.req] = Append(open, Arrived)] ELSE files
       /\ library' = IF ok THEN Granted(Arrived.req) ELSE library
       /\ did' = [did EXCEPT ![Arrived.req] = IF ok THEN "ok" ELSE "refused"]
       /\ wire' \in {wire, Append(wire, Ack(Arrived.req, ok))}

FrameLists ==
  /\ FrameTakes /\ ArrivedKind = "list"
  /\ did' = [did EXCEPT ![Arrived.req] = "ok"]
  /\ wire' \in {wire, Append(wire, Listing(library))}
  /\ UNCHANGED <<open, files, library>>

FrameWorks == (FrameCollects \/ FrameActs \/ FrameLists) /\ UNCHANGED program

-------------------------------------------------------------------------------

Fetching == GetMedia /\ UNCHANGED <<program, requestVars, deedVars>>

\* (An end that comes after the last request changes nothing.)
Elsewhere ==
  /\ Arrives \/ FrameFetches \/ (ConnectionOrContextEnds /\ (Running \/ Asking))
  /\ UNCHANGED <<program, requestVars, deedVars>>

Next == Fetching \/ Requesting \/ FrameWorks \/ Elsewhere

Spec == Init /\ [][Next]_vars

\* The client takes what is queued or times out; nothing is assumed of the frame.
FairSpec == Spec /\ WF_vars(Fetching) /\ WF_vars(Requesting)

-------------------------------------------------------------------------------
(* Properties *)

Settled(k, what) == k \in DOMAIN outcomes /\ outcomes[k].what = what
Shows(items, k) ==
  CASE Request(k).kind = "photo" -> items[k] = "shown"
    [] Request(k).kind = "delete" -> items[Subject(k)] = "absent"
    [] Request(k).kind = "hide" -> items[Subject(k)] # "shown"
    [] Request(k).kind = "show" -> items[Subject(k)] # "hidden"

\* A confirmation or refusal that is reported is of that very request, though
\* others that were given up are answered late: a photo confirmed is stored
\* whole and in order, and a listing taken later shows whatever was confirmed
\* of a photo last.
AnsweredIsDone ==
  /\ \A k \in Numbers: \A what \in {"ok", "refused"}: Settled(k, what) => did[k] = what
  /\ \A k \in Numbers: Settled(k, "ok") /\ Request(k).kind = "photo" =>
       files[k] = [n \in 1..Messages(k) |-> Message(k, n)]
  /\ \A j, l \in Numbers:
       /\ j < l /\ Request(j).kind # "list" /\ Settled(j, "ok")
       /\ Request(l).kind = "list" /\ Settled(l, "ok")
       /\ \A i \in (j + 1)..(l - 1): Request(i).kind # "list" => Subject(i) # Subject(j)
       => Shows(outcomes[l].items, j)

\* The photos and the requests come to an end, whether the frame falls silent
\* for good, answers late or stops in the middle of a photo, and however the
\* attempts are spent.  Only a listing is waited for as long as the caller likes.
BatchEnds == <>[](~Running /\ (Asking => Request(req).kind = "list"))
===============================================================================
