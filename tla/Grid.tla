--------------------------------- MODULE Grid ---------------------------------
(***************************************************************************)
(* The grid connection once it is up (internal/sdg/grid.go): many callers, *)
(* a read loop, a ping loop and whoever calls Close share one socket, one  *)
(* table of waiting callers and one closeOnce.  Every section that runs    *)
(* under Grid.mu is one action; between two of them any thread may run.    *)
(*                                                                         *)
(* Bring-up and the ping round trip are in GridPing.tla.                   *)
(***************************************************************************)
EXTENDS Naturals, Sequences

CONSTANTS
  Calls,      \* invocations of Grid.call, each made at most once
  NoCall,     \* no caller: an empty table entry, an empty channel
  IdBound,    \* calls made on one connection, below the 2^32 where ids repeat
  MsgBound    \* messages the grid sends on one connection

Threads == {"reader", "pinger"}

ASSUME NoCallAssumption == NoCall \notin Calls \cup Threads /\ Calls \cap Threads = {}
ASSUME BoundAssumption == IdBound \in Nat /\ MsgBound \in Nat

Ids == 0..IdBound

VARIABLES
  nextID,     \* Grid.nextID
  pending,    \* Grid.pending: which caller waits for a reply with this id
  stage,      \* how far the body of shutdown has got; pending is nil after "open"
  waiters,    \* shutdown's local copy of pending: channels still to close
  err,        \* Grid.err: the thread whose failure it records, "nil" for Close
  buf,        \* the reply in each caller's channel (capacity 1)
  closed,     \* the callers whose channel is closed
  cpc,        \* where each caller is
  id,         \* the request id of each caller that has one
  ctxDone,    \* the callers whose context has ended
  outcome,    \* what each call returned
  got,        \* for a call that returned a reply: the request it answers
  tpc,        \* where each thread is
  held,       \* deliver's ch: the caller the reader took out of the table
  reply,      \* deliver's reply: the request it answers
  writer,     \* conn.sendMu: the call or thread that is writing, or NoCall
  linkUp,     \* the network between us and the grid works
  inbox,      \* what the grid sent and we have not read
  sent,       \* how many messages the grid has sent
  requests    \* the requests that reached the grid

callVars == <<cpc, id, outcome, got>>
tableVars == <<nextID, pending>>
chanVars == <<buf, closed>>
downVars == <<stage, waiters, err>>
readVars == <<held, reply>>
netVars == <<linkUp, inbox, sent, requests>>
vars == <<callVars, tableVars, chanVars, downVars, readVars, netVars, tpc, ctxDone, writer>>

\* A reply names its request by id; "for" is the request it really answers.
\* Pongs, empty, unknown and malformed messages change nothing here and are left
\* to GridPing.tla.
Replies == [type: {"reply"}, id: Ids, for: Calls]
Messages == Replies \cup [type: {"call"}]

\* Channel g.done is closed; our end of the socket is closed.
Done == stage \in {"closing", "complete"}
SocketClosed == stage = "complete"

\* A write has no deadline once the connection is up: until our end is closed
\* it succeeds when the grid takes it, which may be never (or the kernel does,
\* into a buffer nobody will read), and it may fail when the network is gone.
\* Until then it blocks, and its writer keeps sendMu.
WriteOK == ~SocketClosed
WriteFails == SocketClosed \/ ~linkUp

\* A call or a thread that has a message to write, or is writing it.
Sending(w) == IF w \in Calls THEN cpc[w] = "send" ELSE tpc[w] = "send"

\* sendMESG: one writer at a time.  sendMu is released as the write returns.
TakeSendMu(w) ==
  /\ Sending(w)
  /\ writer = NoCall
  /\ writer' = w
  /\ UNCHANGED <<callVars, tableVars, chanVars, downVars, readVars, netVars, tpc, ctxDone>>

Written(w) == writer = w /\ WriteOK /\ writer' = NoCall
WriteBroken(w) == writer = w /\ WriteFails /\ writer' = NoCall

\* The types of a grid connection's fields and of its callers' and loops' places.
TypeOK ==
  /\ nextID \in Ids
  /\ pending \in [Ids -> Calls \cup {NoCall}]
  /\ stage \in {"open", "waking", "closing", "complete"}
  /\ waiters \in SUBSET Calls
  /\ err \in {"none", "nil", "reader", "pinger"}
  /\ buf \in [Calls -> Calls \cup {NoCall}]
  /\ closed \in SUBSET Calls
  /\ cpc \in [Calls -> {"idle", "send", "waiting", "sendFailed", "cancelled",
                        "woken", "returned"}]
  /\ id \in [Calls -> Ids]
  /\ ctxDone \in SUBSET Calls
  /\ outcome \in [Calls -> {"none", "reply", "ctx", "sendError", "refused",
                            "closed", "reader", "pinger"}]
  /\ got \in [Calls -> Calls \cup {NoCall}]
  /\ tpc \in [Threads -> {"run", "deliver", "close", "send", "shutdown", "end"}]
  /\ held \in Calls \cup {NoCall}
  /\ tpc["reader"] \in {"deliver", "close"} => held # NoCall
  /\ reply \in Calls \cup {NoCall}
  /\ writer \in Calls \cup Threads \cup {NoCall}
  /\ linkUp \in BOOLEAN
  /\ inbox \in Seq(Messages)
  /\ sent \in 0..MsgBound
  /\ requests \in SUBSET [id: Ids, call: Calls]

Init ==
  /\ nextID = 0
  /\ pending = [i \in Ids |-> NoCall]
  /\ stage = "open" /\ waiters = {} /\ err = "none"
  /\ buf = [c \in Calls |-> NoCall] /\ closed = {}
  /\ cpc = [c \in Calls |-> "idle"] /\ id = [c \in Calls |-> 0]
  /\ ctxDone = {}
  /\ outcome = [c \in Calls |-> "none"] /\ got = [c \in Calls |-> NoCall]
  /\ tpc = [t \in Threads |-> "run"]
  /\ held = NoCall /\ reply = NoCall
  /\ writer = NoCall
  /\ linkUp = TRUE /\ inbox = <<>> /\ sent = 0 /\ requests = {}

-------------------------------------------------------------------------------
(* Grid.call *)

Returns(c, what) == /\ cpc' = [cpc EXCEPT ![c] = "returned"]
                    /\ outcome' = [outcome EXCEPT ![c] = what]

Goes(c, where) == /\ cpc' = [cpc EXCEPT ![c] = where]
                  /\ UNCHANGED <<id, outcome, got>>

\* The first section under the lock, when pending is nil: ErrClosed.
TurnAway(c) ==
  /\ cpc[c] = "idle"
  /\ stage # "open"
  /\ Returns(c, "refused")
  /\ UNCHANGED <<id, got, tableVars, chanVars, downVars, readVars, netVars, tpc, ctxDone, writer>>

\* Mutant: the id is not advanced.
Register_SameId(c) ==
  /\ cpc[c] = "idle"
  /\ stage = "open"
  /\ nextID < IdBound
  /\ id' = [id EXCEPT ![c] = nextID]
  /\ pending' = [pending EXCEPT ![nextID] = c]
  /\ cpc' = [cpc EXCEPT ![c] = "send"]
  /\ UNCHANGED <<nextID, outcome, got, chanVars, downVars, readVars, netVars, tpc, ctxDone, writer>>

\* The same section when the connection is up: take an id, enter the table.
Register(c) ==
  /\ cpc[c] = "idle"
  /\ stage = "open"
  /\ nextID < IdBound
  /\ id' = [id EXCEPT ![c] = nextID]
  /\ nextID' = nextID + 1
  /\ pending' = [pending EXCEPT ![nextID] = c]
  /\ cpc' = [cpc EXCEPT ![c] = "send"]
  /\ UNCHANGED <<outcome, got, chanVars, downVars, readVars, netVars, tpc, ctxDone, writer>>

SendRequest(c) ==
  /\ cpc[c] = "send"
  /\ Written(c)
  /\ Goes(c, "waiting")
  /\ requests' = IF linkUp THEN requests \cup {[id |-> id[c], call |-> c]} ELSE requests
  /\ UNCHANGED <<tableVars, chanVars, downVars, readVars, linkUp, inbox, sent, tpc, ctxDone>>

SendRequestFails(c) ==
  /\ cpc[c] = "send"
  /\ WriteBroken(c)
  /\ Goes(c, "sendFailed")
  /\ UNCHANGED <<tableVars, chanVars, downVars, readVars, netVars, tpc, ctxDone>>

\* Mutant: a call whose context ends does not leave the table.
Forget_OnlyAfterSend(c) ==
  /\ cpc[c] \in {"sendFailed", "cancelled"}
  /\ pending' = IF cpc[c] = "sendFailed" THEN [pending EXCEPT ![id[c]] = NoCall] ELSE pending
  /\ Returns(c, IF cpc[c] = "cancelled" THEN "ctx" ELSE "sendError")
  /\ UNCHANGED <<id, got, nextID, chanVars, downVars, readVars, netVars, tpc, ctxDone, writer>>

\* forget, after a failed write or an ended context.  On the nil map that
\* shutdown leaves behind, delete does nothing.
Forget(c) ==
  /\ cpc[c] \in {"sendFailed", "cancelled"}
  /\ pending' = [pending EXCEPT ![id[c]] = NoCall]
  /\ Returns(c, IF cpc[c] = "cancelled" THEN "ctx" ELSE "sendError")
  /\ UNCHANGED <<id, got, nextID, chanVars, downVars, readVars, netVars, tpc, ctxDone, writer>>

\* The select of call: whichever of its cases is ready may be taken.
TakeReply(c) ==
  /\ cpc[c] = "waiting"
  /\ buf[c] # NoCall
  /\ Returns(c, "reply")
  /\ got' = [got EXCEPT ![c] = buf[c]]
  /\ buf' = [buf EXCEPT ![c] = NoCall]
  /\ UNCHANGED <<id, closed, tableVars, downVars, readVars, netVars, tpc, ctxDone, writer>>

SeeClosed(c) ==
  /\ cpc[c] = "waiting"
  /\ \/ c \in closed /\ buf[c] = NoCall
     \/ Done
  /\ Goes(c, "woken")
  /\ UNCHANGED <<tableVars, chanVars, downVars, readVars, netVars, tpc, ctxDone, writer>>

\* Mutant: the context is looked at only when the connection ends.
SeeContextEnd_Late(c) ==
  /\ cpc[c] = "waiting"
  /\ c \in ctxDone
  /\ Done
  /\ Goes(c, "cancelled")
  /\ UNCHANGED <<tableVars, chanVars, downVars, readVars, netVars, tpc, ctxDone, writer>>

SeeContextEnd(c) ==
  /\ cpc[c] = "waiting"
  /\ c \in ctxDone
  /\ Goes(c, "cancelled")
  /\ UNCHANGED <<tableVars, chanVars, downVars, readVars, netVars, tpc, ctxDone, writer>>

\* Err: the recorded cause, or ErrClosed ("closed") when there is none.
ReportCause(c) ==
  /\ cpc[c] = "woken"
  /\ Returns(c, IF err \in {"reader", "pinger"} THEN err ELSE "closed")
  /\ UNCHANGED <<id, got, tableVars, chanVars, downVars, readVars, netVars, tpc, ctxDone, writer>>

Call(c) == \/ TakeSendMu(c) \/ SendRequestFails(c) \/ Forget(c) \/ TakeReply(c)
           \/ SeeClosed(c) \/ SeeContextEnd(c) \/ ReportCause(c)

-------------------------------------------------------------------------------
(* shutdown.  closeOnce lets one thread run the body; a thread that comes    *)
(* later waits for the body to finish, then goes on.                         *)

\* Mutant: the table stays in place while its channels are closed.
BeginShutdown_KeepsTable(cause) ==
  /\ stage = "open"
  /\ stage' = "waking"
  /\ err' = cause
  /\ waiters' = {pending[i] : i \in Ids} \ {NoCall}
  /\ UNCHANGED <<tableVars, callVars, chanVars, readVars, netVars, tpc, ctxDone, writer>>

\* Mutant: the body runs for every thread that reports a failure.
BeginShutdown_NotOnce(cause) ==
  /\ stage' = "waking"
  /\ err' = cause
  /\ waiters' = {pending[i] : i \in Ids} \ {NoCall}
  /\ pending' = [i \in Ids |-> NoCall]
  /\ UNCHANGED <<nextID, callVars, chanVars, readVars, netVars, tpc, ctxDone, writer>>

BeginShutdown(cause) ==
  /\ stage = "open"
  /\ stage' = "waking"
  /\ err' = cause
  /\ waiters' = {pending[i] : i \in Ids} \ {NoCall}
  /\ pending' = [i \in Ids |-> NoCall]
  /\ UNCHANGED <<nextID, callVars, chanVars, readVars, netVars, tpc, ctxDone, writer>>

ThreadShutsDown(t) == tpc[t] = "shutdown" /\ BeginShutdown(t)

\* The application closes the connection, at any moment and without a cause.
Close == BeginShutdown("nil")

WakeWaiter(c) ==
  /\ stage = "waking"
  /\ c \in waiters
  /\ closed' = closed \cup {c}
  /\ waiters' = waiters \ {c}
  /\ UNCHANGED <<stage, err, callVars, tableVars, buf, readVars, netVars, tpc, ctxDone, writer>>

CloseDone ==
  /\ stage = "waking"
  /\ waiters = {}
  /\ stage' = "closing"
  /\ UNCHANGED <<waiters, err, callVars, tableVars, chanVars, readVars, netVars, tpc, ctxDone, writer>>

CloseSocket ==
  /\ stage = "closing"
  /\ stage' = "complete"
  /\ UNCHANGED <<waiters, err, callVars, tableVars, chanVars, readVars, netVars, tpc, ctxDone, writer>>

ShutdownBody == (\E c \in Calls: WakeWaiter(c)) \/ CloseDone \/ CloseSocket

LeaveShutdown(t) ==
  /\ tpc[t] = "shutdown"
  /\ stage = "complete"
  /\ tpc' = [tpc EXCEPT ![t] = "end"]
  /\ UNCHANGED <<callVars, tableVars, chanVars, downVars, readVars, netVars, ctxDone, writer>>

-------------------------------------------------------------------------------
(* readLoop, handle and deliver *)

Reader(from, to) == /\ tpc["reader"] = from
                    /\ tpc' = [tpc EXCEPT !["reader"] = to]

ReadFails ==
  /\ SocketClosed \/ ~linkUp
  /\ Reader("run", IF Done THEN "end" ELSE "shutdown")
  /\ UNCHANGED <<callVars, tableVars, chanVars, downVars, readVars, netVars, ctxDone, writer>>

Reads(m) == /\ inbox # <<>>
            /\ m = Head(inbox)
            /\ inbox' = Tail(inbox)
            /\ UNCHANGED <<linkUp, sent, requests>>

\* deliver, under the lock: take the caller out of the table, or drop the
\* reply when nobody waits for its id.
ReadReply ==
  /\ \E m \in Replies:
       /\ Reads(m)
       /\ pending' = [pending EXCEPT ![m.id] = NoCall]
       /\ held' = pending[m.id]
       /\ IF pending[m.id] = NoCall
            THEN Reader("run", "run") /\ reply' = NoCall
            ELSE Reader("run", "deliver") /\ reply' = m.for
  /\ UNCHANGED <<nextID, callVars, chanVars, downVars, ctxDone, writer>>

\* Mutant: an unbuffered channel, written only while its caller is in the select.
Deliver_Unbuffered ==
  /\ Reader("deliver", "close")
  /\ cpc[held] = "waiting"
  /\ buf' = [buf EXCEPT ![held] = reply]
  /\ UNCHANGED <<closed, callVars, tableVars, downVars, readVars, netVars, ctxDone, writer>>

\* deliver, after the unlock: ch <- reply, which would block on a full channel.
Deliver ==
  /\ Reader("deliver", "close")
  /\ buf[held] = NoCall
  /\ buf' = [buf EXCEPT ![held] = reply]
  /\ UNCHANGED <<closed, callVars, tableVars, downVars, readVars, netVars, ctxDone, writer>>

CloseDelivered ==
  /\ Reader("close", "run")
  /\ closed' = closed \cup {held}
  /\ held' = NoCall /\ reply' = NoCall
  /\ UNCHANGED <<buf, callVars, tableVars, downVars, netVars, ctxDone, writer>>

\* An incoming call is refused by a message of our own; if that cannot be
\* written, the connection ends.
ReadCall ==
  /\ \E m \in Messages: Reads(m) /\ m.type = "call"
  /\ Reader("run", "send")
  /\ UNCHANGED <<callVars, tableVars, chanVars, downVars, readVars, ctxDone, writer>>

Refuse ==
  /\ Written("reader")
  /\ Reader("send", "run")
  /\ UNCHANGED <<callVars, tableVars, chanVars, downVars, readVars, netVars, ctxDone>>

RefuseFails ==
  /\ WriteBroken("reader")
  /\ Reader("send", "shutdown")
  /\ UNCHANGED <<callVars, tableVars, chanVars, downVars, readVars, netVars, ctxDone>>

ReadLoop == \/ ReadFails \/ ReadReply \/ Deliver \/ CloseDelivered
            \/ ReadCall \/ TakeSendMu("reader") \/ RefuseFails
            \/ ThreadShutsDown("reader") \/ LeaveShutdown("reader")

-------------------------------------------------------------------------------
(* pingLoop *)

Pinger(from, to) == /\ tpc["pinger"] = from
                    /\ tpc' = [tpc EXCEPT !["pinger"] = to]

\* The ticker fires, at any moment, and the loop takes sendMu.  A loop that has
\* to wait for sendMu changes nothing meanwhile: it is as if its ticker fired late.
PingTicks ==
  /\ writer = NoCall
  /\ writer' = "pinger"
  /\ Pinger("run", "send")
  /\ UNCHANGED <<callVars, tableVars, chanVars, downVars, readVars, netVars, ctxDone>>

\* What a ping says is in GridPing.tla; here it is one more message to write.
Ping ==
  /\ Written("pinger")
  /\ Pinger("send", "run")
  /\ UNCHANGED <<callVars, tableVars, chanVars, downVars, readVars, netVars, ctxDone>>

PingFails ==
  /\ WriteBroken("pinger")
  /\ Pinger("send", "shutdown")
  /\ UNCHANGED <<callVars, tableVars, chanVars, downVars, readVars, netVars, ctxDone>>

PingStops ==
  /\ Done
  /\ Pinger("run", "end")
  /\ UNCHANGED <<callVars, tableVars, chanVars, downVars, readVars, netVars, ctxDone, writer>>

PingLoop == \/ PingStops \/ PingTicks \/ PingFails
            \/ ThreadShutsDown("pinger") \/ LeaveShutdown("pinger")

-------------------------------------------------------------------------------
(* The grid, the network and the callers' contexts.  What happens beyond our *)
(* end of the socket after it is closed reaches nobody.                      *)

GridSends(m) ==
  /\ linkUp /\ ~SocketClosed
  /\ sent < MsgBound
  /\ sent' = sent + 1
  /\ inbox' = Append(inbox, m)
  /\ UNCHANGED <<callVars, tableVars, chanVars, downVars, readVars, linkUp, requests,
                 tpc, ctxDone, writer>>

\* It answers a request it has received, late, in any order, or twice.
GridReplies ==
  \E r \in requests: GridSends([type |-> "reply", id |-> r.id, for |-> r.call])

GridCalls == GridSends([type |-> "call"])

LinkDrops ==
  /\ linkUp /\ ~SocketClosed
  /\ linkUp' = FALSE
  /\ UNCHANGED <<callVars, tableVars, chanVars, downVars, readVars, inbox, sent, requests,
                 tpc, ctxDone, writer>>

\* A context may end while its call is writing; only the select looks at it.
ContextEnds(c) ==
  /\ cpc[c] \in {"send", "waiting"}
  /\ c \notin ctxDone
  /\ ctxDone' = ctxDone \cup {c}
  /\ UNCHANGED <<callVars, tableVars, chanVars, downVars, readVars, netVars, tpc, writer>>

Next ==
  \/ \E c \in Calls: TurnAway(c) \/ Register(c) \/ Call(c) \/ SendRequest(c) \/ ContextEnds(c)
  \/ Refuse \/ Ping
  \/ ReadLoop \/ PingLoop \/ Close \/ ShutdownBody
  \/ GridReplies \/ GridCalls \/ LinkDrops

\* Every goroutine that can run by itself does; nothing is assumed of the
\* application, the contexts or the network, nor of the grid, which may leave
\* SendRequest, Refuse and Ping blocked for ever, nor of the order in which
\* sendMu is handed on.
Fairness ==
  /\ \A c \in Calls: WF_vars(Call(c))
  /\ WF_vars(ReadLoop) /\ WF_vars(PingLoop) /\ WF_vars(ShutdownBody)

Spec == Init /\ [][Next]_vars
FairSpec == Spec /\ Fairness

-------------------------------------------------------------------------------
(* Properties *)

\* Nobody panics and the reader never blocks on a caller: a channel is closed
\* once, and deliver writes only to an open, empty one, though deliver and
\* shutdown both reach channels after they have released the lock.
ChannelsSafe ==
  /\ tpc["reader"] = "deliver" => held \notin closed /\ buf[held] = NoCall
  /\ tpc["reader"] = "close" => held \notin closed
  /\ waiters \cap closed = {}

\* A reply a call returns is the grid's answer to that call's own request,
\* whatever the order, lateness or repetition of replies.
OwnReply == \A c \in Calls: outcome[c] = "reply" => got[c] = c

\* A call woken by the end of the connection reports the cause that Err
\* reports, and ErrClosed only when the connection was closed on purpose:
\* the cause is in place before anyone is woken.
WokenReportCause ==
  \A c \in Calls: /\ (outcome[c] \in {"reader", "pinger"}) => (err = outcome[c])
                  /\ (outcome[c] = "closed") => (err = "nil")

\* A call that has returned, by whatever path, has no entry left in the table.
\* Its channel may still be among those shutdown has yet to close only when it
\* gave up by itself, its write broken or its context ended: a call with a reply,
\* or woken by the shutdown, is never woken again.
TableForgets ==
  \A c \in Calls: cpc[c] = "returned" =>
    /\ \A i \in Ids: pending[i] # c
    /\ c \in waiters => outcome[c] \in {"ctx", "sendError"}

(* The inductive invariant behind the four properties above (GridProof.tla). *)

\* Past the first section under the lock: the call has an id of its own.
Registered(c) == cpc[c] # "idle" /\ outcome[c] # "refused"

\* An id belongs to one call for good, on our side and on the wire.
IdsInv ==
  /\ \A c \in Calls: Registered(c) => id[c] < nextID
  /\ \A c, d \in Calls: Registered(c) /\ Registered(d) /\ id[c] = id[d] => c = d
  /\ \A r \in requests: Registered(r.call) /\ id[r.call] = r.id
  /\ \A k \in 1..Len(inbox):
       inbox[k] \in Replies => Registered(inbox[k].for) /\ id[inbox[k].for] = inbox[k].id

\* Each channel that will still be written or closed has exactly one owner: the
\* table, the reader or shutdown.
OwnerInv ==
  /\ \A i \in Ids: pending[i] # NoCall =>
       /\ stage = "open"
       /\ Registered(pending[i]) /\ id[pending[i]] = i
       /\ cpc[pending[i]] \notin {"returned", "woken"}
       /\ pending[i] # held
       /\ pending[i] \notin closed /\ buf[pending[i]] = NoCall
  /\ \A c \in waiters:
       /\ stage = "waking" /\ Registered(c) /\ c # held /\ c \notin closed /\ buf[c] = NoCall
       /\ cpc[c] # "woken"
       /\ cpc[c] = "returned" => outcome[c] \in {"ctx", "sendError"}
  /\ held # NoCall =>
       Registered(held) /\ reply = held /\ held \notin closed
  /\ held # NoCall <=> tpc["reader"] \in {"deliver", "close"}
  /\ tpc["reader"] = "deliver" => buf[held] = NoCall
  /\ \A c \in Calls: buf[c] # NoCall => Registered(c) /\ buf[c] = c
  /\ \A c \in closed: Registered(c)
  /\ \A c \in Calls: outcome[c] = "reply" => got[c] = c

\* While the connection is up, an empty channel that is closed, or that the
\* reader is done with, has been read: nobody is woken without a cause.
CauseInv ==
  /\ err = "none" <=> stage = "open"
  /\ \A c \in Calls: cpc[c] = "woken" => stage # "open"
  /\ \A c \in Calls:
       stage = "open" /\ (c \in closed \/ (tpc["reader"] = "close" /\ held = c)) =>
         buf[c] # NoCall \/ cpc[c] = "returned"
  /\ \A c \in Calls: cpc[c] # "returned" => outcome[c] = "none"
  /\ WokenReportCause

\* Ids, channels and the cause of the end agree, at every step of the calls, the
\* loops and the shutdown.
IInv == TypeOK /\ IdsInv /\ OwnerInv /\ CauseInv

\* Once the connection is going down every call on it returns and both loops
\* end: nobody is left behind in a select, a read, a write the grid does not take,
\* the queue for sendMu, a write to a caller's channel or closeOnce, whoever
\* started the shutdown and whatever it overtook.
EverybodyLeaves ==
  (stage # "open") ~> /\ \A c \in Calls: cpc[c] \in {"idle", "returned"}
                      /\ \A t \in Threads: tpc[t] = "end"

\* The abstract service of CallService.tla.
Service == INSTANCE CallService WITH
  up <- stage = "open",
  givenUp <- ctxDone,
  asked <- {r.call : r \in requests},
  status <- [c \in Calls |->
               CASE cpc[c] = "idle" -> "idle"
                 [] cpc[c] = "returned" -> IF outcome[c] = "reply" THEN "answered" ELSE "failed"
                 [] cpc[c] \in {"send", "sendFailed"} -> "sending"
                 [] OTHER -> "waiting"]

\* Seen from outside, every call ends once, answered or failed.  None stays
\* outstanding on a connection that is down, even in a write the grid does not
\* take, and none whose request is out waits beyond the end of its context,
\* whether the grid answers or not.  (A call held up in its write does outlive
\* its context, for as long as the grid does not read.)
ImplementsService == Service!SSpec
===============================================================================
