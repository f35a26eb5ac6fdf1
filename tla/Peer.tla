--------------------------------- MODULE Peer ---------------------------------
(***************************************************************************)
(* An established connection to a frame, from the socket to the operation  *)
(* that waits for an answer: sdg.Peer (internal/sdg/peer.go) under         *)
(* frameo.Client (internal/frameo/client.go).                              *)
(*                                                                         *)
(* Inbound, a message passes through two read loops and two bounded queues:*)
(* socket, Peer.readLoop, Peer.recv, Client.readLoop, Client.frames, await.*)
(* Outbound, goroutines share the socket under conn.sendMu.  One failed    *)
(* send, a failed read or Close ends both directions.                      *)
(***************************************************************************)
EXTENDS Naturals, FiniteSets, Sequences, SequencesExt

CONSTANTS
  Senders,     \* goroutines that call Peer.Send
  NoSender,    \* sendMu is free
  SendBound,   \* messages encrypted on the connection
  Count,       \* messages the frame sends, numbered in order
  Absorbed,    \* those Client.readLoop keeps to itself: parts, and unreadable ones
  RecvCap, FramesCap,   \* capacities of the two queues, 64 and 16 in the code
  WindowCap    \* what the network holds in either direction

ASSUME SenderAssumption == NoSender \notin Senders /\ IsFiniteSet(Senders)
ASSUME CountAssumption == /\ SendBound \in Nat /\ Count \in Nat
                          /\ Absorbed \subseteq 1..Count
ASSUME CapAssumption == /\ RecvCap \in Nat \ {0} /\ FramesCap \in Nat \ {0}
                        /\ WindowCap \in Nat \ {0}

Msgs == 1..Count

VARIABLES
  stage,       \* of Peer.shutdown: "open", "done" once done is closed, "closed" with the socket
  linkUp,      \* the network and the frame are there
  ctr,         \* conn.ctr: the next nonce
  sendMu,      \* who holds conn.sendMu
  spc,         \* where each sender is
  nonce,       \* the nonce each sender encrypted with
  out,         \* what has been written to the socket: its nonce, whether whole, whose
  outRead,     \* how much of it the frame has read
  frameSent,   \* how many messages the frame has sent
  wire,        \* those we have not read from the socket
  ppc, pheld,  \* Peer.readLoop and the message it holds (0 for none)
  recv, recvClosed,      \* Peer.recv
  cpc, cheld,  \* Client.readLoop and the message it holds
  frames, framesClosed,  \* Client.frames
  clientDone,  \* Client.done is closed
  app,         \* the application's use of the client
  delivered,   \* what await has returned, in order
  dropped      \* what a read loop threw away as it ended

sendVars == <<ctr, sendMu, spc, nonce, out>>
netVars == <<linkUp, outRead, frameSent>>
peerVars == <<ppc, pheld>>
clientVars == <<cpc, cheld, framesClosed>>
appVars == <<app, delivered>>
vars == <<stage, sendVars, netVars, wire, peerVars, recv, recvClosed, clientVars, frames,
          clientDone, appVars, dropped>>

\* The types; the queues keep to their capacity.
TypeOK ==
  /\ stage \in {"open", "done", "closed"}
  /\ linkUp \in BOOLEAN
  /\ ctr \in 0..SendBound
  /\ sendMu \in Senders \cup {NoSender}
  /\ spc \in [Senders -> {"idle", "lock", "write", "shutdown"}]
  /\ nonce \in [Senders -> 0..SendBound]
  /\ out \in Seq([nonce: 0..SendBound, whole: BOOLEAN, by: Senders])
  /\ outRead \in 0..Len(out)
  /\ frameSent \in 0..Count
  /\ wire \in Seq(Msgs) /\ Len(wire) <= WindowCap
  /\ ppc \in {"read", "put", "shutdown", "end"} /\ pheld \in Msgs \cup {0}
  /\ recv \in Seq(Msgs) /\ Len(recv) <= RecvCap
  /\ recvClosed \in BOOLEAN
  /\ cpc \in {"recv", "put", "end"} /\ cheld \in Msgs \cup {0}
  /\ frames \in Seq(Msgs) /\ Len(frames) <= FramesCap
  /\ framesClosed \in BOOLEAN /\ clientDone \in BOOLEAN
  /\ app \in {"using", "closing", "closed"}
  /\ delivered \in Seq(Msgs)
  /\ dropped \in SUBSET Msgs

Init ==
  /\ stage = "open" /\ linkUp = TRUE
  /\ ctr = 0 /\ sendMu = NoSender
  /\ spc = [s \in Senders |-> "idle"] /\ nonce = [s \in Senders |-> 0]
  /\ out = <<>> /\ outRead = 0
  /\ frameSent = 0 /\ wire = <<>>
  /\ ppc = "read" /\ pheld = 0 /\ recv = <<>> /\ recvClosed = FALSE
  /\ cpc = "recv" /\ cheld = 0 /\ frames = <<>> /\ framesClosed = FALSE
  /\ clientDone = FALSE
  /\ app = "using" /\ delivered = <<>> /\ dropped = {}

-------------------------------------------------------------------------------
(* Peer.shutdown: closeOnce runs the body for the first caller; a later one  *)
(* returns when the body is done, that is once the socket is closed.         *)

BeginShutdown == stage = "open" /\ stage' = "done"

CloseSocket ==
  /\ stage = "done"
  /\ stage' = "closed"
  /\ UNCHANGED <<sendVars, netVars, wire, peerVars, recv, recvClosed, clientVars, frames,
                 clientDone, appVars, dropped>>

-------------------------------------------------------------------------------
(* Peer.Send.  A call that is refused at the start (too large, done, context *)
(* over) changes nothing and is left out.                                    *)

SendUnchanged == UNCHANGED <<netVars, wire, peerVars, recv, recvClosed, clientVars, frames,
                             clientDone, appVars, dropped>>

SendStarts(s) ==
  /\ spc[s] = "idle"
  /\ stage = "open"
  /\ ctr + Cardinality({r \in Senders: spc[r] = "lock"}) < SendBound
  /\ spc' = [spc EXCEPT ![s] = "lock"]
  /\ UNCHANGED <<stage, ctr, sendMu, nonce, out>> /\ SendUnchanged

\* Mutant: the nonce is taken outside the lock.
SendLocks_NoMutex(s) ==
  /\ spc[s] = "lock"
  /\ nonce' = [nonce EXCEPT ![s] = ctr]
  /\ ctr' = ctr + 1
  /\ spc' = [spc EXCEPT ![s] = "write"]
  /\ UNCHANGED <<stage, sendMu, out>> /\ SendUnchanged

\* sendMESGBy: take sendMu, encrypt with the next nonce...
SendLocks(s) ==
  /\ spc[s] = "lock"
  /\ sendMu = NoSender
  /\ sendMu' = s
  /\ nonce' = [nonce EXCEPT ![s] = ctr]
  /\ ctr' = ctr + 1
  /\ spc' = [spc EXCEPT ![s] = "write"]
  /\ UNCHANGED <<stage, out>> /\ SendUnchanged

\* ...and write, which waits while the frame does not read.
SendWrites(s) ==
  /\ spc[s] = "write"
  /\ stage # "closed"
  /\ Len(out) - outRead < WindowCap
  /\ out' = Append(out, [nonce |-> nonce[s], whole |-> TRUE, by |-> s])
  /\ sendMu' = NoSender
  /\ spc' = [spc EXCEPT ![s] = "idle"]
  /\ UNCHANGED <<stage, ctr, nonce>> /\ SendUnchanged

\* Mutant: the write has no deadline.
SendFails_NoDeadline(s) ==
  /\ spc[s] = "write"
  /\ stage = "closed" \/ ~linkUp
  /\ sendMu' = NoSender
  /\ spc' = [spc EXCEPT ![s] = "shutdown"]
  /\ UNCHANGED <<stage, ctr, nonce, out>> /\ SendUnchanged

\* Mutant: a failed write leaves the connection up.
SendFails_StaysUp(s) ==
  /\ spc[s] = "write"
  /\ \/ UNCHANGED out
     \/ /\ stage # "closed"
        /\ out' = Append(out, [nonce |-> nonce[s], whole |-> FALSE, by |-> s])
  /\ sendMu' = NoSender
  /\ spc' = [spc EXCEPT ![s] = "idle"]
  /\ UNCHANGED <<stage, ctr, nonce>> /\ SendUnchanged

\* The write's deadline may pass at any moment, and a write on a dead link
\* fails.  Some of the message may be on the wire by then.
SendFails(s) ==
  /\ spc[s] = "write"
  /\ \/ UNCHANGED out
     \/ /\ stage # "closed"
        /\ out' = Append(out, [nonce |-> nonce[s], whole |-> FALSE, by |-> s])
  /\ sendMu' = NoSender
  /\ spc' = [spc EXCEPT ![s] = "shutdown"]
  /\ UNCHANGED <<stage, ctr, nonce>> /\ SendUnchanged

\* A failed write ends the connection, by this sender or whoever came first.
SendShutsDown(s) ==
  /\ spc[s] = "shutdown"
  /\ \/ BeginShutdown /\ UNCHANGED spc
     \/ stage = "closed" /\ spc' = [spc EXCEPT ![s] = "idle"] /\ UNCHANGED stage
  /\ UNCHANGED <<ctr, sendMu, nonce, out>> /\ SendUnchanged

Send(s) == SendLocks(s) \/ SendWrites(s) \/ SendFails(s) \/ SendShutsDown(s)

-------------------------------------------------------------------------------
(* Peer.readLoop *)

PeerUnchanged == UNCHANGED <<sendVars, netVars, clientVars, frames, clientDone, appVars>>

\* What the socket or the buffered reader holds is read even after the close.
PeerReads ==
  /\ ppc = "read"
  /\ wire # <<>>
  /\ pheld' = Head(wire) /\ wire' = Tail(wire)
  /\ ppc' = "put"
  /\ UNCHANGED <<stage, recv, recvClosed, dropped>> /\ PeerUnchanged

PeerReadFails ==
  /\ ppc = "read"
  /\ stage = "closed" \/ (~linkUp /\ wire = <<>>)
  /\ IF stage = "open"
       THEN ppc' = "shutdown" /\ UNCHANGED recvClosed
       ELSE ppc' = "end" /\ recvClosed' = TRUE
  /\ UNCHANGED <<stage, wire, pheld, recv, dropped>> /\ PeerUnchanged

PeerShutsDown ==
  /\ ppc = "shutdown"
  /\ \/ BeginShutdown /\ UNCHANGED <<ppc, recvClosed>>
     \/ stage = "closed" /\ ppc' = "end" /\ recvClosed' = TRUE /\ UNCHANGED stage
  /\ UNCHANGED <<wire, pheld, recv, dropped>> /\ PeerUnchanged

PeerPuts ==
  /\ ppc = "put"
  /\ Len(recv) < RecvCap
  /\ recv' = Append(recv, pheld) /\ pheld' = 0
  /\ ppc' = "read"
  /\ UNCHANGED <<stage, wire, recvClosed, dropped>> /\ PeerUnchanged

\* Mutant: the read loop waits for room and for nothing else.
PeerQuits_Never == FALSE /\ UNCHANGED vars

\* Mutant: having given up on one message, the loop reads the next.
PeerQuits_ReadsOn ==
  /\ ppc = "put"
  /\ stage # "open"
  /\ dropped' = dropped \cup {pheld} /\ pheld' = 0
  /\ ppc' = "read"
  /\ UNCHANGED <<stage, wire, recv, recvClosed>> /\ PeerUnchanged

\* The select that hands a message over also listens to done: with both ready
\* either may be taken.
PeerQuits ==
  /\ ppc = "put"
  /\ stage # "open"
  /\ dropped' = dropped \cup {pheld} /\ pheld' = 0
  /\ ppc' = "end" /\ recvClosed' = TRUE
  /\ UNCHANGED <<stage, wire, recv>> /\ PeerUnchanged

PeerLoop == PeerReads \/ PeerReadFails \/ PeerShutsDown \/ PeerPuts \/ PeerQuits

-------------------------------------------------------------------------------
(* Client.readLoop *)

ClientUnchanged == UNCHANGED <<stage, sendVars, netVars, wire, peerVars, recvClosed, appVars>>

ClientTakes ==
  /\ cpc = "recv"
  /\ recv # <<>>
  /\ recv' = Tail(recv)
  /\ IF Head(recv) \in Absorbed
       THEN UNCHANGED <<cpc, cheld>>
       ELSE cpc' = "put" /\ cheld' = Head(recv)
  /\ UNCHANGED <<frames, framesClosed, clientDone, dropped>> /\ ClientUnchanged

ClientEnds ==
  /\ cpc = "recv"
  /\ recv = <<>> /\ recvClosed
  /\ clientDone' = TRUE /\ framesClosed' = TRUE
  /\ cpc' = "end"
  /\ UNCHANGED <<recv, cheld, frames, dropped>> /\ ClientUnchanged

ClientPuts ==
  /\ cpc = "put"
  /\ Len(frames) < FramesCap
  /\ frames' = Append(frames, cheld) /\ cheld' = 0
  /\ cpc' = "recv"
  /\ UNCHANGED <<recv, framesClosed, clientDone, dropped>> /\ ClientUnchanged

ClientQuits ==
  /\ cpc = "put"
  /\ clientDone
  /\ dropped' = dropped \cup {cheld} /\ cheld' = 0
  /\ cpc' = "end" /\ framesClosed' = TRUE
  /\ UNCHANGED <<recv, frames, clientDone>> /\ ClientUnchanged

ClientLoop == ClientTakes \/ ClientEnds \/ ClientPuts \/ ClientQuits

-------------------------------------------------------------------------------
(* The application: it waits for answers and at the end closes the client. *)

AppUnchanged == UNCHANGED <<sendVars, netVars, wire, peerVars, recv, recvClosed, clientVars,
                            dropped>>

Await ==
  /\ app = "using"
  /\ frames # <<>>
  /\ delivered' = Append(delivered, Head(frames)) /\ frames' = Tail(frames)
  /\ UNCHANGED <<stage, clientDone, app>> /\ AppUnchanged

\* Client.Close closes done; it is due once await reports the end.
StartClose ==
  /\ app = "using"
  /\ clientDone' = TRUE
  /\ app' = "closing"
  /\ UNCHANGED <<stage, delivered, frames>> /\ AppUnchanged

\* ...and closes the transport, Peer.Close.
FinishClose ==
  /\ app = "closing"
  /\ \/ BeginShutdown /\ UNCHANGED app
     \/ stage = "closed" /\ app' = "closed" /\ UNCHANGED stage
  /\ UNCHANGED <<clientDone, delivered, frames>> /\ AppUnchanged

App == \/ Await
       \/ (framesClosed /\ frames = <<>> /\ StartClose)
       \/ FinishClose

-------------------------------------------------------------------------------
(* The frame and the network *)

EnvUnchanged == UNCHANGED <<stage, sendVars, peerVars, recv, recvClosed, clientVars, frames,
                            clientDone, appVars, dropped>>

FrameSends ==
  /\ linkUp
  /\ frameSent < Count
  /\ Len(wire) < WindowCap
  /\ frameSent' = frameSent + 1
  /\ wire' = Append(wire, frameSent + 1)
  /\ UNCHANGED <<linkUp, outRead>> /\ EnvUnchanged

FrameReads ==
  /\ linkUp
  /\ outRead < Len(out)
  /\ outRead' = outRead + 1
  /\ UNCHANGED <<linkUp, frameSent, wire>> /\ EnvUnchanged

\* The frame hangs up, with what it sent still to be read, or the link breaks.
LinkDrops ==
  /\ linkUp
  /\ linkUp' = FALSE
  /\ wire' \in {wire, <<>>}
  /\ UNCHANGED <<outRead, frameSent>> /\ EnvUnchanged

Next ==
  \/ \E s \in Senders: SendStarts(s) \/ Send(s)
  \/ CloseSocket \/ PeerLoop \/ ClientLoop
  \/ App \/ StartClose
  \/ FrameSends \/ FrameReads \/ LinkDrops

Spec == Init /\ [][Next]_vars

\* The goroutines run; the application takes what await offers and closes the
\* client at the end (every command defers Close).  A sender's deadline is part
\* of Send.  Nothing is assumed of the frame or the network.
Fairness == /\ \A s \in Senders: WF_vars(Send(s))
            /\ WF_vars(CloseSocket) /\ WF_vars(PeerLoop) /\ WF_vars(ClientLoop)
            /\ WF_vars(App)

FairSpec == Spec /\ Fairness

-------------------------------------------------------------------------------
(* Properties *)

Holding(m) == IF m = 0 THEN <<>> ELSE <<m>>
Rises(msgs) == \A i, j \in DOMAIN msgs: i < j => msgs[i] < msgs[j]

\* Client.readLoop stands between what the application has or will have next,
\* and what is still to come; Passed counts the messages that have gone by it.
Ahead == delivered \o frames \o Holding(cheld)
Behind == recv \o Holding(pheld) \o wire
Passed == frameSent - Len(Behind)

\* Two queues and two loops lose, repeat and reorder nothing while the
\* connection lasts: every message the frame sent is, in the order it was sent,
\* with the application, or kept by the client for itself, or on its way.  And
\* even when it ends badly, what the application has seen has no hole in it: a
\* message is lost only together with everything behind it.
DeliveredInOrder ==
  /\ linkUp /\ dropped = {} =>
       /\ Rises(Ahead) /\ Range(Ahead) = (1..Passed) \ Absorbed
       /\ \A i \in DOMAIN Behind: Behind[i] = Passed + i
  /\ Rises(delivered) /\ Range(delivered) \subseteq (1..frameSent) \ Absorbed
  /\ \A last \in Range(delivered): (1..last) \ Absorbed \subseteq Range(delivered)

\* The frame can read what is sent.  Every nonce is used once, and the nonces
\* appear on the wire in the order they were counted out, whichever goroutine
\* sends (conn.sendMESGBy).  And a sender whose message was cut short, which the
\* frame could not tell from the start of the next, writes no other: the
\* connection is down before its Send returns.  (A second sender, already past
\* the check of done, may.)
WireReadable ==
  \A i, j \in 1..Len(out): i < j =>
    /\ out[i].nonce < out[j].nonce
    /\ ~out[i].whole => out[j].by # out[i].by

\* A Send never hangs, though the frame may stop reading for ever and the
\* application may be waiting for this very Send before it reads on.
SendReturns == \A s \in Senders: (spc[s] # "idle") ~> (spc[s] = "idle")

\* However the connection ends, both read loops end and the application learns
\* of it, unless it closed the client itself.
LoopsEnd == (stage # "open") ~> (ppc = "end" /\ cpc = "end" /\ app = "closed")

\* "a message that arrived just before the connection dropped is still
\* delivered rather than lost to a race between the two" (peer.go:75-78): what
\* the read loop read before the drop is not thrown away, unless the
\* application closed the connection itself.
ArrivedIsDelivered == app = "using" => dropped = {}
===============================================================================
