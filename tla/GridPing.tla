------------------------------- MODULE GridPing -------------------------------
(***************************************************************************)
(* Bringing a grid connection up and keeping it up: negotiate,             *)
(* awaitControl, sendPing, notePong and pingLoop of internal/sdg/grid.go,  *)
(* over the step deadlines of internal/sdg/conn.go.  The tunnel handshake  *)
(* is over when this begins (BringUp.tla puts the two together); calls are *)
(* in Grid.tla.                                                            *)
(*                                                                         *)
(* The grid answers pings in order, each with its sequence number, as the  *)
(* server of the tests does (sdgtest/fakegrid.go:240-245), and "may        *)
(* volunteer a message at any time, including during bring-up".  How late  *)
(* its pongs are is bounded by Outstanding only.                           *)
(***************************************************************************)
EXTENDS Naturals, Sequences, FiniteSets

CONSTANTS
  SeqMod,         \* sequence numbers wrap here; 2^32 in the code
  MaxReads,       \* maxBringUpMessages
  Outstanding,    \* bound: pings whose pong has not been read
  WireCap,        \* bound: messages on their way to the client
  PingBound       \* bound: pings sent

ASSUME PingAssumption ==
  /\ SeqMod \in Nat \ {0} /\ MaxReads \in Nat \ {0}
  /\ WireCap \in Nat \ {0} /\ PingBound \in Nat \ {0}
  /\ Outstanding \in 1..SeqMod

None == [ping |-> 0, answered |-> 0]

VARIABLES
  stage,      \* where the connection has got to
  reads,      \* messages awaitControl has waded through
  deadline,   \* a step deadline is set on the socket
  pingSeq,    \* the next sequence number
  pinged,     \* pings numbered so far: lastPing is the time of this one
  rtt,        \* the pair of moments last subtracted: a ping's and a pong's
  ticking,    \* pingLoop has numbered a ping and not sent it
  expected,   \* pings the grid has yet to answer
  wire,       \* messages on their way to the client
  lost        \* the socket is broken or closed

vars == <<stage, reads, deadline, pingSeq, pinged, rtt, ticking, expected, wire, lost>>

BringUpStages == {"sendVersion", "awaitVersion", "numberPing", "sendPing", "awaitPong"}

\* A pong carries a sequence number; ping, which the code cannot see, is the
\* ping it answers.
Pong(n) == [type |-> "pong", seq |-> (n - 1) % SeqMod, ping |-> n]
Plain == {[type |-> t, seq |-> 0, ping |-> 0]: t \in {"version", "oldVersion", "empty", "call", "other"}}
Msgs == Plain \cup {Pong(n) : n \in 1..PingBound}

\* The types; ping numbers stay below SeqMod, the 32 bits of the code.
TypeOK ==
  /\ stage \in BringUpStages \cup {"up", "failed", "down"}
  /\ reads \in 0..MaxReads
  /\ deadline \in BOOLEAN
  /\ pingSeq \in 0..(SeqMod - 1)
  /\ pinged \in 0..PingBound
  /\ rtt \in [ping: 0..PingBound, answered: 0..PingBound]
  /\ ticking \in BOOLEAN
  /\ expected \in Seq(1..PingBound) /\ Len(expected) <= Outstanding
  /\ wire \in Seq(Msgs) /\ Len(wire) <= WireCap
  /\ lost \in BOOLEAN

Init ==
  /\ stage = "sendVersion" /\ reads = 0 /\ deadline = TRUE
  /\ pingSeq = 0 /\ pinged = 0 /\ rtt = None /\ ticking = FALSE
  /\ expected = <<>> /\ wire = <<>> /\ lost = FALSE

-------------------------------------------------------------------------------
(* Pings *)

Unread == Len(expected) + Cardinality({i \in 1..Len(wire): wire[i].type = "pong"})

\* sendPing up to the unlock: the ping has its number and its time.
NumbersPing ==
  /\ pinged < PingBound /\ Unread < Outstanding
  /\ pingSeq' = (pingSeq + 1) % SeqMod
  /\ pinged' = pinged + 1

\* sendControl of the ping last numbered.
PutsPing == expected' = Append(expected, pinged)

\* Mutant: any pong is measured against the last ping.
NotePong_Any(m) == rtt' = [ping |-> pinged, answered |-> m.ping]

\* Only the pong for the last ping is measured; the time of an earlier one is
\* gone.
NotePong(m) ==
  IF m.seq = (pingSeq + SeqMod - 1) % SeqMod /\ pinged > 0
    THEN rtt' = [ping |-> pinged, answered |-> m.ping]
    ELSE UNCHANGED rtt

\* handle, as far as it concerns the connection: a pong is noted, a call is
\* refused with a message of its own, the rest is ignored.
Handles(m) ==
  IF m.type = "pong" THEN NotePong(m) ELSE UNCHANGED rtt

-------------------------------------------------------------------------------
(* negotiate *)

Fails == stage' = "failed" /\ lost' = TRUE

\* While stepTimeout is set, each read and write sets the deadline anew.
Steps(from, to) == stage = from /\ ~lost /\ stage' = to /\ UNCHANGED lost

SendsVersion ==
  /\ Steps("sendVersion", "awaitVersion")
  /\ reads' = 0
  /\ UNCHANGED <<deadline, pingSeq, pinged, rtt, ticking, expected, wire>>

NumbersFirstPing ==
  /\ Steps("numberPing", "sendPing")
  /\ NumbersPing
  /\ UNCHANGED <<reads, deadline, rtt, ticking, expected, wire>>

SendsFirstPing ==
  /\ Steps("sendPing", "awaitPong")
  /\ PutsPing
  /\ reads' = 0
  /\ UNCHANGED <<deadline, pingSeq, pinged, rtt, ticking, wire>>

\* awaitControl takes a message that may be the one it wants.
Awaits(where) ==
  /\ stage = where /\ ~lost
  /\ wire # <<>> /\ wire' = Tail(wire)
  /\ UNCHANGED <<pingSeq, pinged, ticking, expected>>

GetsVersion ==
  /\ Awaits("awaitVersion")
  /\ \/ Head(wire).type = "version" /\ stage' = "numberPing" /\ UNCHANGED lost
     \/ Head(wire).type = "oldVersion" /\ Fails
  /\ UNCHANGED <<reads, deadline, rtt>>

\* The connection is usable: clearStepTimeout, and the two loops start.
GetsPong ==
  /\ Awaits("awaitPong")
  /\ Head(wire).type = "pong" /\ NotePong(Head(wire))
  /\ stage' = "up" /\ deadline' = FALSE /\ UNCHANGED lost
  /\ UNCHANGED reads

Unwanted(m) ==
  IF stage = "awaitVersion" THEN m.type \notin {"version", "oldVersion"} ELSE m.type # "pong"

\* Mutant: wading through messages is not counted.
Wades_Uncounted ==
  /\ \E where \in {"awaitVersion", "awaitPong"}: Awaits(where)
  /\ Unwanted(Head(wire))
  /\ Handles(Head(wire))
  /\ UNCHANGED <<stage, lost, reads, deadline>>

\* Anything else is handled in passing, MaxReads times at most; refusing a call
\* may fail, which fails the bring-up.
Wades ==
  /\ \E where \in {"awaitVersion", "awaitPong"}: Awaits(where)
  /\ Unwanted(Head(wire))
  /\ Handles(Head(wire))
  /\ reads' = reads + 1
  /\ \/ reads + 1 < MaxReads /\ UNCHANGED <<stage, lost>>
     \/ (reads + 1 = MaxReads \/ Head(wire).type = "call") /\ Fails
  /\ UNCHANGED deadline

\* A read or write returns an error: the socket is broken, or was closed when
\* the caller's context ended, or the step took too long.
StepFails ==
  /\ stage \in BringUpStages \ {"numberPing"}
  /\ Fails
  /\ UNCHANGED <<reads, deadline, pingSeq, pinged, rtt, ticking, expected, wire>>

\* Nothing comes: the read runs into its deadline.
StepTimesOut ==
  /\ stage \in {"awaitVersion", "awaitPong"} /\ deadline
  /\ wire = <<>> /\ Fails
  /\ UNCHANGED <<reads, deadline, pingSeq, pinged, rtt, ticking, expected, wire>>

Negotiate == \/ SendsVersion \/ NumbersFirstPing \/ SendsFirstPing
             \/ GetsVersion \/ GetsPong \/ Wades

-------------------------------------------------------------------------------
(* pingLoop and readLoop, once the connection is up *)

TickNumbers ==
  /\ stage = "up" /\ ~ticking
  /\ NumbersPing /\ ticking' = TRUE
  /\ UNCHANGED <<stage, reads, deadline, rtt, expected, wire, lost>>

TickSends ==
  /\ stage = "up" /\ ticking /\ ~lost
  /\ PutsPing /\ ticking' = FALSE
  /\ UNCHANGED <<stage, reads, deadline, pingSeq, pinged, rtt, wire, lost>>

ReadsMessage ==
  /\ stage = "up" /\ ~lost
  /\ wire # <<>> /\ wire' = Tail(wire)
  /\ Handles(Head(wire))
  /\ UNCHANGED <<stage, reads, deadline, pingSeq, pinged, ticking, expected, lost>>

\* A read, or a write of a ping or of a refusal, fails: the grid shuts down.
\* A deadline left on the socket would do it too.
GoesDown ==
  /\ stage = "up" /\ (lost \/ deadline)
  /\ stage' = "down" /\ lost' = TRUE
  /\ UNCHANGED <<reads, deadline, pingSeq, pinged, rtt, ticking, expected, wire>>

-------------------------------------------------------------------------------
(* The grid and the network *)

GridAnswers ==
  /\ expected # <<>> /\ ~lost /\ Len(wire) < WireCap
  /\ wire' = Append(wire, Pong(Head(expected)))
  /\ expected' = Tail(expected)
  /\ UNCHANGED <<stage, reads, deadline, pingSeq, pinged, rtt, ticking, lost>>

\* Its version, and whatever else it likes, at any time.
GridVolunteers ==
  /\ ~lost /\ Len(wire) < WireCap
  /\ \E m \in Plain: wire' = Append(wire, m)
  /\ UNCHANGED <<stage, reads, deadline, pingSeq, pinged, rtt, ticking, expected, lost>>

Breaks ==
  /\ stage = "up" /\ ~lost /\ lost' = TRUE
  /\ UNCHANGED <<stage, reads, deadline, pingSeq, pinged, rtt, ticking, expected, wire>>

ClientSteps == \/ Negotiate \/ StepFails \/ StepTimesOut
               \/ TickNumbers \/ TickSends \/ ReadsMessage \/ GoesDown

GridSteps == GridAnswers \/ GridVolunteers \/ Breaks

Next == ClientSteps \/ GridSteps

Spec == Init /\ [][Next]_vars

-------------------------------------------------------------------------------
(* Properties *)

\* The round trip reported is the time between a ping and the pong that answers
\* it, though pings are numbered by one goroutine, pongs are noted by another
\* and may be a ping or more late, and the numbers wrap.
RttOfOnePing == rtt.answered = rtt.ping
===============================================================================
