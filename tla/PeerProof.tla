------------------------------- MODULE PeerProof -------------------------------
(***************************************************************************)
(* The safety properties of Peer.tla, for any finite set of senders, any   *)
(* number of messages and queues of any length, and of Reassembler.tla,    *)
(* for any messages, lengths and orders of parts.                          *)
(*                                                                         *)
(* IInv is the inductive invariant of Peer: TypeOK, who holds what where   *)
(* (LoopInv, LockInv), what the senders have counted and written           *)
(* (NonceInv, CutInv), and how far the messages of the frame have come     *)
(* (OrderInv).  That of Reassembler is PartsInv, in the second half.       *)
(***************************************************************************)
EXTENDS Peer, Reassembler, WellFoundedInduction, FiniteSetTheorems, SequenceTheorems, TLAPS

\* The state tuples, expanded wherever a step is split into its variables.
USE DEF vars, sendVars, netVars, peerVars, clientVars, appVars

Lockers == {s \in Senders: spc[s] = "lock"}

\* Every Send that waits for the lock has a nonce to come.
LockInv ==
  /\ ctr + Cardinality(Lockers) <= SendBound
  /\ \A s \in Senders: spc[s] = "write" => sendMu = s

\* What is on the wire was counted out before the message being written, and
\* that one before whatever comes next.
NonceInv ==
  /\ \A s \in Senders: spc[s] = "write" => nonce[s] < ctr
  /\ \A i \in 1..Len(out): /\ out[i].nonce < ctr
                           /\ \A s \in Senders: spc[s] = "write" => out[i].nonce < nonce[s]
  /\ \A i, j \in 1..Len(out): i < j => out[i].nonce < out[j].nonce

\* A sender that left a message unfinished brings the connection down.
CutInv ==
  /\ \A i \in 1..Len(out): ~out[i].whole =>
       \/ spc[out[i].by] = "shutdown"
       \/ spc[out[i].by] = "idle" /\ stage # "open"
  /\ \A i, j \in 1..Len(out): i < j /\ ~out[i].whole => out[j].by # out[i].by

SendInv == LockInv /\ NonceInv /\ CutInv

LoopInv ==
  /\ ppc = "put" <=> pheld # 0
  /\ cpc = "put" <=> cheld # 0
  /\ recvClosed => ppc = "end"
  /\ framesClosed <=> cpc = "end"

\* The place after recv: of the message the read loop holds, or the first on the wire.
Room == IF pheld = 0 THEN 0 ELSE 1

\* Up to n everything has passed the client's read loop, in order...
AheadInv(n) ==
  /\ Rises(delivered) /\ Rises(frames)
  /\ \A i \in DOMAIN delivered: /\ delivered[i] \in (1..n) \ Absorbed
                                /\ \A j \in DOMAIN frames: delivered[i] < frames[j]
                                /\ cheld # 0 => delivered[i] < cheld
  /\ \A i \in DOMAIN frames: /\ frames[i] \in (1..n) \ Absorbed
                             /\ cheld # 0 => frames[i] < cheld
  /\ cheld # 0 => cheld \in (1..n) \ Absorbed
  /\ \A m \in (1..n) \ Absorbed: \/ \E i \in DOMAIN delivered: delivered[i] = m
                                 \/ \E i \in DOMAIN frames: frames[i] = m
                                 \/ cheld = m

\* ...and what follows is behind it, without a gap, until one of the loops has
\* thrown something away.
BehindInv(n) ==
  /\ n + Len(recv) + Room <= frameSent
  /\ \A i \in DOMAIN recv: recv[i] = n + i
  /\ pheld # 0 => pheld = n + Len(recv) + 1
  /\ ppc # "end" \/ dropped = {} =>
       /\ \A i \in DOMAIN wire: wire[i] = n + Len(recv) + Room + i
       /\ n + Len(recv) + Room + Len(wire) <= frameSent
       /\ linkUp => n + Len(recv) + Room + Len(wire) = frameSent

OrderInv ==
  \E n \in 0..frameSent: AheadInv(n) /\ (cpc # "end" \/ dropped = {} => BehindInv(n))

IInv == TypeOK /\ SendInv /\ LoopInv /\ OrderInv

-------------------------------------------------------------------------------
(* Types *)

\* The first of a sequence, and what is left, are of its kind.
LEMMA HeadTail ==
  ASSUME NEW S, NEW q \in Seq(S), q # <<>>
  PROVE  /\ Head(q) \in S /\ Tail(q) \in Seq(S)
         /\ Len(q) \in Nat \ {0} /\ Len(Tail(q)) = Len(q) - 1
         /\ Head(q) = q[1] /\ \A i \in 1..Len(Tail(q)): Tail(q)[i] = q[i + 1]
         /\ DOMAIN q = 1..Len(q) /\ DOMAIN Tail(q) = 1..(Len(q) - 1)
OBVIOUS

\* One more at the end.
LEMMA OneMore ==
  ASSUME NEW S, NEW q \in Seq(S), NEW x \in S
  PROVE  /\ Append(q, x) \in Seq(S)
         /\ Len(q) \in Nat /\ Len(Append(q, x)) = Len(q) + 1
         /\ \A i \in 1..Len(q): Append(q, x)[i] = q[i]
         /\ Append(q, x)[Len(q) + 1] = x
         /\ DOMAIN q = 1..Len(q) /\ DOMAIN Append(q, x) = 1..(Len(q) + 1)
OBVIOUS

\* The invariant holds at the start.
LEMMA InitIInv == Init => IInv
<1> SUFFICES ASSUME Init PROVE IInv
  OBVIOUS
<1>1. TypeOK
  <2>1. 0 \in 0..SendBound /\ 0 \in 0..Count /\ 0 <= WindowCap /\ 0 <= RecvCap /\ 0 <= FramesCap
    BY CountAssumption, CapAssumption
  <2>2. \A S: <<>> \in Seq(S)
    OBVIOUS
  <2>3. Len(<<>>) = 0 /\ 0 \in 0..0
    OBVIOUS
  <2> QED
    BY <2>1, <2>2, <2>3 DEF Init, TypeOK
<1>2. SendInv
  <2>1. Lockers = {}
    BY DEF Init, Lockers
  <2>2. Cardinality(Lockers) = 0
    BY <2>1, FS_EmptySet
  <2>3. LockInv
    BY <2>2, CountAssumption DEF Init, LockInv
  <2>4. NonceInv /\ CutInv
    BY DEF Init, NonceInv, CutInv
  <2> QED
    BY <2>3, <2>4 DEF SendInv
<1>3. LoopInv
  BY DEF Init, LoopInv
<1>4. OrderInv
  <2>1. AheadInv(0)
    BY DEF Init, AheadInv, Rises
  <2>2. BehindInv(0)
    BY DEF Init, BehindInv, Room
  <2> QED
    BY <2>1, <2>2, CountAssumption DEF OrderInv, Init
<1> QED
  BY <1>1, <1>2, <1>3, <1>4 DEF IInv

\* A lock taken is a place less in the queue for it.
LEMMA LockerFacts ==
  ASSUME TypeOK, LockInv
  PROVE  /\ IsFiniteSet(Lockers) /\ Cardinality(Lockers) \in Nat /\ ctr \in Nat
         /\ \A s \in Lockers: ctr < SendBound
                              /\ Cardinality(Lockers \ {s}) = Cardinality(Lockers) - 1
<1>1. IsFiniteSet(Lockers) /\ Cardinality(Lockers) \in Nat
  BY SenderAssumption, FS_Subset, FS_CardinalityType DEF Lockers
<1>2. ASSUME NEW s \in Lockers
      PROVE  Cardinality(Lockers \ {s}) = Cardinality(Lockers) - 1
  BY <1>1, FS_RemoveElement
<1>3. ASSUME NEW s \in Lockers
      PROVE  Cardinality(Lockers) > 0
  BY <1>1, FS_EmptySet
<1> QED
  BY <1>1, <1>2, <1>3, CountAssumption DEF TypeOK, LockInv

LEMMA SendTypes ==
  ASSUME TypeOK, LockInv, NEW s \in Senders, SendStarts(s) \/ Send(s)
  PROVE  TypeOK'
<1> USE DEF SendUnchanged
<1>1. CASE SendStarts(s)
  BY <1>1 DEF TypeOK, SendStarts
<1>2. CASE SendLocks(s)
  <2>1. s \in Lockers
    BY <1>2 DEF SendLocks, Lockers
  <2>2. ctr \in Nat /\ ctr < SendBound
    BY <2>1, LockerFacts
  <2>3. ctr + 1 \in 0..SendBound
    BY <2>2, CountAssumption
  <2> QED
    BY <1>2, <2>3 DEF TypeOK, SendLocks
<1>3. CASE SendWrites(s) \/ SendFails(s)
  <2>1. \/ UNCHANGED out
        \/ \E w \in BOOLEAN: out' = Append(out, [nonce |-> nonce[s], whole |-> w, by |-> s])
    BY <1>3 DEF SendWrites, SendFails
  <2> DEFINE Written == [nonce: 0..SendBound, whole: BOOLEAN, by: Senders]
  <2>2. \A w \in BOOLEAN: [nonce |-> nonce[s], whole |-> w, by |-> s] \in Written
    BY DEF TypeOK
  <2>3. out \in Seq(Written) /\ outRead \in 0..Len(out)
    BY DEF TypeOK
  <2>4. out' \in Seq(Written) /\ outRead \in 0..Len(out')
    <3> HIDE DEF Written
    <3>1. ASSUME NEW x \in Written
          PROVE  Append(out, x) \in Seq(Written) /\ outRead \in 0..Len(Append(out, x))
      BY <2>3, OneMore
    <3> QED
      BY <2>1, <2>2, <2>3, <3>1
  <2>5. sendMu' = NoSender /\ spc' \in [Senders -> {"idle", "lock", "write", "shutdown"}]
        /\ UNCHANGED <<stage, ctr, nonce>> /\ SendUnchanged
    BY <1>3 DEF TypeOK, SendWrites, SendFails
  <2> QED
    BY <2>4, <2>5 DEF TypeOK
<1>4. CASE SendShutsDown(s)
  <2>1. stage' \in {"open", "done", "closed"}
        /\ spc' \in [Senders -> {"idle", "lock", "write", "shutdown"}]
        /\ UNCHANGED <<ctr, sendMu, nonce, out>> /\ SendUnchanged
    BY <1>4 DEF TypeOK, SendShutsDown, BeginShutdown
  <2> QED
    BY <2>1 DEF TypeOK
<1> QED
  BY <1>1, <1>2, <1>3, <1>4 DEF Send

LEMMA PeerTypes ==
  ASSUME TypeOK, LoopInv, PeerLoop
  PROVE  TypeOK'
<1> USE DEF PeerUnchanged
<1>1. CASE PeerReads
  <2>1. wire \in Seq(Msgs) /\ wire # <<>> /\ Len(wire) <= WindowCap
    BY <1>1 DEF TypeOK, PeerReads
  <2>2. Head(wire) \in Msgs /\ Tail(wire) \in Seq(Msgs) /\ Len(Tail(wire)) <= WindowCap
    BY <2>1, HeadTail, CapAssumption
  <2> QED
    BY <1>1, <2>2 DEF TypeOK, PeerReads
<1>2. CASE PeerReadFails \/ PeerShutsDown
  <2>1. stage' \in {"open", "done", "closed"} /\ ppc' \in {"read", "put", "shutdown", "end"}
    BY <1>2 DEF TypeOK, PeerReadFails, PeerShutsDown, BeginShutdown
  <2>2. recvClosed' \in BOOLEAN
    BY <1>2, Zenon DEF TypeOK, PeerReadFails, PeerShutsDown
  <2>3. UNCHANGED <<pheld, recv, wire, dropped>> /\ PeerUnchanged
    BY <1>2 DEF PeerReadFails, PeerShutsDown
  <2> QED
    BY <2>1, <2>2, <2>3 DEF TypeOK
<1>3. CASE PeerPuts
  BY <1>3, OneMore, CapAssumption DEF TypeOK, LoopInv, PeerPuts
<1>4. CASE PeerQuits
  BY <1>4 DEF TypeOK, LoopInv, PeerQuits
<1> QED
  BY <1>1, <1>2, <1>3, <1>4 DEF PeerLoop

LEMMA ClientTypes ==
  ASSUME TypeOK, LoopInv, ClientLoop
  PROVE  TypeOK'
<1> USE DEF ClientUnchanged
<1>1. CASE ClientTakes
  <2>1. recv \in Seq(Msgs) /\ recv # <<>> /\ Len(recv) <= RecvCap
    BY <1>1 DEF TypeOK, ClientTakes
  <2>2. Head(recv) \in Msgs /\ Tail(recv) \in Seq(Msgs) /\ Len(Tail(recv)) <= RecvCap
    BY <2>1, HeadTail, CapAssumption
  <2> QED
    BY <1>1, <2>2 DEF TypeOK, ClientTakes
<1>2. CASE ClientEnds
  BY <1>2 DEF TypeOK, ClientEnds
<1>3. CASE ClientPuts
  BY <1>3, OneMore, CapAssumption DEF TypeOK, LoopInv, ClientPuts
<1>4. CASE ClientQuits
  BY <1>4 DEF TypeOK, LoopInv, ClientQuits
<1> QED
  BY <1>1, <1>2, <1>3, <1>4 DEF ClientLoop

LEMMA OtherTypes ==
  ASSUME TypeOK, CloseSocket \/ App \/ StartClose \/ FrameSends \/ FrameReads \/ LinkDrops
  PROVE  TypeOK'
<1> USE DEF AppUnchanged, EnvUnchanged
<1>1. CASE CloseSocket
  BY <1>1 DEF TypeOK, CloseSocket
<1>2. CASE Await
  <2>1. frames \in Seq(Msgs) /\ frames # <<>> /\ Len(frames) <= FramesCap /\ delivered \in Seq(Msgs)
    BY <1>2 DEF TypeOK, Await
  <2>2. Head(frames) \in Msgs /\ Tail(frames) \in Seq(Msgs) /\ Len(Tail(frames)) <= FramesCap
    BY <2>1, HeadTail, CapAssumption
  <2>3. Append(delivered, Head(frames)) \in Seq(Msgs)
    BY <2>1, <2>2, OneMore
  <2> QED
    BY <1>2, <2>2, <2>3 DEF TypeOK, Await
<1>3. CASE StartClose \/ FinishClose
  <2>1. /\ stage' \in {"open", "done", "closed"} /\ app' \in {"using", "closing", "closed"}
        /\ clientDone' \in BOOLEAN
    BY <1>3 DEF TypeOK, StartClose, FinishClose, BeginShutdown
  <2>2. UNCHANGED <<delivered, frames>> /\ AppUnchanged
    BY <1>3 DEF StartClose, FinishClose
  <2> QED
    BY <2>1, <2>2 DEF TypeOK
<1>4. CASE FrameSends
  <2>1. frameSent + 1 \in Msgs
    BY <1>4, CountAssumption DEF TypeOK, FrameSends, Msgs
  <2> QED
    BY <1>4, <2>1, OneMore, CountAssumption, CapAssumption DEF TypeOK, FrameSends
<1>5. CASE FrameReads
  BY <1>5 DEF TypeOK, FrameReads
<1>6. CASE LinkDrops
  <2>1. <<>> \in Seq(Msgs) /\ Len(<<>>) <= WindowCap
    BY CapAssumption
  <2>2. wire' \in Seq(Msgs) /\ Len(wire') <= WindowCap
    BY <1>6, <2>1 DEF TypeOK, LinkDrops
  <2>3. linkUp' \in BOOLEAN
    BY <1>6, Zenon DEF LinkDrops
  <2>4. UNCHANGED <<outRead, frameSent>> /\ EnvUnchanged
    BY <1>6 DEF LinkDrops
  <2> QED
    BY <2>2, <2>3, <2>4 DEF TypeOK
<1> QED
  BY <1>1, <1>2, <1>3, <1>4, <1>5, <1>6 DEF App

-------------------------------------------------------------------------------
(* Sending *)

LEMMA OutFacts ==
  ASSUME TypeOK
  PROVE  \A i \in 1..Len(out): out[i].by \in Senders /\ out[i].nonce \in Nat
<1> DEFINE Written == [nonce: 0..SendBound, whole: BOOLEAN, by: Senders]
<1>1. \A e \in Written: e.by \in Senders /\ e.nonce \in Nat
  BY CountAssumption
<1>2. out \in Seq(Written)
  BY DEF TypeOK
<1> HIDE DEF Written
<1>3. \A i \in 1..Len(out): out[i] \in Written
  BY <1>2
<1> QED
  BY <1>1, <1>3

\* What is not a step of a sender disturbs no sender; a connection that is
\* coming down does not come up again.
LEMMA SendQuiet ==
  ASSUME SendInv, UNCHANGED sendVars, stage = "open" \/ stage' # "open"
  PROVE  SendInv'
<1>1. LockInv'
  BY DEF SendInv, LockInv, Lockers
<1>2. NonceInv'
  BY DEF SendInv, NonceInv
<1>3. CutInv'
  BY DEF SendInv, CutInv
<1> QED
  BY <1>1, <1>2, <1>3 DEF SendInv

\* Nobody but the holder of sendMu writes.
LEMMA OneWriter ==
  ASSUME TypeOK, LockInv, NEW s \in Senders, spc[s] = "write",
         sendMu' = NoSender, UNCHANGED ctr,
         spc' = [spc EXCEPT ![s] = "idle"] \/ spc' = [spc EXCEPT ![s] = "shutdown"]
  PROVE  /\ LockInv'
         /\ \A r \in Senders: spc'[r] # "write"
<1>1. \A r \in Senders: spc'[r] # "write"
  BY SenderAssumption DEF TypeOK, LockInv
<1>2. Lockers' = Lockers
  BY DEF TypeOK, Lockers
<1> QED
  BY <1>1, <1>2 DEF LockInv

LEMMA StartStep ==
  ASSUME TypeOK, SendInv, NEW s \in Senders, SendStarts(s)
  PROVE  SendInv'
<1> USE DEF SendStarts
<1>1. spc' = [spc EXCEPT ![s] = "lock"] /\ UNCHANGED <<stage, ctr, sendMu, nonce, out>>
  OBVIOUS
<1>2. LockInv'
  <2>1. Lockers' = Lockers \cup {s} /\ s \notin Lockers
    BY DEF TypeOK, Lockers
  <2>2. Cardinality(Lockers') = Cardinality(Lockers) + 1
    BY <2>1, LockerFacts, FS_AddElement DEF SendInv
  <2>3. ctr + Cardinality(Lockers) < SendBound
    BY DEF Lockers
  <2>4. ctr' + Cardinality(Lockers') <= SendBound
    BY <2>2, <2>3, LockerFacts, CountAssumption DEF SendInv
  <2> QED
    BY <2>4 DEF TypeOK, SendInv, LockInv
<1>3. NonceInv'
  BY <1>1 DEF TypeOK, SendInv, NonceInv
<1>4. CutInv'
  <2>1. \A i \in 1..Len(out): out[i].by \in Senders
    BY OutFacts
  <2>2. \A i \in 1..Len(out): ~out[i].whole => out[i].by # s
    BY DEF SendInv, CutInv
  <2>3. \A r \in Senders: r # s => spc'[r] = spc[r]
    BY <1>1 DEF TypeOK
  <2> QED
    BY <1>1, <2>1, <2>2, <2>3 DEF SendInv, CutInv
<1> QED
  BY <1>2, <1>3, <1>4 DEF SendInv

LEMMA LockStep ==
  ASSUME TypeOK, SendInv, NEW s \in Senders, SendLocks(s)
  PROVE  SendInv'
<1> USE DEF SendLocks
<1>1. /\ spc[s] = "lock" /\ sendMu = NoSender
      /\ spc' = [spc EXCEPT ![s] = "write"] /\ nonce' = [nonce EXCEPT ![s] = ctr]
      /\ ctr' = ctr + 1 /\ sendMu' = s /\ UNCHANGED <<stage, out>>
  OBVIOUS
<1>2. \A r \in Senders: spc[r] # "write"
  BY <1>1, SenderAssumption DEF SendInv, LockInv
<1>3. \A r \in Senders: spc'[r] = "write" => r = s
  BY <1>1, <1>2 DEF TypeOK
<1>4. LockInv'
  <2>1. s \in Lockers /\ Lockers' = Lockers \ {s}
    BY <1>1 DEF TypeOK, Lockers
  <2>2. ctr + Cardinality(Lockers) <= SendBound
    BY DEF SendInv, LockInv
  <2>3. ctr' + Cardinality(Lockers') <= SendBound
    BY <1>1, <2>1, <2>2, LockerFacts, CountAssumption DEF SendInv
  <2> QED
    BY <1>1, <1>3, <2>3 DEF LockInv
<1>5. NonceInv'
  <2>1. ctr \in Nat /\ nonce'[s] = ctr
    BY <1>1, CountAssumption DEF TypeOK
  <2>2. \A i \in 1..Len(out): out[i].nonce \in Nat /\ out[i].nonce < ctr
    BY OutFacts DEF SendInv, NonceInv
  <2>3. \A i \in 1..Len(out'): /\ out'[i].nonce < ctr'
                               /\ \A r \in Senders: spc'[r] = "write" => out'[i].nonce < nonce'[r]
    BY <1>1, <1>3, <2>1, <2>2
  <2>4. \A r \in Senders: spc'[r] = "write" => nonce'[r] < ctr'
    BY <1>1, <1>3, <2>1
  <2>5. \A i, j \in 1..Len(out'): i < j => out'[i].nonce < out'[j].nonce
    BY <1>1 DEF SendInv, NonceInv
  <2> QED
    BY <2>3, <2>4, <2>5 DEF NonceInv
<1>6. CutInv'
  <2>1. \A i \in 1..Len(out): out[i].by \in Senders /\ (~out[i].whole => out[i].by # s)
    BY <1>1, OutFacts DEF SendInv, CutInv
  <2>2. \A r \in Senders: r # s => spc'[r] = spc[r]
    BY <1>1 DEF TypeOK
  <2> QED
    BY <1>1, <2>1, <2>2 DEF SendInv, CutInv
<1> QED
  BY <1>4, <1>5, <1>6 DEF SendInv

\* A write puts the last nonce on the wire, and whoever did not finish it shuts
\* the connection down next.
LEMMA WriteStep ==
  ASSUME TypeOK, SendInv, NEW s \in Senders, NEW w \in BOOLEAN, spc[s] = "write",
         out' = Append(out, [nonce |-> nonce[s], whole |-> w, by |-> s]),
         spc' = [spc EXCEPT ![s] = IF w THEN "idle" ELSE "shutdown"]
           \/ spc' = [spc EXCEPT ![s] = "shutdown"],
         sendMu' = NoSender, UNCHANGED <<stage, ctr, nonce>>
  PROVE  SendInv'
<1>1. spc' = [spc EXCEPT ![s] = "idle"] \/ spc' = [spc EXCEPT ![s] = "shutdown"]
  OBVIOUS
<1>2. LockInv' /\ \A r \in Senders: spc'[r] # "write"
  BY <1>1, OneWriter DEF SendInv
<1> DEFINE e == [nonce |-> nonce[s], whole |-> w, by |-> s]
           Written == [nonce: 0..SendBound, whole: BOOLEAN, by: Senders]
<1>3. out \in Seq(Written) /\ e \in Written
  BY DEF TypeOK
<1>4. /\ Len(out) \in Nat /\ Len(out') = Len(out) + 1
      /\ \A i \in 1..Len(out): out'[i] = out[i]
      /\ out'[Len(out) + 1] = e
  <2> HIDE DEF e, Written
  <2> QED
    BY <1>3, OneMore DEF e
<1>5. \A i \in 1..Len(out'): i \in 1..Len(out) \/ i = Len(out')
  BY <1>4
<1>6. /\ e.nonce = nonce[s] /\ e.whole = w /\ e.by = s
      /\ \A i \in 1..Len(out): out[i].nonce < nonce[s] /\ out[i].nonce < ctr
      /\ nonce[s] < ctr
  BY DEF SendInv, NonceInv
<1>7. NonceInv'
  <2>1. \A i, j \in 1..Len(out'): i < j => out'[i].nonce < out'[j].nonce
    <3> SUFFICES ASSUME NEW i \in 1..Len(out'), NEW j \in 1..Len(out'), i < j
                 PROVE  out'[i].nonce < out'[j].nonce
      OBVIOUS
    <3>1. i \in 1..Len(out)
      BY <1>4
    <3>2. CASE j \in 1..Len(out)
      BY <3>1, <3>2, <1>4 DEF SendInv, NonceInv
    <3>3. CASE j = Len(out')
      BY <3>1, <3>3, <1>4, <1>6
    <3> QED
      BY <3>2, <3>3, <1>5
  <2>2. \A i \in 1..Len(out'): out'[i].nonce < ctr'
    BY <1>4, <1>5, <1>6
  <2> QED
    BY <1>2, <2>1, <2>2 DEF NonceInv
<1>8. CutInv'
  <2>1. \A i \in 1..Len(out): ~out[i].whole => out[i].by # s
    BY DEF TypeOK, SendInv, CutInv
  <2>2. \A i \in 1..Len(out): out[i].by \in Senders
    BY OutFacts
  <2>3. ASSUME NEW i \in 1..Len(out'), ~out'[i].whole
        PROVE  \/ spc'[out'[i].by] = "shutdown"
               \/ spc'[out'[i].by] = "idle" /\ stage' # "open"
    <3>1. CASE i \in 1..Len(out)
      <4>1. ~out[i].whole /\ out[i].by # s /\ out[i].by \in Senders /\ out'[i].by = out[i].by
        BY <2>1, <2>2, <2>3, <3>1, <1>4
      <4>2. spc'[out[i].by] = spc[out[i].by]
        BY <1>1, <4>1 DEF TypeOK
      <4> QED
        BY <3>1, <4>1, <4>2 DEF SendInv, CutInv
    <3>2. CASE i = Len(out')
      BY <2>3, <3>2, <1>4, <1>6 DEF TypeOK
    <3> QED
      BY <3>1, <3>2, <1>5
  <2>4. ASSUME NEW i \in 1..Len(out'), NEW j \in 1..Len(out'), i < j, ~out'[i].whole
        PROVE  out'[j].by # out'[i].by
    <3>1. i \in 1..Len(out)
      BY <2>4, <1>4
    <3>2. CASE j \in 1..Len(out)
      BY <2>4, <3>1, <3>2, <1>4 DEF SendInv, CutInv
    <3>3. CASE j = Len(out')
      BY <2>1, <2>4, <3>1, <3>3, <1>4, <1>6
    <3> QED
      BY <3>2, <3>3, <1>5
  <2> QED
    BY <2>3, <2>4 DEF CutInv
<1> QED
  BY <1>2, <1>7, <1>8 DEF SendInv

\* A write that failed before its first byte.
LEMMA NoWriteStep ==
  ASSUME TypeOK, SendInv, NEW s \in Senders, spc[s] = "write", sendMu' = NoSender,
         spc' = [spc EXCEPT ![s] = "shutdown"], UNCHANGED <<stage, ctr, nonce, out>>
  PROVE  SendInv'
<1>1. LockInv' /\ \A r \in Senders: spc'[r] # "write"
  BY OneWriter DEF SendInv
<1>2. NonceInv'
  BY <1>1 DEF SendInv, NonceInv
<1>3. CutInv'
  <2>1. \A i \in 1..Len(out): out[i].by \in Senders
    BY OutFacts
  <2> QED
    BY <2>1 DEF TypeOK, SendInv, CutInv
<1> QED
  BY <1>1, <1>2, <1>3 DEF SendInv

LEMMA ShutdownStep ==
  ASSUME TypeOK, SendInv, NEW s \in Senders, SendShutsDown(s)
  PROVE  SendInv'
<1> USE DEF SendShutsDown, BeginShutdown
<1>1. CASE UNCHANGED spc
  <2>1. stage' # "open" /\ UNCHANGED sendVars
    BY <1>1 DEF TypeOK
  <2> QED
    BY <2>1, SendQuiet
<1>2. CASE spc # spc'
  <2>1. /\ stage = "closed" /\ spc[s] = "shutdown" /\ spc' = [spc EXCEPT ![s] = "idle"]
        /\ UNCHANGED <<stage, ctr, sendMu, nonce, out>>
    BY <1>2
  <2>2. Lockers' = Lockers /\ \A r \in Senders: spc'[r] = "write" <=> spc[r] = "write"
    BY <2>1 DEF TypeOK, Lockers
  <2>3. LockInv' /\ NonceInv'
    BY <2>1, <2>2 DEF SendInv, LockInv, NonceInv
  <2>4. \A i \in 1..Len(out): out[i].by \in Senders
    BY OutFacts
  <2>5. CutInv'
    BY <2>1, <2>4 DEF TypeOK, SendInv, CutInv
  <2> QED
    BY <2>3, <2>5 DEF SendInv
<1> QED
  BY <1>1, <1>2

LEMMA SendStep ==
  ASSUME TypeOK, SendInv, NEW s \in Senders, SendStarts(s) \/ Send(s)
  PROVE  SendInv'
<1>1. CASE SendStarts(s)
  BY <1>1, StartStep
<1>2. CASE SendLocks(s)
  BY <1>2, LockStep
<1>3. CASE SendWrites(s)
  <2>1. /\ spc[s] = "write" /\ sendMu' = NoSender /\ UNCHANGED <<stage, ctr, nonce>>
        /\ out' = Append(out, [nonce |-> nonce[s], whole |-> TRUE, by |-> s])
        /\ spc' = [spc EXCEPT ![s] = IF TRUE THEN "idle" ELSE "shutdown"]
    BY <1>3 DEF SendWrites
  <2> QED
    BY <2>1, WriteStep
<1>4. CASE SendFails(s)
  <2>1. /\ spc[s] = "write" /\ sendMu' = NoSender /\ UNCHANGED <<stage, ctr, nonce>>
        /\ spc' = [spc EXCEPT ![s] = "shutdown"]
        /\ \/ UNCHANGED out
           \/ out' = Append(out, [nonce |-> nonce[s], whole |-> FALSE, by |-> s])
    BY <1>4 DEF SendFails
  <2> QED
    BY <2>1, WriteStep, NoWriteStep
<1>5. CASE SendShutsDown(s)
  BY <1>5, ShutdownStep
<1> QED
  BY <1>1, <1>2, <1>3, <1>4, <1>5 DEF Send

-------------------------------------------------------------------------------
(* The two loops *)

LEMMA LoopStep ==
  ASSUME TypeOK, LoopInv, [Next]_vars
  PROVE  LoopInv'
<1> USE DEF PeerUnchanged, ClientUnchanged, AppUnchanged, EnvUnchanged, SendUnchanged
<1>1. ASSUME UNCHANGED <<ppc, pheld, cpc, cheld, recvClosed, framesClosed>> PROVE LoopInv'
  BY <1>1 DEF LoopInv
<1>2. CASE PeerReads
  <2>1. wire \in Seq(Msgs) /\ wire # <<>>
    BY <1>2 DEF TypeOK, PeerReads
  <2>2. Head(wire) # 0
    BY <2>1, HeadTail, CountAssumption DEF Msgs
  <2> QED
    BY <1>2, <2>2 DEF LoopInv, PeerReads
<1>3. CASE PeerReadFails \/ PeerShutsDown
  BY <1>3 DEF LoopInv, PeerReadFails, PeerShutsDown
<1>4. CASE PeerPuts \/ PeerQuits
  BY <1>4 DEF LoopInv, PeerPuts, PeerQuits
<1>5. CASE ClientTakes
  <2>1. recv \in Seq(Msgs) /\ recv # <<>>
    BY <1>5 DEF TypeOK, ClientTakes
  <2>2. Head(recv) # 0
    BY <2>1, HeadTail, CountAssumption DEF Msgs
  <2> QED
    BY <1>5, <2>2 DEF LoopInv, ClientTakes
<1>6. CASE ClientEnds
  BY <1>6 DEF LoopInv, ClientEnds
<1>7. CASE ClientPuts \/ ClientQuits
  BY <1>7 DEF LoopInv, ClientPuts, ClientQuits
<1>8. ASSUME NEW s \in Senders, SendStarts(s) \/ Send(s) PROVE LoopInv'
  BY <1>1, <1>8 DEF SendStarts, Send, SendLocks, SendWrites, SendFails, SendShutsDown
<1>9. CASE CloseSocket \/ App \/ StartClose
  BY <1>1, <1>9 DEF CloseSocket, App, Await, StartClose, FinishClose
<1>10. CASE FrameSends \/ FrameReads \/ LinkDrops
  BY <1>1, <1>10 DEF FrameSends, FrameReads, LinkDrops
<1>11. CASE UNCHANGED vars
  BY <1>1, <1>11
<1> QED
  BY <1>2, <1>3, <1>4, <1>5, <1>6, <1>7, <1>8, <1>9, <1>10, <1>11
     DEF Next, PeerLoop, ClientLoop

-------------------------------------------------------------------------------
(* The order of the messages *)

\* A loop that ends, and whatever else moves no message.
LEMMA OrderQuiet ==
  ASSUME OrderInv,
         UNCHANGED <<delivered, frames, cheld, recv, pheld, wire, frameSent, linkUp, dropped>>,
         ppc' # "end" => ppc # "end", cpc' # "end" => cpc # "end"
  PROVE  OrderInv'
<1>1. PICK n \in 0..frameSent: AheadInv(n) /\ (cpc # "end" \/ dropped = {} => BehindInv(n))
  BY DEF OrderInv
<1>2. AheadInv(n)'
  BY <1>1 DEF AheadInv
<1>3. BehindInv(n) => BehindInv(n)'
  BY DEF BehindInv, Room
<1> QED
  BY <1>1, <1>2, <1>3 DEF OrderInv

LEMMA NetStep ==
  ASSUME TypeOK, LoopInv, OrderInv, FrameSends \/ LinkDrops
  PROVE  OrderInv'
<1> USE DEF EnvUnchanged
<1>1. PICK n \in 0..frameSent: AheadInv(n) /\ (cpc # "end" \/ dropped = {} => BehindInv(n))
  BY DEF OrderInv
<1>2. UNCHANGED <<delivered, frames, cheld, cpc, recv, pheld, ppc, dropped>> /\ frameSent \in Nat
  BY CountAssumption DEF FrameSends, LinkDrops, TypeOK
<1>3. AheadInv(n)'
  BY <1>1, <1>2 DEF AheadInv
<1>4. Len(recv) \in Nat /\ Room \in 0..1 /\ Len(wire) \in Nat
  BY DEF TypeOK, Room
<1>5. ASSUME FrameSends, BehindInv(n)
      PROVE  BehindInv(n)'
  <2>1. /\ linkUp /\ UNCHANGED linkUp /\ frameSent' = frameSent + 1
        /\ wire' = Append(wire, frameSent + 1) /\ frameSent + 1 \in Msgs /\ wire \in Seq(Msgs)
    BY <1>5, CountAssumption DEF FrameSends, TypeOK, Msgs
  <2>2. /\ Len(wire') = Len(wire) + 1 /\ wire'[Len(wire) + 1] = frameSent + 1
        /\ \A i \in 1..Len(wire): wire'[i] = wire[i]
        /\ DOMAIN wire = 1..Len(wire) /\ DOMAIN wire' = 1..(Len(wire) + 1)
    BY <2>1, OneMore
  <2>3. ASSUME ppc # "end" \/ dropped = {}
        PROVE  /\ \A i \in DOMAIN wire': wire'[i] = n + Len(recv) + Room + i
               /\ n + Len(recv) + Room + Len(wire') = frameSent + 1
    <3>1. /\ \A i \in DOMAIN wire: wire[i] = n + Len(recv) + Room + i
          /\ n + Len(recv) + Room + Len(wire) = frameSent
      BY <1>5, <2>1, <2>3 DEF BehindInv
    <3>2. ASSUME NEW i \in DOMAIN wire'
          PROVE  wire'[i] = n + Len(recv) + Room + i
      <4>1. i \in 1..Len(wire) \/ i = Len(wire) + 1
        BY <1>4, <2>2
      <4> QED
        BY <1>2, <1>4, <2>2, <3>1, <4>1
    <3> QED
      BY <1>2, <1>4, <2>2, <3>1, <3>2
  <2> QED
    BY <1>2, <1>4, <1>5, <2>1, <2>3 DEF BehindInv, Room
<1>6. ASSUME LinkDrops, BehindInv(n)
      PROVE  BehindInv(n)'
  <2>1. ~linkUp' /\ UNCHANGED frameSent /\ (UNCHANGED wire \/ wire' = <<>>)
    BY <1>6 DEF LinkDrops
  <2>2. Room' = Room
    BY <1>2 DEF Room
  <2>3. CASE UNCHANGED wire
    BY <1>2, <1>4, <1>6, <2>1, <2>2, <2>3 DEF BehindInv
  <2>4. CASE wire' = <<>>
    <3>1. Len(wire') = 0 /\ DOMAIN wire' = {}
      BY <2>4
    <3> QED
      BY <1>2, <1>4, <1>6, <2>1, <2>2, <3>1 DEF BehindInv
  <2> QED
    BY <2>1, <2>3, <2>4
<1>7. n \in 0..frameSent'
  BY <1>2 DEF FrameSends, LinkDrops
<1> QED
  BY <1>1, <1>2, <1>3, <1>5, <1>6, <1>7 DEF OrderInv

LEMMA PeerStep ==
  ASSUME TypeOK, LoopInv, OrderInv, PeerReads \/ PeerPuts \/ PeerQuits
  PROVE  OrderInv'
<1> USE DEF PeerUnchanged
<1>1. PICK n \in 0..frameSent: AheadInv(n) /\ (cpc # "end" \/ dropped = {} => BehindInv(n))
  BY DEF OrderInv
<1>2. UNCHANGED <<delivered, frames, cheld, cpc, frameSent, linkUp>>
  BY DEF PeerReads, PeerPuts, PeerQuits
<1>3. frameSent \in Nat /\ n \in Nat
  BY CountAssumption DEF TypeOK
<1>4. AheadInv(n)'
  BY <1>1, <1>2 DEF AheadInv
<1>5. Len(recv) \in Nat /\ Len(wire) \in Nat
  BY DEF TypeOK
<1>6. ASSUME PeerReads, BehindInv(n)
      PROVE  BehindInv(n)'
  <2>1. /\ ppc = "read" /\ ppc' = "put" /\ wire \in Seq(Msgs) /\ wire # <<>>
        /\ pheld' = Head(wire) /\ wire' = Tail(wire) /\ UNCHANGED <<recv, dropped>>
    BY <1>6 DEF PeerReads, TypeOK
  <2>2. /\ Head(wire) \in Msgs /\ Head(wire) = wire[1]
        /\ Len(wire) \in Nat \ {0} /\ Len(wire') = Len(wire) - 1
        /\ DOMAIN wire = 1..Len(wire) /\ DOMAIN wire' = 1..(Len(wire) - 1)
        /\ \A i \in 1..(Len(wire) - 1): wire'[i] = wire[i + 1]
    BY <2>1, HeadTail
  <2>3. Room = 0 /\ Room' = 1
    BY <2>1, <2>2 DEF LoopInv, Room, Msgs
  <2>4. \A i \in 1..Len(wire): wire[i] = n + Len(recv) + i
    <3>1. \A i \in DOMAIN wire: wire[i] = n + Len(recv) + Room + i
      BY <1>6, <2>1 DEF BehindInv
    <3> QED
      BY <1>3, <1>5, <2>2, <2>3, <3>1
  <2>5. /\ n + Len(recv) + Len(wire) <= frameSent
        /\ linkUp => n + Len(recv) + Len(wire) = frameSent
    BY <1>3, <1>5, <1>6, <2>1, <2>3 DEF BehindInv
  <2>6. pheld' = n + Len(recv) + 1
    BY <2>1, <2>2, <2>4
  <2>7. \A i \in DOMAIN wire': wire'[i] = n + Len(recv) + 1 + i
    <3> SUFFICES ASSUME NEW i \in DOMAIN wire' PROVE wire'[i] = n + Len(recv) + 1 + i
      OBVIOUS
    <3>1. i \in 1..(Len(wire) - 1) /\ i + 1 \in 1..Len(wire)
      BY <2>2
    <3>2. wire'[i] = wire[i + 1] /\ wire[i + 1] = n + Len(recv) + (i + 1)
      BY <2>2, <2>4, <3>1
    <3> QED
      BY <1>3, <1>5, <3>1, <3>2
  <2>8. \A i \in DOMAIN recv: recv[i] = n + i
    BY <1>6 DEF BehindInv
  <2> QED
    BY <1>2, <1>3, <1>5, <2>1, <2>2, <2>3, <2>5, <2>6, <2>7, <2>8 DEF BehindInv
<1>7. ASSUME PeerPuts, BehindInv(n)
      PROVE  BehindInv(n)'
  <2>1. /\ ppc = "put" /\ ppc' = "read" /\ recv \in Seq(Msgs) /\ pheld # 0 /\ pheld \in Msgs
        /\ recv' = Append(recv, pheld) /\ pheld' = 0 /\ UNCHANGED <<wire, dropped>>
    BY <1>7 DEF PeerPuts, TypeOK, LoopInv
  <2>2. /\ Len(recv') = Len(recv) + 1 /\ recv'[Len(recv) + 1] = pheld
        /\ \A i \in 1..Len(recv): recv'[i] = recv[i]
        /\ DOMAIN recv = 1..Len(recv) /\ DOMAIN recv' = 1..(Len(recv) + 1)
    BY <2>1, OneMore
  <2>3. Room = 1 /\ Room' = 0
    BY <2>1 DEF Room
  <2>4. n + Len(recv') + Room' = n + Len(recv) + Room
    BY <1>3, <1>5, <2>2, <2>3
  <2>5. \A i \in DOMAIN recv': recv'[i] = n + i
    BY <1>3, <1>5, <1>7, <2>1, <2>2 DEF BehindInv
  <2> QED
    BY <1>2, <1>7, <2>1, <2>4, <2>5 DEF BehindInv
<1>8. ASSUME PeerQuits, BehindInv(n)
      PROVE  BehindInv(n)'
  <2>1. ppc' = "end" /\ dropped' # {} /\ pheld' = 0 /\ UNCHANGED recv
    BY <1>8 DEF PeerQuits
  <2>2. Room \in 0..1 /\ Room' = 0
    BY <2>1 DEF Room
  <2> QED
    BY <1>2, <1>3, <1>5, <1>8, <2>1, <2>2 DEF BehindInv
<1>9. cpc' # "end" \/ dropped' = {} => cpc # "end" \/ dropped = {}
  BY <1>2 DEF PeerReads, PeerPuts, PeerQuits
<1> QED
  BY <1>1, <1>2, <1>4, <1>6, <1>7, <1>8, <1>9 DEF OrderInv

LEMMA TakeStep ==
  ASSUME TypeOK, LoopInv, OrderInv, ClientTakes
  PROVE  OrderInv'
<1> USE DEF ClientUnchanged
<1>1. PICK n \in 0..frameSent: AheadInv(n) /\ (cpc # "end" \/ dropped = {} => BehindInv(n))
  BY DEF OrderInv
<1>2. /\ cpc = "recv" /\ cheld = 0 /\ BehindInv(n)
      /\ UNCHANGED <<delivered, frames, ppc, pheld, wire, frameSent, linkUp, dropped>>
  BY <1>1 DEF ClientTakes, LoopInv
<1>3. /\ frameSent \in Nat /\ n \in Nat /\ Room \in 0..1 /\ Room' = Room
      /\ Len(wire) \in Nat /\ recv \in Seq(Msgs) /\ recv # <<>> /\ recv' = Tail(recv)
  BY <1>2, CountAssumption DEF TypeOK, ClientTakes, Room
<1>4. /\ Head(recv) = recv[1] /\ Len(recv) \in Nat \ {0} /\ Len(recv') = Len(recv) - 1
      /\ DOMAIN recv = 1..Len(recv) /\ DOMAIN recv' = 1..(Len(recv) - 1)
      /\ \A i \in 1..(Len(recv) - 1): recv'[i] = recv[i + 1]
  BY <1>3, HeadTail
<1>5. Head(recv) = n + 1 /\ n + 1 \in 0..frameSent
  BY <1>2, <1>3, <1>4 DEF BehindInv
<1>6. BehindInv(n + 1)'
  <2>1. (n + 1) + Len(recv') + Room' = n + Len(recv) + Room
    BY <1>3, <1>4
  <2>2. (n + 1) + Len(recv') + 1 = n + Len(recv) + 1
    BY <1>3, <1>4
  <2>3. \A i \in DOMAIN recv': recv'[i] = (n + 1) + i
    <3> SUFFICES ASSUME NEW i \in 1..(Len(recv) - 1) PROVE recv'[i] = (n + 1) + i
      BY <1>4
    <3>1. i + 1 \in 1..Len(recv) /\ recv'[i] = recv[i + 1]
      BY <1>4
    <3>2. recv[i + 1] = n + (i + 1)
      BY <3>1, <1>2, <1>4 DEF BehindInv
    <3> QED
      BY <3>1, <3>2, <1>3
  <2> QED
    BY <1>2, <2>1, <2>2, <2>3 DEF BehindInv
<1>7. AheadInv(n + 1)'
  <2>1. \A m: m \in (1..n) \ Absorbed => m \in (1..(n + 1)) \ Absorbed /\ m < n + 1
    BY <1>3
  <2>2. /\ \A i \in DOMAIN delivered: delivered[i] \in (1..n) \ Absorbed
        /\ \A i \in DOMAIN frames: frames[i] \in (1..n) \ Absorbed
    BY <1>1 DEF AheadInv
  <2>3. CASE n + 1 \in Absorbed
    <3>1. UNCHANGED cheld
      BY <2>3, <1>5 DEF ClientTakes
    <3>2. (1..(n + 1)) \ Absorbed = (1..n) \ Absorbed
      BY <2>3, <1>3
    <3> QED
      BY <1>1, <1>2, <3>1, <3>2 DEF AheadInv
  <2>4. CASE n + 1 \notin Absorbed
    <3>1. cheld' = n + 1
      BY <2>4, <1>5 DEF ClientTakes
    <3>2. cheld' \in (1..(n + 1)) \ Absorbed
      BY <2>4, <3>1, <1>3
    <3>3. \A m \in (1..(n + 1)) \ Absorbed: m \in (1..n) \ Absorbed \/ cheld' = m
      BY <3>1, <1>3
    <3>4. /\ \A i \in DOMAIN delivered: delivered[i] < cheld'
          /\ \A i \in DOMAIN frames: frames[i] < cheld'
      BY <2>1, <2>2, <3>1
    <3>5. \A m \in (1..n) \ Absorbed: \/ \E i \in DOMAIN delivered: delivered[i] = m
                                      \/ \E i \in DOMAIN frames: frames[i] = m
      BY <1>1, <1>2, <1>3 DEF AheadInv
    <3> QED
      BY <1>1, <1>2, <2>1, <2>2, <3>2, <3>3, <3>4, <3>5 DEF AheadInv
  <2> QED
    BY <2>3, <2>4
<1> QED
  BY <1>2, <1>5, <1>6, <1>7 DEF OrderInv

LEMMA PutStep ==
  ASSUME TypeOK, LoopInv, OrderInv, ClientPuts
  PROVE  OrderInv'
<1> USE DEF ClientUnchanged
<1>1. PICK n \in 0..frameSent: AheadInv(n) /\ (cpc # "end" \/ dropped = {} => BehindInv(n))
  BY DEF OrderInv
<1>2. /\ cpc = "put" /\ cheld # 0 /\ cheld \in Msgs /\ cheld' = 0
      /\ frames \in Seq(Msgs) /\ frames' = Append(frames, cheld)
      /\ UNCHANGED <<delivered, recv, ppc, pheld, wire, frameSent, linkUp, dropped>>
  BY DEF ClientPuts, LoopInv, TypeOK
<1>3. BehindInv(n)'
  BY <1>1, <1>2 DEF BehindInv, Room
<1>4. /\ Len(frames) \in Nat /\ frames'[Len(frames) + 1] = cheld
      /\ \A i \in 1..Len(frames): frames'[i] = frames[i]
      /\ DOMAIN frames = 1..Len(frames) /\ DOMAIN frames' = 1..(Len(frames) + 1)
  BY <1>2, OneMore
<1>5. \A i \in DOMAIN frames': \/ i \in DOMAIN frames /\ frames'[i] = frames[i]
                               \/ i = Len(frames) + 1 /\ frames'[i] = cheld
  <2> SUFFICES ASSUME NEW i \in 1..(Len(frames) + 1)
               PROVE  i \in 1..Len(frames) \/ i = Len(frames) + 1
    BY <1>4
  <2> QED
    BY <1>4
<1>6. /\ Rises(delivered) /\ cheld \in (1..n) \ Absorbed
      /\ \A i \in DOMAIN delivered: /\ delivered[i] \in (1..n) \ Absorbed
                                    /\ \A j \in DOMAIN frames: delivered[i] < frames[j]
                                    /\ delivered[i] < cheld
      /\ \A i \in DOMAIN frames: frames[i] \in (1..n) \ Absorbed /\ frames[i] < cheld
      /\ \A m \in (1..n) \ Absorbed: \/ \E i \in DOMAIN delivered: delivered[i] = m
                                     \/ \E i \in DOMAIN frames: frames[i] = m
                                     \/ cheld = m
  BY <1>1, <1>2 DEF AheadInv
<1>7. Rises(frames')
  <2> SUFFICES ASSUME NEW i \in DOMAIN frames', NEW j \in DOMAIN frames', i < j
               PROVE  frames'[i] < frames'[j]
    BY DEF Rises
  <2>1. i \in DOMAIN frames
    BY <1>4
  <2>2. CASE j \in DOMAIN frames
    BY <2>1, <2>2, <1>1, <1>4 DEF AheadInv, Rises
  <2>3. CASE j = Len(frames) + 1
    BY <2>1, <2>3, <1>4, <1>6
  <2> QED
    BY <2>2, <2>3, <1>5
<1>8. \A m \in (1..n) \ Absorbed: \/ \E i \in DOMAIN delivered: delivered[i] = m
                                  \/ \E i \in DOMAIN frames': frames'[i] = m
  <2>1. Len(frames) + 1 \in DOMAIN frames' /\ \A i \in DOMAIN frames: i \in DOMAIN frames'
    BY <1>4
  <2> QED
    BY <1>4, <1>6, <2>1
<1>9. AheadInv(n)'
  BY <1>2, <1>5, <1>6, <1>7, <1>8 DEF AheadInv, Rises
<1> QED
  BY <1>1, <1>2, <1>3, <1>9 DEF OrderInv

\* What the loop threw away is the first that is missing.
LEMMA QuitStep ==
  ASSUME TypeOK, LoopInv, OrderInv, ClientQuits
  PROVE  OrderInv'
<1> USE DEF ClientUnchanged
<1>1. PICK n \in 0..frameSent: AheadInv(n)
  BY DEF OrderInv
<1>2. /\ cheld # 0 /\ cheld' = 0 /\ cpc' = "end" /\ dropped' # {}
      /\ UNCHANGED <<delivered, frames, frameSent>>
  BY DEF ClientQuits, LoopInv
<1>3. frameSent \in Nat /\ n \in Nat /\ cheld \in 1..n
  BY <1>1, <1>2, CountAssumption DEF TypeOK, AheadInv
<1>4. PICK k \in 0..frameSent: k = cheld - 1
  BY <1>3
<1>5. /\ \A m: m \in (1..n) \ Absorbed /\ m < cheld => m \in (1..k) \ Absorbed
      /\ \A m: m \in (1..k) \ Absorbed => m \in (1..n) \ Absorbed /\ m # cheld
  BY <1>3, <1>4
<1>6. /\ \A i \in DOMAIN delivered: delivered[i] \in (1..k) \ Absorbed
      /\ \A i \in DOMAIN frames: frames[i] \in (1..k) \ Absorbed
  BY <1>1, <1>2, <1>5 DEF AheadInv
<1>7. \A m \in (1..k) \ Absorbed: \/ \E i \in DOMAIN delivered: delivered[i] = m
                                  \/ \E i \in DOMAIN frames: frames[i] = m
  BY <1>1, <1>5 DEF AheadInv
<1>8. AheadInv(k)'
  BY <1>1, <1>2, <1>6, <1>7 DEF AheadInv, Rises
<1> QED
  BY <1>2, <1>8 DEF OrderInv

LEMMA AwaitStep ==
  ASSUME TypeOK, OrderInv, Await
  PROVE  OrderInv'
<1> USE DEF AppUnchanged
<1>1. PICK n \in 0..frameSent: AheadInv(n) /\ (cpc # "end" \/ dropped = {} => BehindInv(n))
  BY DEF OrderInv
<1>2. /\ frames \in Seq(Msgs) /\ frames # <<>> /\ frames' = Tail(frames)
      /\ delivered \in Seq(Msgs) /\ delivered' = Append(delivered, Head(frames))
      /\ UNCHANGED <<cpc, cheld, recv, ppc, pheld, wire, frameSent, linkUp, dropped>>
  BY DEF Await, TypeOK
<1>3. BehindInv(n) => BehindInv(n)'
  BY <1>2 DEF BehindInv, Room
<1>4. /\ Head(frames) \in Msgs /\ Head(frames) = frames[1] /\ Len(frames) \in Nat \ {0}
      /\ DOMAIN frames = 1..Len(frames) /\ DOMAIN frames' = 1..(Len(frames) - 1)
      /\ \A i \in 1..(Len(frames) - 1): frames'[i] = frames[i + 1]
  BY <1>2, HeadTail
<1>5. /\ Len(delivered) \in Nat /\ delivered'[Len(delivered) + 1] = frames[1]
      /\ \A i \in 1..Len(delivered): delivered'[i] = delivered[i]
      /\ DOMAIN delivered = 1..Len(delivered) /\ DOMAIN delivered' = 1..(Len(delivered) + 1)
  BY <1>2, <1>4, OneMore
<1>6. /\ 1 \in DOMAIN frames
      /\ \A i \in DOMAIN frames': i + 1 \in DOMAIN frames /\ frames'[i] = frames[i + 1] /\ 1 < i + 1
      /\ \A i \in DOMAIN frames: i = 1 \/ (i - 1 \in DOMAIN frames' /\ frames'[i - 1] = frames[i])
  <2>1. \A i \in 1..(Len(frames) - 1): i + 1 \in 1..Len(frames) /\ 1 < i + 1
    BY <1>4
  <2>2. \A i \in 1..Len(frames): i = 1 \/ (i - 1 \in 1..(Len(frames) - 1) /\ (i - 1) + 1 = i)
    BY <1>4
  <2>3. \A i \in DOMAIN frames': frames'[i] = frames[i + 1]
    BY <1>4
  <2>4. ASSUME NEW i \in DOMAIN frames, i # 1
        PROVE  i - 1 \in DOMAIN frames' /\ frames'[i - 1] = frames[i]
    <3>1. i - 1 \in 1..(Len(frames) - 1) /\ (i - 1) + 1 = i
      BY <2>2, <2>4, <1>4
    <3>2. frames'[i - 1] = frames[(i - 1) + 1]
      BY <3>1, <1>4
    <3> QED
      BY <3>1, <3>2, <1>4
  <2>5. 1 \in DOMAIN frames
    BY <1>4
  <2> QED
    BY <1>4, <2>1, <2>3, <2>4, <2>5
<1>7. /\ \A i \in DOMAIN delivered: i \in DOMAIN delivered' /\ delivered'[i] = delivered[i]
      /\ Len(delivered) + 1 \in DOMAIN delivered'
  BY <1>5
<1>8. \A i \in DOMAIN delivered': \/ i \in DOMAIN delivered /\ delivered'[i] = delivered[i]
                                  \/ i = Len(delivered) + 1 /\ delivered'[i] = frames[1]
  <2> SUFFICES ASSUME NEW i \in 1..(Len(delivered) + 1)
               PROVE  i \in 1..Len(delivered) \/ i = Len(delivered) + 1
    BY <1>5
  <2> QED
    BY <1>5
<1>9. Rises(delivered')
  <2> SUFFICES ASSUME NEW i \in DOMAIN delivered', NEW j \in DOMAIN delivered', i < j
               PROVE  delivered'[i] < delivered'[j]
    BY DEF Rises
  <2>1. i \in DOMAIN delivered
    BY <1>5
  <2>2. CASE j \in DOMAIN delivered
    BY <2>1, <2>2, <1>1, <1>7 DEF AheadInv, Rises
  <2>3. CASE j = Len(delivered) + 1
    BY <2>1, <2>3, <1>1, <1>5, <1>6, <1>7 DEF AheadInv
  <2> QED
    BY <2>2, <2>3, <1>8
<1>10. Rises(frames')
  <2> SUFFICES ASSUME NEW i \in DOMAIN frames', NEW j \in DOMAIN frames', i < j
               PROVE  frames'[i] < frames'[j]
    BY DEF Rises
  <2>1. i + 1 < j + 1
    BY <1>4
  <2> QED
    BY <2>1, <1>1, <1>6 DEF AheadInv, Rises
<1>11. \A i \in DOMAIN frames': frames[1] < frames'[i]
  BY <1>1, <1>6 DEF AheadInv, Rises
<1>12. \A i \in DOMAIN delivered': /\ delivered'[i] \in (1..n) \ Absorbed
                                   /\ \A j \in DOMAIN frames': delivered'[i] < frames'[j]
                                   /\ cheld # 0 => delivered'[i] < cheld
  BY <1>1, <1>6, <1>11, <1>8 DEF AheadInv
<1>13. \A m \in (1..n) \ Absorbed: \/ \E i \in DOMAIN delivered': delivered'[i] = m
                                   \/ \E i \in DOMAIN frames': frames'[i] = m
                                   \/ cheld = m
  <2>1. ASSUME NEW m, NEW i \in DOMAIN frames, frames[i] = m
        PROVE  \/ \E j \in DOMAIN delivered': delivered'[j] = m
               \/ \E j \in DOMAIN frames': frames'[j] = m
    BY <2>1, <1>5, <1>6, <1>7
  <2>2. ASSUME NEW m, NEW i \in DOMAIN delivered, delivered[i] = m
        PROVE  \E j \in DOMAIN delivered': delivered'[j] = m
    BY <2>2, <1>7
  <2>3. \A m \in (1..n) \ Absorbed: \/ \E i \in DOMAIN delivered: delivered[i] = m
                                    \/ \E i \in DOMAIN frames: frames[i] = m
                                    \/ cheld = m
    BY <1>1 DEF AheadInv
  <2> QED
    BY <2>1, <2>2, <2>3
<1>14. AheadInv(n)'
  <2>1. \A i \in DOMAIN frames': frames'[i] \in (1..n) \ Absorbed /\ (cheld # 0 => frames'[i] < cheld)
    BY <1>1, <1>6 DEF AheadInv
  <2>2. cheld # 0 => cheld \in (1..n) \ Absorbed
    BY <1>1 DEF AheadInv
  <2> QED
    <3>1. UNCHANGED cheld
      BY <1>2
    <3> QED
      BY <3>1, <1>9, <1>10, <1>12, <1>13, <2>1, <2>2 DEF AheadInv, Rises
<1> QED
  BY <1>1, <1>2, <1>3, <1>14 DEF OrderInv

LEMMA OrderStep ==
  ASSUME TypeOK, LoopInv, OrderInv, [Next]_vars
  PROVE  OrderInv'
<1> USE DEF PeerUnchanged, ClientUnchanged, AppUnchanged, EnvUnchanged, SendUnchanged
<1>1. CASE PeerReadFails \/ PeerShutsDown
  BY <1>1, OrderQuiet DEF PeerReadFails, PeerShutsDown
<1>2. CASE ClientEnds
  BY <1>2, OrderQuiet DEF ClientEnds
<1>3. CASE PeerReads \/ PeerPuts \/ PeerQuits
  BY <1>3, PeerStep
<1>4. ASSUME NEW s \in Senders, SendStarts(s) \/ Send(s) PROVE OrderInv'
  BY <1>4, OrderQuiet DEF SendStarts, Send, SendLocks, SendWrites, SendFails, SendShutsDown
<1>5. CASE CloseSocket \/ StartClose \/ FinishClose \/ FrameReads
  BY <1>5, OrderQuiet DEF CloseSocket, StartClose, FinishClose, FrameReads
<1>6. CASE FrameSends \/ LinkDrops
  BY <1>6, NetStep
<1>7. CASE UNCHANGED vars
  BY <1>7, OrderQuiet
<1> QED
  BY <1>1, <1>2, <1>3, <1>4, <1>5, <1>6, <1>7, TakeStep, PutStep, QuitStep, AwaitStep
     DEF Next, PeerLoop, ClientLoop, App

-------------------------------------------------------------------------------
(* The theorems *)

\* Every step keeps the invariant.
LEMMA InductionStep == IInv /\ [Next]_vars => IInv'
<1> SUFFICES ASSUME IInv, [Next]_vars PROVE IInv'
  OBVIOUS
<1> USE DEF IInv
<1>1. TypeOK'
  <2>1. CASE UNCHANGED vars
    BY <2>1 DEF TypeOK
  <2> QED
    BY <2>1, SendTypes, PeerTypes, ClientTypes, OtherTypes DEF Next, SendInv
<1>2. SendInv'
  <2>1. ASSUME UNCHANGED sendVars, UNCHANGED stage \/ BeginShutdown \/ stage' = "closed"
        PROVE  SendInv'
    BY <2>1, SendQuiet DEF BeginShutdown
  <2>2. CASE PeerLoop
    BY <2>1, <2>2 DEF PeerLoop, PeerReads, PeerReadFails, PeerShutsDown, PeerPuts, PeerQuits,
                      PeerUnchanged
  <2>3. CASE ClientLoop
    BY <2>1, <2>3 DEF ClientLoop, ClientTakes, ClientEnds, ClientPuts, ClientQuits,
                      ClientUnchanged
  <2>4. CASE CloseSocket \/ App \/ StartClose
    BY <2>1, <2>4 DEF CloseSocket, App, Await, StartClose, FinishClose, AppUnchanged
  <2>5. CASE FrameSends \/ FrameReads \/ LinkDrops
    BY <2>1, <2>5 DEF FrameSends, FrameReads, LinkDrops, EnvUnchanged
  <2>6. CASE UNCHANGED vars
    BY <2>1, <2>6
  <2> QED
    BY <2>2, <2>3, <2>4, <2>5, <2>6, SendStep DEF Next
<1>3. LoopInv' /\ OrderInv'
  BY LoopStep, OrderStep
<1> QED
  BY <1>1, <1>2, <1>3

\* The strengthening holds of every connection.
THEOREM Invariant == Spec => []IInv
<1>1. IInv /\ [Next]_vars => IInv'
  BY InductionStep
<1> QED
  BY <1>1, InitIInv, PTL DEF Spec

\* The types: the queues keep to their capacities, and no nonce beyond the bound.
THEOREM TypeCorrect == Spec => []TypeOK
<1>1. IInv => TypeOK
  BY DEF IInv
<1> QED
  BY <1>1, Invariant, PTL

\* The nonces on the wire rise, whichever goroutines send, and nothing of a
\* sender follows a message it left unfinished.
THEOREM WireReadableHolds == Spec => []WireReadable
<1>1. IInv => WireReadable
  BY DEF IInv, SendInv, NonceInv, CutInv, WireReadable
<1> QED
  BY <1>1, Invariant, PTL

-------------------------------------------------------------------------------
(* What the invariant says of the pipe as a whole *)

\* One sequence behind another.
LEMMA JoinIs ==
  ASSUME NEW S, NEW a \in Seq(S), NEW b \in Seq(S)
  PROVE  /\ a \o b \in Seq(S)
         /\ Len(a) \in Nat /\ Len(b) \in Nat /\ Len(a \o b) = Len(a) + Len(b)
         /\ DOMAIN a = 1..Len(a) /\ DOMAIN b = 1..Len(b) /\ DOMAIN (a \o b) = 1..(Len(a) + Len(b))
         /\ \A i \in DOMAIN a: i \in DOMAIN (a \o b) /\ (a \o b)[i] = a[i]
         /\ \A i \in DOMAIN b: Len(a) + i \in DOMAIN (a \o b) /\ (a \o b)[Len(a) + i] = b[i]
         /\ \A i \in DOMAIN (a \o b): i \in DOMAIN a \/ (i > Len(a) /\ i - Len(a) \in DOMAIN b)
<1>1. /\ a \o b \in Seq(S) /\ Len(a) \in Nat /\ Len(b) \in Nat /\ Len(a \o b) = Len(a) + Len(b)
      /\ DOMAIN a = 1..Len(a) /\ DOMAIN b = 1..Len(b) /\ DOMAIN (a \o b) = 1..(Len(a) + Len(b))
      /\ \A i \in 1..Len(a): (a \o b)[i] = a[i]
  OBVIOUS
<1>2. ASSUME NEW i \in 1..Len(b)
      PROVE  Len(a) + i \in 1..(Len(a) + Len(b)) /\ (a \o b)[Len(a) + i] = b[i]
  BY <1>1
<1>3. ASSUME NEW i \in 1..(Len(a) + Len(b)), i \notin 1..Len(a)
      PROVE  i > Len(a) /\ i - Len(a) \in 1..Len(b)
  BY <1>1, <1>3
<1>4. \A i \in 1..Len(a): i \in 1..(Len(a) + Len(b))
  BY <1>1
<1> QED
  BY <1>1, <1>2, <1>3, <1>4

\* A rise goes on over a join if the second part starts higher.
LEMMA JoinedRises ==
  ASSUME NEW a \in Seq(Msgs), NEW b \in Seq(Msgs), Rises(a), Rises(b),
         \A i \in DOMAIN a, j \in DOMAIN b: a[i] < b[j]
  PROVE  Rises(a \o b)
<1> SUFFICES ASSUME NEW i \in DOMAIN (a \o b), NEW j \in DOMAIN (a \o b), i < j
             PROVE  (a \o b)[i] < (a \o b)[j]
  BY DEF Rises
<1>1. i \in Nat /\ j \in Nat /\ Len(a) \in Nat
  BY JoinIs
<1>2. CASE j \in DOMAIN a
  <2>1. i \in DOMAIN a
    BY <1>1, <1>2, JoinIs
  <2> QED
    BY <1>2, <2>1, JoinIs DEF Rises
<1>3. CASE j \notin DOMAIN a
  <2>1. j - Len(a) \in DOMAIN b /\ Len(a) + (j - Len(a)) = j
    BY <1>1, <1>3, JoinIs
  <2>2. (a \o b)[j] = b[j - Len(a)]
    BY <2>1, JoinIs
  <2>3. CASE i \in DOMAIN a
    BY <2>1, <2>2, <2>3, JoinIs
  <2>4. CASE i \notin DOMAIN a
    <3>1. i - Len(a) \in DOMAIN b /\ Len(a) + (i - Len(a)) = i
      BY <1>1, <2>4, JoinIs
    <3>2. (a \o b)[i] = b[i - Len(a)]
      BY <3>1, JoinIs
    <3>3. i - Len(a) < j - Len(a)
      BY <1>1
    <3> QED
      BY <2>1, <2>2, <3>1, <3>2, <3>3 DEF Rises
  <2> QED
    BY <2>3, <2>4
<1> QED
  BY <1>2, <1>3

LEMMA JoinedRange ==
  ASSUME NEW a \in Seq(Msgs), NEW b \in Seq(Msgs)
  PROVE  Range(a \o b) = Range(a) \cup Range(b)
<1>1. ASSUME NEW i \in DOMAIN (a \o b)
      PROVE  (a \o b)[i] \in Range(a) \cup Range(b)
  <2>1. CASE i \in DOMAIN a
    BY <2>1, JoinIs DEF Range
  <2>2. CASE i \notin DOMAIN a
    <3>1. i - Len(a) \in DOMAIN b /\ Len(a) + (i - Len(a)) = i
      BY <2>2, JoinIs
    <3>2. (a \o b)[i] = b[i - Len(a)]
      BY <3>1, JoinIs
    <3> QED
      BY <3>1, <3>2 DEF Range
  <2> QED
    BY <2>1, <2>2
<1>2. ASSUME NEW i \in DOMAIN a
      PROVE  a[i] \in Range(a \o b)
  <2>1. i \in DOMAIN (a \o b) /\ (a \o b)[i] = a[i]
    BY JoinIs
  <2> QED
    BY <2>1 DEF Range
<1>3. ASSUME NEW i \in DOMAIN b
      PROVE  b[i] \in Range(a \o b)
  <2>1. Len(a) + i \in DOMAIN (a \o b) /\ (a \o b)[Len(a) + i] = b[i]
    BY JoinIs
  <2> QED
    BY <2>1 DEF Range
<1> QED
  BY <1>1, <1>2, <1>3 DEF Range

LEMMA HoldingFacts ==
  ASSUME NEW m \in Msgs \cup {0}
  PROVE  /\ Holding(m) \in Seq(Msgs) /\ Rises(Holding(m))
         /\ \A i \in DOMAIN Holding(m): i = 1 /\ m # 0 /\ Holding(m)[i] = m
         /\ Range(Holding(m)) = IF m = 0 THEN {} ELSE {m}
         /\ Len(Holding(m)) = IF m = 0 THEN 0 ELSE 1
<1>1. CASE m = 0
  <2>1. Holding(m) = <<>> /\ DOMAIN Holding(m) = {}
    BY <1>1 DEF Holding
  <2>2. Holding(m) \in Seq(Msgs) /\ Len(Holding(m)) = 0
    BY <2>1
  <2>3. Range(Holding(m)) = {} /\ Rises(Holding(m))
    BY <2>1 DEF Rises, Range
  <2> QED
    BY <1>1, <2>1, <2>2, <2>3
<1>2. CASE m # 0
  <2>1. Holding(m) = <<m>> /\ m \in Msgs
    BY <1>2 DEF Holding
  <2>2. <<m>> \in Seq(Msgs) /\ Len(<<m>>) = 1 /\ DOMAIN <<m>> = {1} /\ <<m>>[1] = m
    BY <2>1
  <2> QED
    BY <1>2, <2>1, <2>2 DEF Rises, Range
<1> QED
  BY <1>1, <1>2

\* Everything up to n has been ahead of the client's read loop, in order.
LEMMA AheadWhole ==
  ASSUME TypeOK, NEW n \in 0..frameSent, AheadInv(n)
  PROVE  Rises(Ahead) /\ Range(Ahead) = (1..n) \ Absorbed
<1>1. /\ delivered \in Seq(Msgs) /\ frames \in Seq(Msgs) /\ cheld \in Msgs \cup {0}
      /\ n \in Nat
  BY CountAssumption DEF TypeOK
<1> DEFINE first == delivered \o frames
<1>2. Rises(first)
  BY <1>1, JoinedRises DEF AheadInv
<1>3. first \in Seq(Msgs) /\ Range(first) = Range(delivered) \cup Range(frames)
  BY <1>1, JoinIs, JoinedRange
<1>4. \A i \in DOMAIN first: cheld # 0 => first[i] < cheld
  <2>1. \A m \in Range(first): cheld # 0 => m < cheld
    BY <1>3 DEF AheadInv, Range
  <2> QED
    BY <2>1 DEF Range
<1> HIDE DEF first
<1>5. Rises(first \o Holding(cheld))
  BY <1>1, <1>2, <1>3, <1>4, HoldingFacts, JoinedRises
<1>6. Range(first \o Holding(cheld)) = Range(first) \cup Range(Holding(cheld))
  BY <1>1, <1>3, HoldingFacts, JoinedRange
<1>7. Range(delivered) \cup Range(frames) \cup Range(Holding(cheld)) = (1..n) \ Absorbed
  <2>1. \A m \in Range(delivered) \cup Range(frames): m \in (1..n) \ Absorbed
    BY DEF AheadInv, Range
  <2>2. \A m \in Range(Holding(cheld)): m \in (1..n) \ Absorbed
    BY <1>1, HoldingFacts DEF AheadInv
  <2>3. \A m \in (1..n) \ Absorbed: m # 0
    BY <1>1
  <2>4. \A m \in (1..n) \ Absorbed: m \in Range(delivered) \cup Range(frames) \/ cheld = m
    BY DEF AheadInv, Range
  <2> QED
    BY <1>1, <2>1, <2>2, <2>3, <2>4, HoldingFacts
<1> QED
  BY <1>3, <1>5, <1>6, <1>7 DEF Ahead, first

\* While nothing was lost, the rest follows without a gap.
LEMMA BehindWhole ==
  ASSUME TypeOK, NEW n \in 0..frameSent, BehindInv(n), linkUp, dropped = {}
  PROVE  Passed = n /\ \A i \in DOMAIN Behind: Behind[i] = n + i
<1>1. /\ recv \in Seq(Msgs) /\ wire \in Seq(Msgs) /\ pheld \in Msgs \cup {0}
      /\ n \in Nat /\ frameSent \in Nat
  BY CountAssumption DEF TypeOK
<1>2. Holding(pheld) \in Seq(Msgs) /\ Len(Holding(pheld)) = Room
  BY <1>1, HoldingFacts DEF Room
<1> DEFINE first == recv \o Holding(pheld)
<1>3. first \in Seq(Msgs) /\ Len(first) = Len(recv) + Room
  BY <1>1, <1>2, JoinIs
<1>4. \A i \in DOMAIN first: first[i] = n + i
  <2> SUFFICES ASSUME NEW i \in DOMAIN first PROVE first[i] = n + i
    OBVIOUS
  <2>1. CASE i \in DOMAIN recv
    BY <1>1, <1>2, <2>1, JoinIs DEF BehindInv
  <2>2. CASE i \notin DOMAIN recv
    <3>1. /\ i - Len(recv) \in DOMAIN Holding(pheld) /\ Len(recv) + (i - Len(recv)) = i
          /\ Len(recv) \in Nat
      BY <1>1, <1>2, <2>2, JoinIs
    <3>2. /\ i - Len(recv) = 1 /\ pheld # 0
          /\ Holding(pheld)[i - Len(recv)] = pheld
      BY <1>1, <3>1, HoldingFacts
    <3>3. first[Len(recv) + (i - Len(recv))] = Holding(pheld)[i - Len(recv)]
      BY <1>1, <1>2, <3>1, JoinIs
    <3>4. first[i] = pheld /\ i = Len(recv) + 1
      BY <3>1, <3>2, <3>3
    <3> QED
      BY <1>1, <3>1, <3>2, <3>4 DEF BehindInv
  <2> QED
    BY <2>1, <2>2
<1>5. Len(wire) \in Nat /\ Len(recv) \in Nat /\ Room \in Nat
  BY <1>1 DEF Room
<1> HIDE DEF first
<1>6. ASSUME NEW i \in DOMAIN (first \o wire)
      PROVE  (first \o wire)[i] = n + i
  <2>1. CASE i \in DOMAIN first
    BY <1>1, <1>3, <1>4, <2>1, JoinIs
  <2>2. CASE i \notin DOMAIN first
    <3>1. i - Len(first) \in DOMAIN wire /\ Len(first) + (i - Len(first)) = i /\ i \in Nat
      BY <1>1, <1>3, <2>2, JoinIs
    <3>2. (first \o wire)[i] = wire[i - Len(first)]
      <4>1. \A k \in DOMAIN wire: (first \o wire)[Len(first) + k] = wire[k]
        BY <1>1, <1>3, JoinIs
      <4> QED
        BY <3>1, <4>1
    <3>3. wire[i - Len(first)] = n + Len(recv) + Room + (i - Len(first))
      BY <3>1 DEF BehindInv
    <3> QED
      BY <1>1, <1>3, <1>5, <3>1, <3>2, <3>3
  <2> QED
    BY <2>1, <2>2
<1>7. Len(first \o wire) = Len(recv) + Room + Len(wire)
  BY <1>1, <1>3, JoinIs
<1>8. frameSent = n + Len(recv) + Room + Len(wire)
  BY DEF BehindInv
<1>9. frameSent - Len(first \o wire) = n
  BY <1>1, <1>5, <1>7, <1>8
<1> QED
  BY <1>6, <1>9 DEF Behind, Passed, first

\* Nothing is lost, repeated or reordered between the frame and the
\* application while the connection lasts, and what the application has seen
\* never has a hole in it, whatever the capacities of the queues.
THEOREM DeliveredInOrderHolds == Spec => []DeliveredInOrder
<1>1. IInv => DeliveredInOrder
  <2> SUFFICES ASSUME IInv PROVE DeliveredInOrder
    OBVIOUS
  <2> USE DEF IInv
  <2>1. PICK n \in 0..frameSent: AheadInv(n) /\ (cpc # "end" \/ dropped = {} => BehindInv(n))
    BY DEF OrderInv
  <2>2. linkUp /\ dropped = {} =>
          /\ Rises(Ahead) /\ Range(Ahead) = (1..Passed) \ Absorbed
          /\ \A i \in DOMAIN Behind: Behind[i] = Passed + i
    BY <2>1, AheadWhole, BehindWhole
  <2>3. frameSent \in Nat /\ n \in Nat
    BY CountAssumption DEF TypeOK
  <2>4. Rises(delivered) /\ Range(delivered) \subseteq (1..frameSent) \ Absorbed
    BY <2>1, <2>3 DEF AheadInv, Range
  <2>5. ASSUME NEW i \in DOMAIN delivered, NEW m \in (1..delivered[i]) \ Absorbed
        PROVE  m \in Range(delivered)
    <3>1. delivered[i] \in 1..n
      BY <2>1 DEF AheadInv
    <3>2. m \in (1..n) \ Absorbed /\ m <= delivered[i] /\ m # 0
      BY <2>3, <3>1
    <3>3. (\A j \in DOMAIN frames: frames[j] # m) /\ cheld # m
      <4>1. \A j \in DOMAIN frames: delivered[i] < frames[j] /\ frames[j] \in 1..n
        BY <2>1 DEF AheadInv
      <4>2. cheld # 0 => delivered[i] < cheld /\ cheld \in 1..n
        BY <2>1 DEF AheadInv
      <4> QED
        BY <2>3, <3>1, <3>2, <4>1, <4>2
    <3> QED
      BY <2>1, <3>2, <3>3 DEF AheadInv, Range
  <2> QED
    BY <2>2, <2>4, <2>5 DEF DeliveredInOrder, Range
<1> QED
  BY <1>1, Invariant, PTL
-------------------------------------------------------------------------------
(***************************************************************************)
(* The reassembler (Reassembler.tla), into which the client's read loop    *)
(* puts the parts it absorbs.  PartsInv is the inductive invariant: what   *)
(* is held of a message is parts of it, each once, and have counts the     *)
(* pieces in them; so when have reaches the size no part is missing, and   *)
(* the parts in order, joined, are the message.                            *)
(***************************************************************************)

(* The parts of a message *)

\* Where part i begins, and where it ends.
Lo(i) == i * ChunkSize
Hi(m, i) == Smaller((i + 1) * ChunkSize, Length[m])

\* What the first n pieces of a message are.
Opening(m, n) == [b \in 1..n |-> <<m, b>>]

\* A longer count of parts holds more pieces.
LEMMA Multiply ==
  ASSUME NEW i \in Nat, NEW j \in Nat, NEW c \in Nat, i <= j
  PROVE  /\ i * c \in Nat /\ j * c \in Nat /\ i * c <= j * c
         /\ (i + 1) * c = i * c + c
<1>1. PICK d \in Nat: j = i + d
  BY j - i \in Nat
<1>2. j * c = i * c + d * c
  BY <1>1
<1>3. d * c \in Nat /\ i * c \in Nat
  BY <1>1
<1> QED
  BY <1>2, <1>3

LEMMA Constants ==
  ASSUME NEW m \in Messages
  PROVE  /\ ChunkSize \in Nat \ {0} /\ ChunkSize <= IntMax /\ IntMax \in Nat \ {0}
         /\ Length[m] \in Nat \ {0} /\ Length[m] <= IntMax
         /\ MaxPartial \in Nat \ {0} /\ MaxTotal \in Nat \ {0}
BY ReassemblerAssumption

LEMMA Divide ==
  ASSUME NEW n \in Nat, NEW c \in Nat \ {0}
  PROVE  n \div c \in Nat /\ (n \div c) * c <= n /\ n < (n \div c) * c + c
<1>1. PICK q: q = n \div c
  OBVIOUS
<1>2. q \in Int /\ c * q <= n /\ n < c * q + c
  BY <1>1, Z3T(30)
<1>3. q * c <= n /\ n < q * c + c
  BY <1>2
<1>4. q >= 0
  <2> SUFFICES ASSUME q < 0 PROVE FALSE
    BY <1>2
  <2>1. q * c + c <= 0
    <3>1. q + 1 <= 0 /\ (q + 1) * c = q * c + c
      BY <1>2
    <3>2. (q + 1) * c <= 0
      BY <1>2, <3>1
    <3> QED
      BY <3>1, <3>2
  <2> QED
    BY <1>2, <1>3, <2>1
<1> QED
  BY <1>1, <1>2, <1>3, <1>4

\* The parts that begin before the end of a message are those up to the last.
LEMMA LastIs ==
  ASSUME NEW m \in Messages
  PROVE  /\ LastIndex(m) \in Nat /\ LastIndex(m) < Length[m]
         /\ \A i \in Nat: i <= LastIndex(m) <=> Lo(i) < Length[m]
<1>0. /\ ChunkSize \in Nat \ {0} /\ Length[m] \in Nat \ {0}
  BY Constants
<1>1. PICK q, n: q = LastIndex(m) /\ n = Length[m] - 1
  OBVIOUS
<1>2. n \in Nat
  BY <1>0, <1>1
<1>3. q \in Nat /\ q * ChunkSize <= n /\ n < q * ChunkSize + ChunkSize
  BY <1>0, <1>1, <1>2, Divide DEF LastIndex
<1>4. q <= q * ChunkSize
  BY <1>0, <1>3
<1>5. ASSUME NEW i \in Nat
      PROVE  i <= q <=> i * ChunkSize <= n
  <2>1. CASE i <= q
    <3>1. i * ChunkSize <= q * ChunkSize /\ i * ChunkSize \in Nat /\ q * ChunkSize \in Nat
      BY <1>0, <1>3, <2>1, Multiply
    <3> QED
      BY <1>2, <1>3, <2>1, <3>1
  <2>2. CASE q + 1 <= i
    <3>1. /\ (q + 1) * ChunkSize <= i * ChunkSize /\ i * ChunkSize \in Nat
          /\ (q + 1) * ChunkSize \in Nat
      BY <1>0, <1>3, <2>2, Multiply, q + 1 \in Nat
    <3>2. (q + 1) * ChunkSize = q * ChunkSize + ChunkSize /\ q * ChunkSize \in Nat
      BY <1>0, <1>3, Multiply, q <= q
    <3> QED
      BY <1>0, <1>2, <1>3, <2>2, <3>1, <3>2
  <2> QED
    BY <1>3, <2>1, <2>2
<1>6. \A i \in Nat: i * ChunkSize \in Nat /\ (i * ChunkSize <= n <=> i * ChunkSize < Length[m])
  BY <1>0, <1>1, <1>2
<1>7. q <= n
  BY <1>2, <1>3, <1>4, <1>0
<1> QED
  BY <1>0, <1>1, <1>2, <1>3, <1>5, <1>6, <1>7 DEF Lo

\* Every part holds something, from where it begins to where the next one does.
LEMMA Bounds ==
  ASSUME NEW m \in Messages, NEW i \in 0..LastIndex(m)
  PROVE  /\ i \in Nat /\ Lo(i) \in Nat /\ Hi(m, i) \in Nat
         /\ Lo(i) < Hi(m, i) /\ Hi(m, i) <= Length[m] /\ Length[m] \in Nat
         /\ i < LastIndex(m) => i + 1 \in 0..LastIndex(m) /\ Hi(m, i) = Lo(i + 1)
         /\ i = LastIndex(m) => Hi(m, i) = Length[m]
<1>0. /\ ChunkSize \in Nat \ {0} /\ Length[m] \in Nat \ {0}
  BY Constants
<1>1. i \in Nat /\ i <= LastIndex(m) /\ LastIndex(m) \in Nat
  BY LastIs
<1>2. Lo(i) < Length[m] /\ Lo(i) \in Nat /\ Lo(i + 1) = Lo(i) + ChunkSize
  <2>1. i * ChunkSize \in Nat /\ (i + 1) * ChunkSize = i * ChunkSize + ChunkSize
    BY <1>0, <1>1, Multiply, i <= i
  <2>2. Lo(i) < Length[m]
    BY <1>1, LastIs
  <2> QED
    BY <2>1, <2>2 DEF Lo
<1>3. Hi(m, i) = Smaller(Lo(i + 1), Length[m])
  BY DEF Hi, Lo
<1>4. i < LastIndex(m) => i + 1 \in 0..LastIndex(m) /\ Lo(i + 1) < Length[m]
  BY <1>1, LastIs, i + 1 \in Nat
<1>5. i = LastIndex(m) => ~(Lo(i + 1) < Length[m])
  BY <1>1, LastIs, i + 1 \in Nat, ~(i + 1 <= i)
<1> QED
  BY <1>0, <1>1, <1>2, <1>3, <1>4, <1>5 DEF Smaller

\* Parts do not overlap.
LEMMA Apart ==
  ASSUME NEW m \in Messages, NEW i \in 0..LastIndex(m), NEW j \in 0..LastIndex(m), i < j
  PROVE  Hi(m, i) <= Lo(j)
<1>0. ChunkSize \in Nat \ {0} /\ Length[m] \in Nat \ {0}
  BY Constants
<1>1. i \in Nat /\ j \in Nat /\ i + 1 \in Nat /\ i + 1 <= j
  BY LastIs
<1>2. (i + 1) * ChunkSize \in Nat /\ j * ChunkSize \in Nat /\ (i + 1) * ChunkSize <= j * ChunkSize
  BY <1>0, <1>1, Multiply
<1> QED
  BY <1>0, <1>2 DEF Hi, Lo, Smaller

\* What a part holds.
LEMMA PartIs ==
  ASSUME NEW m \in Messages, NEW i \in 0..LastIndex(m)
  PROVE  LET data == Part(m, i).data IN
           /\ data \in Seq(Messages \X (1..IntMax))
           /\ Len(data) = Hi(m, i) - Lo(i)
           /\ \A k \in 1..(Hi(m, i) - Lo(i)): data[k] = <<m, Lo(i) + k>>
<1> DEFINE data == Part(m, i).data
           w == Whole(m)
           lo == Lo(i) + 1
           hi == Hi(m, i)
           S == Messages \X (1..IntMax)
<1>0. /\ Lo(i) \in Nat /\ Hi(m, i) \in Nat /\ Lo(i) < Hi(m, i) /\ Hi(m, i) <= Length[m]
      /\ Length[m] \in Nat
  BY Bounds
<1>1. data = SubSeq(w, lo, hi)
  BY DEF Part, Lo, Hi
<1>2. \A k \in lo..hi: k \in 1..Length[m] /\ w[k] = <<m, k>>
  BY <1>0 DEF Whole
<1>3. \A k \in lo..hi: w[k] \in S
  <2>1. Length[m] <= IntMax /\ IntMax \in Nat
    BY Constants
  <2>2. \A k \in lo..hi: k \in 1..IntMax
    BY <1>0, <1>2, <2>1
  <2> QED
    BY <1>2, <2>2
<1>4. lo \in Int /\ hi \in Int /\ lo <= hi /\ hi - lo + 1 = hi - Lo(i)
  BY <1>0
<1> HIDE DEF data, w, lo, hi, S
<1>5. /\ SubSeq(w, lo, hi) \in Seq(S)
      /\ Len(SubSeq(w, lo, hi)) = IF lo <= hi THEN hi - lo + 1 ELSE 0
      /\ \A k \in 1 .. hi - lo + 1: SubSeq(w, lo, hi)[k] = w[lo + k - 1]
  BY <1>3, <1>4, SubSeqProperties
<1>6. ASSUME NEW k \in 1..(hi - Lo(i))
      PROVE  data[k] = <<m, Lo(i) + k>>
  <2>1. lo + k - 1 \in lo..hi /\ lo + k - 1 = Lo(i) + k
    BY <1>0, <1>4 DEF lo, hi
  <2>2. data[k] = w[lo + k - 1]
    BY <1>1, <1>4, <1>5
  <2> QED
    BY <1>2, <2>1, <2>2
<1> QED
  BY <1>1, <1>4, <1>5, <1>6 DEF data, S, hi

-------------------------------------------------------------------------------
(* All parts of a message, joined *)

LEMMA FrontIs ==
  ASSUME NEW m \in Messages, NEW n \in 0..Length[m]
  PROVE  /\ Opening(m, n) \in Seq(Messages \X (1..IntMax)) /\ Len(Opening(m, n)) = n
         /\ \A b \in 1..n: Opening(m, n)[b] = <<m, b>>
<1>1. Length[m] \in Nat /\ Length[m] <= IntMax /\ n \in Nat /\ IntMax \in Nat
  BY Constants
<1>2. \A b \in 1..n: b \in 1..IntMax
  BY <1>1
<1>3. Opening(m, n) \in [1..n -> Messages \X (1..IntMax)]
  BY <1>2 DEF Opening
<1> QED
  BY <1>1, <1>3 DEF Opening

\* The next part goes on where those before it end.
LEMMA FrontGrows ==
  ASSUME NEW m \in Messages, NEW i \in 0..LastIndex(m)
  PROVE  Opening(m, Lo(i)) \o Part(m, i).data = Opening(m, Hi(m, i))
<1> DEFINE S == Messages \X (1..IntMax)
           lo == Lo(i)
           hi == Hi(m, i)
           d == Part(m, i).data
           s == Opening(m, lo)
           t == Opening(m, hi)
<1>1. lo \in Nat /\ hi \in Nat /\ lo < hi /\ lo \in 0..Length[m] /\ hi \in 0..Length[m]
  BY Bounds
<1>2. /\ s \in Seq(S) /\ Len(s) = lo /\ \A b \in 1..lo: s[b] = <<m, b>>
      /\ t \in Seq(S) /\ Len(t) = hi /\ \A b \in 1..hi: t[b] = <<m, b>>
  BY <1>1, FrontIs
<1>3. d \in Seq(S) /\ Len(d) = hi - lo /\ \A k \in 1..(hi - lo): d[k] = <<m, lo + k>>
  BY PartIs
<1> HIDE DEF S, lo, hi, d, s, t
<1>4. /\ s \o d \in Seq(S) /\ Len(s \o d) = Len(s) + Len(d)
      /\ \A b \in 1 .. Len(s) + Len(d): (s \o d)[b] = IF b <= Len(s) THEN s[b] ELSE d[b - Len(s)]
  BY <1>2, <1>3, ConcatProperties
<1>5. ASSUME NEW b \in 1..hi
      PROVE  (s \o d)[b] = t[b]
  <2>1. b \in 1 .. Len(s) + Len(d) /\ b \in Nat
    BY <1>1, <1>2, <1>3
  <2>2. CASE b <= lo
    <3>1. b \in 1..lo
      BY <1>1, <2>1, <2>2
    <3>2. (s \o d)[b] = s[b]
      BY <1>2, <1>4, <2>1, <2>2
    <3> QED
      BY <1>2, <3>1, <3>2
  <2>3. CASE lo < b
    <3>1. b - lo \in 1..(hi - lo) /\ lo + (b - lo) = b
      BY <1>1, <2>1, <2>3
    <3>2. (s \o d)[b] = d[b - lo]
      BY <1>1, <1>2, <1>4, <2>1, <2>3
    <3> QED
      BY <1>2, <1>3, <3>1, <3>2
  <2> QED
    BY <1>1, <2>1, <2>2, <2>3
<1>6. Len(s \o d) = Len(t) /\ Len(s \o d) = hi
  BY <1>1, <1>2, <1>3, <1>4
<1>7. \A b \in 1..Len(s \o d): (s \o d)[b] = t[b]
  BY <1>5, <1>6
<1>8. s \o d = t
  BY <1>2, <1>4, <1>6, <1>7, SeqEqual
<1> QED
  BY <1>8 DEF s, d, t, lo, hi

\* Induction over the natural numbers, for a set of them.
LEMMA NatSetInduction ==
  ASSUME NEW S, 0 \in S, \A n \in Nat: n \in S => n + 1 \in S
  PROVE  Nat \subseteq S
<1> DEFINE R == OpToRel(<, Nat)
           T == Nat \ S
<1> SUFFICES ASSUME T # {} PROVE FALSE
  OBVIOUS
<1>1. IsWellFoundedOn(R, Nat)
  BY NatLessThanWellFounded
<1>2. T \subseteq Nat
  OBVIOUS
<1>3. \A x, y \in Nat: x < y => <<x, y>> \in R
  BY DEF OpToRel
<1> HIDE DEF R, T
<1>4. PICK x \in T: \A y \in T: ~(<<y, x>> \in R)
  BY <1>1, <1>2, WFMin
<1>5. x \in Nat /\ x \notin S
  BY <1>2 DEF T
<1>6. x # 0
  BY <1>5
<1>7. x - 1 \in Nat /\ x - 1 < x /\ x = (x - 1) + 1
  BY <1>5, <1>6
<1>8. x - 1 \notin T
  BY <1>2, <1>3, <1>4, <1>7
<1>9. x - 1 \in S
  BY <1>7, <1>8 DEF T
<1> QED
  BY <1>5, <1>7, <1>9

\* The function by which the parts s are joined.
Joins(s, n, f) == f = [i \in 1..n |-> IF i = 1 THEN s[i] ELSE f[i - 1] \o s[i]]

\* The parts of m, in order.
PartsOf(m) == [i \in 1..(LastIndex(m) + 1) |-> Part(m, i - 1).data]

LEMMA JoinStep ==
  ASSUME NEW m \in Messages, NEW i \in 1..(LastIndex(m) + 1), i # 1
  PROVE  /\ i - 1 \in 1..(LastIndex(m) + 1) /\ i - 1 \in 0..LastIndex(m)
         /\ Opening(m, Hi(m, i - 2)) \o PartsOf(m)[i] = Opening(m, Hi(m, i - 1))
<1>1. i - 1 \in 1..(LastIndex(m) + 1) /\ i - 1 \in 0..LastIndex(m) /\ i - 2 \in 0..LastIndex(m)
      /\ i - 2 < LastIndex(m) /\ (i - 2) + 1 = i - 1
  BY LastIs
<1>2. Hi(m, i - 2) = Lo(i - 1)
  BY <1>1, Bounds
<1>3. PartsOf(m)[i] = Part(m, i - 1).data
  BY DEF PartsOf
<1> QED
  BY <1>1, <1>2, <1>3, FrontGrows

LEMMA JoinFirst ==
  ASSUME NEW m \in Messages
  PROVE  /\ 1 \in 1..(LastIndex(m) + 1) /\ 0 \in 0..LastIndex(m)
         /\ PartsOf(m)[1] = Opening(m, Hi(m, 0))
<1>1. 1 \in 1..(LastIndex(m) + 1) /\ 0 \in 0..LastIndex(m)
  BY LastIs
<1>2. Lo(0) = 0
  BY Constants DEF Lo
<1>3. PartsOf(m)[1] = Part(m, 0).data
  BY <1>1 DEF PartsOf
<1>4. Opening(m, 0) \o Part(m, 0).data = Part(m, 0).data
  <2>1. Part(m, 0).data \in Seq(Messages \X (1..IntMax))
    BY <1>1, PartIs
  <2>2. 0 \in 0..Length[m]
    BY Constants
  <2>3. Opening(m, 0) \in Seq(Messages \X (1..IntMax)) /\ Len(Opening(m, 0)) = 0
    BY <2>2, FrontIs
  <2>4. Opening(m, 0) = <<>>
    BY <2>3, EmptySeq
  <2> QED
    BY <2>1, <2>4, ConcatEmptySeq
<1> QED
  BY <1>1, <1>2, <1>3, <1>4, FrontGrows

\* There is such a function, and it joins them to the message.
LEMMA JoinIsThere ==
  ASSUME NEW m \in Messages
  PROVE  Joins(PartsOf(m), LastIndex(m) + 1, [i \in 1..(LastIndex(m) + 1) |-> Opening(m, Hi(m, i - 1))])
<1> DEFINE n == LastIndex(m) + 1
           s == PartsOf(m)
           f == [i \in 1..n |-> Opening(m, Hi(m, i - 1))]
<1>1. ASSUME NEW i \in 1..n
      PROVE  Opening(m, Hi(m, i - 1)) = IF i = 1 THEN s[i] ELSE f[i - 1] \o s[i]
  <2>1. CASE i = 1
    BY <2>1, JoinFirst, i - 1 = 0
  <2>2. CASE i # 1
    <3>1. /\ i - 1 \in 1..n /\ Opening(m, Hi(m, i - 2)) \o s[i] = Opening(m, Hi(m, i - 1))
      BY <2>2, JoinStep
    <3>2. f[i - 1] = Opening(m, Hi(m, i - 2))
      <4>1. (i - 1) - 1 = i - 2
        BY <3>1, LastIs
      <4> QED
        BY <3>1, <4>1
    <3> QED
      BY <2>2, <3>1, <3>2
  <2> QED
    BY <2>1, <2>2
<1>2. f = [i \in 1..n |-> IF i = 1 THEN s[i] ELSE f[i - 1] \o s[i]]
  BY <1>1
<1> QED
  BY <1>2 DEF Joins

LEMMA JoinIsUnique ==
  ASSUME NEW m \in Messages, NEW f, Joins(PartsOf(m), LastIndex(m) + 1, f)
  PROVE  f[LastIndex(m) + 1] = Opening(m, Length[m])
<1> DEFINE n == LastIndex(m) + 1
           s == PartsOf(m)
           S == {k \in Nat: k < n => f[k + 1] = Opening(m, Hi(m, k))}
<1>0. LastIndex(m) \in Nat /\ n \in Nat \ {0}
  BY LastIs
<1>1. ASSUME NEW i \in 1..n
      PROVE  f[i] = IF i = 1 THEN s[i] ELSE f[i - 1] \o s[i]
  <2>1. f = [j \in 1..n |-> IF j = 1 THEN s[j] ELSE f[j - 1] \o s[j]]
    BY DEF Joins
  <2> QED
    BY <2>1, Zenon
<1>2. 0 \in S
  <2>1. f[1] = s[1] /\ 0 + 1 = 1
    BY <1>0, <1>1, 1 \in 1..n
  <2> QED
    BY <2>1, JoinFirst
<1>3. ASSUME NEW k \in Nat, k \in S
      PROVE  k + 1 \in S
  <2> SUFFICES ASSUME k + 1 < n PROVE f[(k + 1) + 1] = Opening(m, Hi(m, k + 1))
    OBVIOUS
  <2>1. PICK i: i = k + 2
    OBVIOUS
  <2>2. i \in 1..n /\ i # 1 /\ i - 1 = k + 1 /\ i - 2 = k /\ i = (k + 1) + 1 /\ k < n
    BY <1>0, <2>1
  <2>3. f[i] = f[i - 1] \o s[i]
    BY <1>1, <2>2
  <2>4. f[i - 1] = Opening(m, Hi(m, i - 2))
    BY <1>3, <2>2
  <2>5. Opening(m, Hi(m, i - 2)) \o s[i] = Opening(m, Hi(m, i - 1))
    BY <2>2, JoinStep
  <2> QED
    BY <2>2, <2>3, <2>4, <2>5
<1>4. Nat \subseteq S
  <2> HIDE DEF S
  <2> QED
    BY <1>2, <1>3, NatSetInduction
<1>5. f[LastIndex(m) + 1] = Opening(m, Hi(m, LastIndex(m)))
  BY <1>0, <1>4
<1> QED
  BY <1>0, <1>5, Bounds, LastIndex(m) \in 0..LastIndex(m)

LEMMA FlattenedIs ==
  ASSUME NEW m \in Messages
  PROVE  FlattenSeq(PartsOf(m)) = Whole(m)
<1> DEFINE n == LastIndex(m) + 1
           s == PartsOf(m)
           J == CHOOSE f: f = [i \in 1..Len(s) |-> IF i = 1 THEN s[i] ELSE f[i - 1] \o s[i]]
<1>1. n \in Nat \ {0}
  BY LastIs
<1>2. Len(s) = n
  BY <1>1 DEF PartsOf
<1>3. PICK g: g = [i \in 1..n |-> IF i = 1 THEN s[i] ELSE g[i - 1] \o s[i]]
  BY JoinIsThere, Zenon DEF Joins
<1>4. J = [i \in 1..n |-> IF i = 1 THEN s[i] ELSE J[i - 1] \o s[i]]
  BY <1>2, <1>3, Zenon
<1>5. Joins(s, n, J)
  BY <1>4, Zenon DEF Joins
<1>6. J[n] = Opening(m, Length[m])
  BY <1>5, JoinIsUnique
<1>7. ~(Len(s) = 0)
  BY <1>1, <1>2
<1>8. FlattenSeq(s) = J[Len(s)]
  BY <1>7, Zenon DEF FlattenSeq
<1> QED
  BY <1>2, <1>6, <1>8 DEF Opening, Whole

-------------------------------------------------------------------------------
(* How much of a message is there *)

\* The pieces of m in the parts with these numbers.
Filled(m, D) == {b \in 1..Length[m]: \E i \in D: Lo(i) < b /\ b <= Hi(m, i)}

LEMMA FilledFinite ==
  ASSUME NEW m \in Messages, NEW D
  PROVE  /\ Filled(m, D) \subseteq 1..Length[m] /\ IsFiniteSet(Filled(m, D))
         /\ Cardinality(Filled(m, D)) \in Nat /\ Cardinality(Filled(m, D)) <= Length[m]
         /\ Cardinality(Filled(m, D)) = Length[m] => Filled(m, D) = 1..Length[m]
<1>1. Length[m] \in Nat \ {0}
  BY Constants
<1>2. IsFiniteSet(1..Length[m]) /\ Cardinality(1..Length[m]) = Length[m]
  <2>1. PICK n \in Nat \ {0}: n = Length[m]
    BY <1>1
  <2>2. n \in Int /\ 1 \in Int /\ ~(1 > n) /\ n - 1 + 1 = n
    OBVIOUS
  <2>3. IsFiniteSet(1..n) /\ Cardinality(1..n) = IF 1 > n THEN 0 ELSE n - 1 + 1
    BY <2>2, FS_Interval
  <2> QED
    BY <2>1, <2>2, <2>3
<1>3. Filled(m, D) \in SUBSET (1..Length[m])
  BY DEF Filled
<1>4. /\ IsFiniteSet(Filled(m, D)) /\ Cardinality(Filled(m, D)) <= Cardinality(1..Length[m])
      /\ Cardinality(1..Length[m]) = Cardinality(Filled(m, D)) => 1..Length[m] = Filled(m, D)
  BY <1>2, <1>3, FS_Subset
<1>5. Cardinality(Filled(m, D)) \in Nat
  BY <1>4, FS_CardinalityType
<1> QED
  BY <1>2, <1>3, <1>4, <1>5

LEMMA FilledNone ==
  ASSUME NEW m \in Messages
  PROVE  Cardinality(Filled(m, {})) = 0
<1>1. Filled(m, {}) = {}
  BY DEF Filled
<1> QED
  BY <1>1, FS_EmptySet

\* A new part adds its length.
LEMMA FilledMore ==
  ASSUME NEW m \in Messages, NEW D, D \subseteq 0..LastIndex(m),
         NEW i \in 0..LastIndex(m), i \notin D
  PROVE  Cardinality(Filled(m, D \cup {i})) = Cardinality(Filled(m, D)) + Len(Part(m, i).data)
<1> DEFINE lo == Lo(i)
           hi == Hi(m, i)
           new == (lo + 1)..hi
           old == Filled(m, D)
<1>1. lo \in Nat /\ hi \in Nat /\ lo < hi /\ hi <= Length[m] /\ Length[m] \in Nat
  BY Bounds
<1>2. Filled(m, D \cup {i}) = old \cup new
  <2>1. \A b \in 1..Length[m]: b \in new <=> Lo(i) < b /\ b <= Hi(m, i)
    BY <1>1
  <2>2. new \subseteq 1..Length[m]
    BY <1>1
  <2> HIDE DEF new
  <2> QED
    BY <2>1, <2>2 DEF Filled
<1>3. old \cap new = {}
  <2> SUFFICES ASSUME NEW b \in old, b \in new PROVE FALSE
    OBVIOUS
  <2>1. PICK j \in D: Lo(j) < b /\ b <= Hi(m, j)
    BY DEF Filled
  <2>2. j \in 0..LastIndex(m) /\ j # i
    BY <2>1
  <2>3. b \in Nat /\ lo < b /\ b <= hi
    BY <1>1
  <2>4. Lo(j) \in Nat /\ Hi(m, j) \in Nat
    BY <2>2, Bounds
  <2>5. CASE j < i
    <3>1. Hi(m, j) <= lo
      BY <2>2, <2>5, Apart
    <3> HIDE DEF lo, hi
    <3> QED
      BY <1>1, <2>1, <2>3, <2>4, <3>1
  <2>6. CASE i < j
    <3>1. hi <= Lo(j)
      BY <2>2, <2>6, Apart
    <3> HIDE DEF lo, hi
    <3> QED
      BY <1>1, <2>1, <2>3, <2>4, <3>1
  <2> QED
    BY <2>2, <2>5, <2>6, LastIs
<1>4. IsFiniteSet(new) /\ Cardinality(new) = hi - lo
  BY <1>1, FS_Interval, lo + 1 \in Int
<1>5. IsFiniteSet(old) /\ Cardinality(old) \in Nat
  BY FilledFinite
<1>6. Len(Part(m, i).data) = hi - lo
  BY PartIs
<1> HIDE DEF old, new, lo, hi
<1>7. Cardinality(old \cup new) = Cardinality(old) + Cardinality(new) - Cardinality(old \cap new)
  BY <1>4, <1>5, FS_Union
<1>8. Cardinality(old \cap new) = 0
  BY <1>3, FS_EmptySet
<1>9. Cardinality(old \cup new) = Cardinality(old) + (hi - lo)
  BY <1>1, <1>4, <1>5, <1>7, <1>8
<1>10. Cardinality(Filled(m, D \cup {i})) = Cardinality(old \cup new)
  BY <1>2
<1> QED
  BY <1>6, <1>9, <1>10 DEF old

\* With all the pieces there, no part is missing.
LEMMA FilledAll ==
  ASSUME NEW m \in Messages, NEW D, D \subseteq 0..LastIndex(m),
         Cardinality(Filled(m, D)) >= Length[m]
  PROVE  D = 0..LastIndex(m)
<1>1. Filled(m, D) = 1..Length[m]
  BY FilledFinite, Constants
<1>2. ASSUME NEW i \in 0..LastIndex(m)
      PROVE  i \in D
  <2>1. /\ Lo(i) \in Nat /\ Hi(m, i) \in Nat /\ Lo(i) < Hi(m, i) /\ Hi(m, i) <= Length[m]
        /\ Length[m] \in Nat
    BY Bounds
  <2>2. Lo(i) + 1 \in 1..Length[m]
    BY <2>1
  <2>3. PICK j \in D: Lo(j) < Lo(i) + 1 /\ Lo(i) + 1 <= Hi(m, j)
    BY <1>1, <2>2 DEF Filled
  <2>4. j \in 0..LastIndex(m) /\ Lo(j) \in Nat /\ Hi(m, j) \in Nat /\ Lo(j) < Hi(m, j)
    BY <2>3, Bounds
  <2>5. ~(j < i)
    <3> SUFFICES ASSUME j < i PROVE FALSE
      OBVIOUS
    <3>1. Hi(m, j) <= Lo(i)
      BY <2>4, Apart
    <3> QED
      BY <2>1, <2>3, <2>4, <3>1
  <2>6. ~(i < j)
    <3> SUFFICES ASSUME i < j PROVE FALSE
      OBVIOUS
    <3>1. Hi(m, i) <= Lo(j)
      BY <2>4, Apart
    <3> QED
      BY <2>1, <2>3, <2>4, <3>1
  <2>7. i = j
    BY <2>4, <2>5, <2>6, LastIs
  <2> QED
    BY <2>3, <2>7
<1> QED
  BY <1>2

-------------------------------------------------------------------------------
(* What the reassembler holds *)

\* Parts of the message, each once and none past the end, counted in have; and
\* not all of them.
Holds(m, p) ==
  /\ p = [size |-> Length[m], parts |-> p.parts, have |-> p.have]
  /\ p.parts = [i \in DOMAIN p.parts |-> Part(m, i).data]
  /\ DOMAIN p.parts \subseteq 0..LastIndex(m)
  /\ p.have = Cardinality(Filled(m, DOMAIN p.parts))
  /\ p.have < p.size /\ p.size <= MaxTotal

PartsInv ==
  /\ partial = [m \in Messages |-> partial[m]]
  /\ IsFiniteSet(Tracked) /\ Cardinality(Tracked) <= MaxPartial
  /\ \A m \in Messages: partial[m] = Absent \/ Holds(m, partial[m])
  /\ returned \subseteq {[id |-> m, data |-> Whole(m)]: m \in Messages}

\* A part that is accepted is a part of its message.
LEMMA AcceptedIs ==
  ASSUME NEW part \in Arriving, Accepts(part)
  PROVE  \E m \in Messages: \E i \in 0..LastIndex(m): part = Part(m, i) /\ Length[m] <= MaxTotal
<1>1. PICK m \in Messages: part \in Split(m) \cup Beyond(m)
  BY DEF Arriving
<1>2. CASE part \in Split(m)
  <2>1. PICK i \in 0..LastIndex(m): part = Part(m, i)
    BY <1>2 DEF Split
  <2>2. Part(m, i).size = Length[m]
    BY DEF Part
  <2> QED
    BY <2>1, <2>2 DEF Accepts
<1>3. CASE part \in Beyond(m)
  <2>1. part.size = Length[m] /\ part.index \in (LastIndex(m) + 1)..IntMax
    BY <1>3 DEF Beyond
  <2>2. part.index \in Nat /\ ~(part.index <= LastIndex(m))
    BY <2>1, LastIs, Constants
  <2>3. ~(Lo(part.index) < Length[m])
    BY <2>2, LastIs
  <2> QED
    BY <2>1, <2>3 DEF Accepts, Offset, Lo
<1> QED
  BY <1>1, <1>2, <1>3

LEMMA PartFields ==
  ASSUME NEW m \in Messages, NEW i \in 0..LastIndex(m)
  PROVE  Part(m, i).id = m /\ Part(m, i).size = Length[m] /\ Part(m, i).index = i
BY DEF Part

\* What is held with one more part holds the part, whole or not.
LEMMA WithPartIs ==
  ASSUME NEW m \in Messages, NEW i \in 0..LastIndex(m), Length[m] <= MaxTotal,
         partial[m] = Absent \/ Holds(m, partial[m])
  PROVE  LET p == WithPart(Part(m, i)) IN
           /\ p = [size |-> Length[m], parts |-> p.parts, have |-> p.have]
           /\ p.parts = [k \in DOMAIN p.parts |-> Part(m, k).data]
           /\ DOMAIN p.parts \subseteq 0..LastIndex(m)
           /\ p.have = Cardinality(Filled(m, DOMAIN p.parts))
<1>1. PICK p: p = partial[m]
  OBVIOUS
<1>2. PICK q: q = WithPart(Part(m, i))
  OBVIOUS
<1>3. /\ p.parts = [k \in DOMAIN p.parts |-> Part(m, k).data]
      /\ DOMAIN p.parts \subseteq 0..LastIndex(m)
      /\ p.have = Cardinality(Filled(m, DOMAIN p.parts))
  <2>1. CASE p = Absent
    <3>1. p.parts = <<>> /\ p.have = 0
      BY <2>1 DEF Absent
    <3>2. DOMAIN p.parts = {}
      BY <3>1
    <3>3. Cardinality(Filled(m, {})) = 0
      BY FilledNone
    <3>4. p.parts = [k \in DOMAIN p.parts |-> Part(m, k).data]
      BY <3>1, <3>2
    <3> QED
      BY <3>1, <3>2, <3>3, <3>4
  <2>2. CASE Holds(m, p)
    BY <2>2 DEF Holds
  <2> QED
    BY <1>1, <2>1, <2>2
<1>4. CASE i \in DOMAIN p.parts
  <2>1. q = p
    BY <1>1, <1>2, <1>4, PartFields DEF WithPart
  <2>2. p # Absent
    BY <1>4 DEF Absent
  <2> QED
    BY <1>1, <1>2, <1>3, <2>1, <2>2 DEF Holds
<1>5. CASE i \notin DOMAIN p.parts
  <2>1. PICK D: D = DOMAIN p.parts
    OBVIOUS
  <2>2. q = [size |-> Length[m],
             parts |-> [k \in D \cup {i} |-> IF k = i THEN Part(m, i).data ELSE p.parts[k]],
             have |-> p.have + Len(Part(m, i).data)]
    BY <1>1, <1>2, <1>5, <2>1, PartFields DEF WithPart
  <2>3. /\ q.parts = [k \in D \cup {i} |-> IF k = i THEN Part(m, i).data ELSE p.parts[k]]
        /\ q.have = p.have + Len(Part(m, i).data)
        /\ q = [size |-> Length[m], parts |-> q.parts, have |-> q.have]
    BY <2>2
  <2>4. DOMAIN q.parts = D \cup {i}
    BY <2>3
  <2>5. \A k \in D: p.parts[k] = Part(m, k).data
    BY <1>3, <2>1
  <2>6. q.parts = [k \in D \cup {i} |-> Part(m, k).data]
    BY <2>3, <2>5
  <2>7. D \subseteq 0..LastIndex(m) /\ i \notin D
    BY <1>3, <1>5, <2>1
  <2>8. Cardinality(Filled(m, D \cup {i})) = Cardinality(Filled(m, D)) + Len(Part(m, i).data)
    BY <2>7, FilledMore
  <2> QED
    BY <1>2, <1>3, <2>1, <2>3, <2>4, <2>6, <2>7, <2>8
<1> QED
  BY <1>4, <1>5

\* All the parts of a message, joined, are the message.
LEMMA JoinedIs ==
  ASSUME NEW m \in Messages, NEW parts,
         parts = [i \in 0..LastIndex(m) |-> Part(m, i).data]
  PROVE  Joined(parts) = Whole(m) /\ Len(Whole(m)) = Length[m]
<1>1. PICK l: l = LastIndex(m)
  OBVIOUS
<1>2. l \in Nat /\ l < IntMax /\ IntMax \in Nat
  BY <1>1, LastIs, Constants
<1>3. DOMAIN parts = 0..l
  BY <1>1
<1>4. ASSUME NEW k \in 0..(IntMax + 1)
      PROVE  k \notin DOMAIN parts /\ 0..(k - 1) \subseteq DOMAIN parts <=> k = l + 1
  <2>1. ASSUME k \notin 0..l, 0..(k - 1) \subseteq 0..l
        PROVE  k = l + 1
    <3>1. k >= l + 1 /\ k - 1 \in 0..(k - 1)
      BY <1>2, <2>1
    <3>2. k - 1 <= l
      BY <1>2, <2>1, <3>1
    <3> QED
      BY <1>2, <3>1, <3>2
  <2>2. k = l + 1 => k \notin 0..l /\ 0..(k - 1) \subseteq 0..l
    BY <1>2
  <2> QED
    BY <1>3, <2>1, <2>2
<1>5. l + 1 \in 0..(IntMax + 1)
  BY <1>2
<1>6. (CHOOSE k \in 0..(IntMax + 1): k \notin DOMAIN parts /\ 0..(k - 1) \subseteq DOMAIN parts) = l + 1
  BY <1>4, <1>5
<1>7. ASSUME NEW i \in 1..(l + 1)
      PROVE  parts[i - 1] = Part(m, i - 1).data
  BY <1>1, <1>2, i - 1 \in 0..l
<1>8. [i \in 1..(l + 1) |-> parts[i - 1]] = PartsOf(m)
  BY <1>1, <1>7 DEF PartsOf
<1>9. Joined(parts) = FlattenSeq(PartsOf(m))
  BY <1>6, <1>8 DEF Joined
<1>10. Len(Whole(m)) = Length[m]
  BY Constants DEF Whole
<1> QED
  BY <1>9, <1>10, FlattenedIs

-------------------------------------------------------------------------------
(* The steps *)

LEMMA PartsBegin == PartsInit => PartsInv
<1> SUFFICES ASSUME PartsInit PROVE PartsInv
  OBVIOUS
<1>1. \A m \in Messages: partial[m] = Absent
  BY DEF PartsInit
<1>2. Tracked = {}
  BY <1>1 DEF Tracked
<1>3. IsFiniteSet(Tracked) /\ Cardinality(Tracked) = 0
  BY <1>2, FS_EmptySet
<1> QED
  BY <1>1, <1>3, ReassemblerAssumption DEF PartsInit, PartsInv

LEMMA ResetStep ==
  ASSUME PartsInv, Reset
  PROVE  PartsInv'
<1>1. \A m \in Messages: partial'[m] = Absent
  BY DEF Reset
<1>2. Tracked' = {}
  BY <1>1 DEF Tracked, Absent
<1>3. IsFiniteSet(Tracked') /\ Cardinality(Tracked') = 0
  BY <1>2, FS_EmptySet
<1> QED
  BY <1>1, <1>3, ReassemblerAssumption DEF Reset, PartsInv, Absent

\* A part is taken: its message is held with it, or returned whole.
LEMMA AddIs ==
  ASSUME PartsInv, Add
  PROVE  \E m \in Messages:
           /\ m \in Tracked \/ Cardinality(Tracked) < MaxPartial
           /\ \/ /\ Holds(m, partial'[m])
                 /\ partial' = [partial EXCEPT ![m] = partial'[m]]
                 /\ returned' = returned
              \/ /\ partial' = [partial EXCEPT ![m] = Absent]
                 /\ returned' = returned \cup {[id |-> m, data |-> Whole(m)]}
<1>1. PICK part \in Arriving:
        /\ Accepts(part)
        /\ LET p == WithPart(part) IN
             IF p.have < p.size
               THEN partial' = [partial EXCEPT ![part.id] = p] /\ returned' = returned
               ELSE /\ partial' = [partial EXCEPT ![part.id] = Absent]
                    /\ returned' = IF Returns(p)
                                     THEN returned \cup {[id |-> part.id, data |-> Joined(p.parts)]}
                                     ELSE returned
  BY DEF Add
<1> PICK m \in Messages: \E i \in 0..LastIndex(m): part = Part(m, i) /\ Length[m] <= MaxTotal
  BY <1>1, AcceptedIs
<1>2. PICK i \in 0..LastIndex(m): part = Part(m, i) /\ Length[m] <= MaxTotal
  OBVIOUS
<1>3. PICK p: p = WithPart(part)
  OBVIOUS
<1>4. part.id = m
  BY <1>2, PartFields
<1>5. partial[m] = Absent \/ Holds(m, partial[m])
  BY DEF PartsInv
<1>6. /\ p = [size |-> Length[m], parts |-> p.parts, have |-> p.have]
      /\ p.parts = [k \in DOMAIN p.parts |-> Part(m, k).data]
      /\ DOMAIN p.parts \subseteq 0..LastIndex(m)
      /\ p.have = Cardinality(Filled(m, DOMAIN p.parts))
  BY <1>2, <1>3, <1>5, WithPartIs
<1>7. p.size = Length[m]
  BY <1>6
<1>8. m \in Tracked \/ Cardinality(Tracked) < MaxPartial
  BY <1>1, <1>4 DEF Accepts
<1>9. partial = [k \in Messages |-> partial[k]]
  BY DEF PartsInv
<1>10. CASE p.have < p.size
  <2>1. partial' = [partial EXCEPT ![m] = p] /\ returned' = returned
    BY <1>1, <1>3, <1>4, <1>10
  <2>2. partial'[m] = p
    BY <1>9, <2>1
  <2>3. Holds(m, p)
    BY <1>2, <1>6, <1>7, <1>10 DEF Holds
  <2> QED
    BY <1>8, <2>1, <2>2, <2>3
<1>11. CASE ~(p.have < p.size)
  <2>1. /\ partial' = [partial EXCEPT ![m] = Absent]
        /\ returned' = IF Returns(p) THEN returned \cup {[id |-> m, data |-> Joined(p.parts)]}
                                     ELSE returned
    BY <1>1, <1>3, <1>4, <1>11
  <2>2. Cardinality(Filled(m, DOMAIN p.parts)) >= Length[m]
    BY <1>6, <1>7, <1>11, FilledFinite, Constants
  <2>3. DOMAIN p.parts = 0..LastIndex(m)
    BY <1>6, <2>2, FilledAll
  <2>4. Joined(p.parts) = Whole(m) /\ Len(Whole(m)) = Length[m]
    BY <1>6, <2>3, JoinedIs
  <2>5. Returns(p)
    BY <1>7, <2>4 DEF Returns
  <2> QED
    BY <1>8, <2>1, <2>4, <2>5
<1> QED
  BY <1>10, <1>11

LEMMA AddStep ==
  ASSUME PartsInv, Add
  PROVE  PartsInv'
<1>1. PICK m \in Messages:
        /\ m \in Tracked \/ Cardinality(Tracked) < MaxPartial
        /\ \/ /\ Holds(m, partial'[m])
              /\ partial' = [partial EXCEPT ![m] = partial'[m]]
              /\ returned' = returned
           \/ /\ partial' = [partial EXCEPT ![m] = Absent]
              /\ returned' = returned \cup {[id |-> m, data |-> Whole(m)]}
  BY AddIs
<1>2. /\ partial = [k \in Messages |-> partial[k]]
      /\ IsFiniteSet(Tracked) /\ Cardinality(Tracked) <= MaxPartial
  BY DEF PartsInv
<1>3. PICK v: partial' = [partial EXCEPT ![m] = v] /\ (v = Absent \/ Holds(m, v))
  BY <1>1
<1>4. partial'[m] = v /\ \A k \in Messages: k # m => partial'[k] = partial[k]
  BY <1>2, <1>3
<1>5. \A k \in Messages: partial'[k] = Absent \/ Holds(k, partial'[k])
  BY <1>3, <1>4 DEF PartsInv
<1>6. Tracked' \subseteq Tracked \cup {m}
  BY <1>4 DEF Tracked, Absent
<1>7. /\ IsFiniteSet(Tracked \cup {m})
      /\ Cardinality(Tracked \cup {m}) = IF m \in Tracked THEN Cardinality(Tracked)
                                                          ELSE Cardinality(Tracked) + 1
  BY <1>2, FS_AddElement
<1>8. Cardinality(Tracked) \in Nat /\ MaxPartial \in Nat
  BY <1>2, FS_CardinalityType, ReassemblerAssumption
<1>9. Cardinality(Tracked \cup {m}) <= MaxPartial /\ Cardinality(Tracked \cup {m}) \in Nat
  BY <1>1, <1>2, <1>7, <1>8
<1>10. Tracked' \in SUBSET (Tracked \cup {m})
  BY <1>6
<1>11. IsFiniteSet(Tracked') /\ Cardinality(Tracked') <= Cardinality(Tracked \cup {m})
  BY <1>7, <1>10, FS_Subset
<1>12. Cardinality(Tracked') \in Nat
  BY <1>11, FS_CardinalityType
<1>13. returned' \subseteq {[id |-> k, data |-> Whole(k)]: k \in Messages}
  BY <1>1 DEF PartsInv
<1> QED
  BY <1>2, <1>3, <1>5, <1>8, <1>9, <1>11, <1>12, <1>13 DEF PartsInv, Whole

LEMMA PartsStep == PartsInv /\ [PartsNext]_partsVars => PartsInv'
<1> SUFFICES ASSUME PartsInv, [PartsNext]_partsVars PROVE PartsInv'
  OBVIOUS
<1>1. CASE Add
  BY <1>1, AddStep
<1>2. CASE Reset
  BY <1>2, ResetStep
<1>3. CASE UNCHANGED partsVars
  BY <1>3 DEF partsVars, PartsInv, Tracked, Holds, Absent, Filled, Part, Whole, LastIndex, Lo, Hi,
              Smaller
<1> QED
  BY <1>1, <1>2, <1>3 DEF PartsNext

THEOREM PartsInvariance == PartsSpec => []PartsInv
BY PartsBegin, PartsStep, PTL DEF PartsSpec

-------------------------------------------------------------------------------
(* The properties *)

\* Whatever order its parts come in, however often and however far apart, a
\* message that add returns is the one that was sent.
THEOREM ReturnedWholeHolds == PartsSpec => []ReturnedWhole
<1>1. PartsInv => ReturnedWhole
  BY DEF PartsInv, ReturnedWhole
<1> QED
  BY <1>1, PartsInvariance, PTL

\* A place of m is in part i if the part spans it.
LEMMA PlaceIs ==
  ASSUME NEW m \in Messages, NEW i \in 0..LastIndex(m), NEW b \in 1..Length[m]
  PROVE  <<m, b>> \in ToSet(Part(m, i).data) <=> Lo(i) < b /\ b <= Hi(m, i)
<1> DEFINE d == Part(m, i).data
<1>1. /\ Lo(i) \in Nat /\ Hi(m, i) \in Nat /\ Lo(i) < Hi(m, i) /\ Length[m] \in Nat
  BY Bounds
<1>2. /\ d \in Seq(Messages \X (1..IntMax)) /\ Len(d) = Hi(m, i) - Lo(i)
      /\ \A k \in 1..(Hi(m, i) - Lo(i)): d[k] = <<m, Lo(i) + k>>
  BY PartIs
<1> HIDE DEF d
<1>3. DOMAIN d = 1..(Hi(m, i) - Lo(i))
  BY <1>2, LenProperties
<1>4. ASSUME <<m, b>> \in ToSet(d)
      PROVE  Lo(i) < b /\ b <= Hi(m, i)
  <2>1. PICK k \in 1..(Hi(m, i) - Lo(i)): <<m, b>> = d[k]
    BY <1>3, <1>4 DEF ToSet
  <2>2. b = Lo(i) + k
    BY <1>2, <2>1
  <2> QED
    BY <1>1, <2>2
<1>5. ASSUME Lo(i) < b, b <= Hi(m, i)
      PROVE  <<m, b>> \in ToSet(d)
  <2>1. b - Lo(i) \in 1..(Hi(m, i) - Lo(i)) /\ Lo(i) + (b - Lo(i)) = b
    BY <1>1, <1>5
  <2>2. d[b - Lo(i)] = <<m, b>>
    BY <1>2, <2>1
  <2> QED
    BY <1>3, <2>1, <2>2 DEF ToSet
<1> QED
  BY <1>4, <1>5 DEF d

\* What is held of a message is parts of it, every byte counted once, and short
\* of the whole; and no more messages are begun than have a place.
THEOREM HeldAddsUpHolds == PartsSpec => []HeldAddsUp
<1>1. PartsInv => HeldAddsUp
  <2> SUFFICES ASSUME PartsInv, NEW m \in Tracked
               PROVE  LET p == partial[m] IN
                        /\ p.size = Length[m]
                        /\ \A i \in DOMAIN p.parts: /\ i <= LastIndex(m)
                                                    /\ p.parts[i] = Part(m, i).data
                        /\ p.have = Cardinality({b \in 1..Length[m]:
                             \E i \in DOMAIN p.parts: <<m, b>> \in ToSet(p.parts[i])})
                        /\ p.have < p.size
    BY DEF PartsInv, HeldAddsUp
  <2>1. PICK p: p = partial[m]
    OBVIOUS
  <2>2. m \in Messages /\ Holds(m, p)
    BY <2>1 DEF Tracked, PartsInv
  <2>3. /\ p = [size |-> Length[m], parts |-> p.parts, have |-> p.have]
        /\ p.parts = [i \in DOMAIN p.parts |-> Part(m, i).data]
        /\ DOMAIN p.parts \subseteq 0..LastIndex(m)
        /\ p.have = Cardinality(Filled(m, DOMAIN p.parts)) /\ p.have < p.size
    BY <2>2 DEF Holds
  <2>4. p.size = Length[m]
    BY <2>3
  <2>5. PICK D: D = DOMAIN p.parts
    OBVIOUS
  <2>6. \A i \in D: i \in 0..LastIndex(m) /\ p.parts[i] = Part(m, i).data
    BY <2>3, <2>5
  <2>7. \A b \in 1..Length[m]: \A i \in D:
          <<m, b>> \in ToSet(p.parts[i]) <=> Lo(i) < b /\ b <= Hi(m, i)
    BY <2>2, <2>6, PlaceIs
  <2>8. {b \in 1..Length[m]: \E i \in D: <<m, b>> \in ToSet(p.parts[i])} = Filled(m, D)
    BY <2>7 DEF Filled
  <2>9. \A i \in D: i <= LastIndex(m)
    BY <2>2, <2>6, LastIs
  <2> QED
    BY <2>1, <2>3, <2>4, <2>5, <2>6, <2>8, <2>9
<1> QED
  BY <1>1, PartsInvariance, PTL

\* A message that has been begun is given up only by being returned, whole, or
\* with all the others; a new one never takes its place.
THEOREM NotPushedOutHolds == PartsSpec => NotPushedOut
<1>1. PartsInv /\ [PartsNext]_partsVars =>
        [\A m \in Tracked: m \notin Tracked' =>
           [id |-> m, data |-> Whole(m)] \in returned' \/ Tracked' = {}]_partsVars
  <2> SUFFICES ASSUME PartsInv, PartsNext, NEW m \in Tracked, m \notin Tracked'
               PROVE  [id |-> m, data |-> Whole(m)] \in returned' \/ Tracked' = {}
    OBVIOUS
  <2>1. CASE Add
    <3>1. PICK k \in Messages:
            \/ /\ Holds(k, partial'[k])
               /\ partial' = [partial EXCEPT ![k] = partial'[k]]
            \/ /\ partial' = [partial EXCEPT ![k] = Absent]
               /\ returned' = returned \cup {[id |-> k, data |-> Whole(k)]}
      BY <2>1, AddIs
    <3>2. partial = [j \in Messages |-> partial[j]]
      BY DEF PartsInv
    <3>3. m \in Messages /\ partial[m] # Absent /\ partial'[m] = Absent
      BY DEF Tracked, Absent
    <3>4. m = k
      BY <3>1, <3>2, <3>3
    <3>5. ~Holds(k, partial'[k])
      <4>1. Length[m] # 0 /\ Absent.size = 0
        BY <3>3, Constants DEF Absent
      <4> QED
        BY <3>3, <3>4, <4>1 DEF Holds
    <3> QED
      BY <3>1, <3>4, <3>5
  <2>2. CASE Reset
    BY <2>2 DEF Reset, Tracked, Absent
  <2> QED
    BY <2>1, <2>2 DEF PartsNext
<1> QED
  BY <1>1, PartsInvariance, PTL DEF PartsSpec, NotPushedOut

\* What is held and returned is of its type, and within maxTotal.
THEOREM PartsTypeCorrect == PartsSpec => []PartsTypeOK
<1>1. PartsInv => PartsTypeOK
  <2> SUFFICES ASSUME PartsInv PROVE PartsTypeOK
    OBVIOUS
  <2>1. ASSUME NEW m \in Messages
        PROVE  /\ partial[m].size \in 0..MaxTotal /\ partial[m].have \in 0..MaxTotal
               /\ DOMAIN partial[m].parts \subseteq 0..IntMax
               /\ \A i \in DOMAIN partial[m].parts: partial[m].parts[i] \in Data
    <3>1. PICK p: p = partial[m]
      OBVIOUS
    <3>2. CASE p = Absent
      <4>1. p.size = 0 /\ p.have = 0 /\ DOMAIN p.parts = {}
        BY <3>2 DEF Absent
      <4> QED
        BY <3>1, <4>1, Constants
    <3>3. CASE Holds(m, p)
      <4>1. /\ p = [size |-> Length[m], parts |-> p.parts, have |-> p.have]
            /\ p.parts = [i \in DOMAIN p.parts |-> Part(m, i).data]
            /\ DOMAIN p.parts \subseteq 0..LastIndex(m)
            /\ p.have = Cardinality(Filled(m, DOMAIN p.parts))
            /\ p.have < p.size /\ p.size <= MaxTotal
        BY <3>3 DEF Holds
      <4>2. p.size = Length[m] /\ p.have \in Nat
        BY <4>1, FilledFinite
      <4>3. p.size \in 0..MaxTotal /\ p.have \in 0..MaxTotal
        BY <4>1, <4>2, Constants
      <4>4. 0..LastIndex(m) \subseteq 0..IntMax
        BY LastIs, Constants
      <4>5. \A i \in DOMAIN p.parts: p.parts[i] \in Data
        BY <4>1, PartIs DEF Data
      <4> QED
        BY <3>1, <4>1, <4>3, <4>4, <4>5
    <3> QED
      BY <3>1, <3>2, <3>3 DEF PartsInv
  <2>2. DOMAIN partial = Messages
    BY DEF PartsInv
  <2>3. ASSUME NEW m \in Messages
        PROVE  Whole(m) \in Data
    <3>1. Length[m] \in 0..Length[m] /\ Whole(m) = Opening(m, Length[m])
      BY Constants DEF Whole, Opening
    <3> QED
      BY <3>1, FrontIs DEF Data
  <2>4. returned \subseteq [id: Messages, data: Data]
    BY <2>3 DEF PartsInv
  <2> QED
    BY <2>1, <2>2, <2>4 DEF PartsTypeOK
<1> QED
  BY <1>1, PartsInvariance, PTL
=============================================================================
