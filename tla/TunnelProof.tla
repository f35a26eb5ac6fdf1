------------------------------ MODULE TunnelProof ------------------------------
(***************************************************************************)
(* The safety properties of Tunnel.tla in the composition BringUp.tla, for *)
(* any number of connections made one after the other, with any far ends,  *)
(* codes and numbers of messages, and whatever a stranger puts in on the   *)
(* way.  IInv is the inductive invariant: the types, who has which key     *)
(* (KeyInv), what the two ends agree on (AgreeInv), what was ever sealed   *)
(* (SealedInv, NonceOnce), what is on the way (WireInv) and how far a      *)
(* pairing is (PairInv).  CounterInv is what the far end's check of the    *)
(* counters rests on.  The pings go as they do by themselves               *)
(* (BringUpPings), so what is said of them is shown of GridPing.tla:       *)
(* PingInv, which pings have a pong on the way.                            *)
(***************************************************************************)
EXTENDS BringUp, Integers, FiniteSetTheorems, TLAPS

\* The state tuples, expanded wherever a step is split into its variables.
USE DEF tunnelVars, givenVars

\* Sequences of anything, and what is in them.
IsSeq(s) == \E S: s \in Seq(S)
In(s) == {s[i] : i \in DOMAIN s}

\* The numbers among the keys have been drawn.
Drawn(keys, n) == \A k \in keys: k \in Nat => k \in 1..n

TypeInv ==
  /\ conn = [pc |-> conn.pc, remote |-> conn.remote, short |-> conn.short, shared |-> conn.shared,
             ctr |-> conn.ctr, expected |-> conn.expected]
  /\ tun = [pc |-> tun.pc, client |-> tun.client, peer |-> tun.peer, shared |-> tun.shared,
            ctr |-> tun.ctr, next |-> tun.next, props |-> tun.props]
  /\ made \in Nat /\ conn.ctr \in Nat /\ tun.ctr \in Nat
  /\ conn.short \in 0..made /\ tun.client \in (0..made) \cup {Stranger}
  /\ conn.remote \in Ends \cup {Me, Stranger} /\ far \in Ends
  /\ Drawn(conn.shared, made) /\ Drawn(tun.shared, made)
  /\ IsSeq(c2s) /\ IsSeq(s2c)

\* The far end's connection is this client's.
Mine == conn.short # 0 /\ tun.client = conn.short

\* The key the far end has drawn for its session.
FarKey(k) == /\ k \in 1..made /\ tun.shared = {tun.client, k}
             /\ tun.client # 0 /\ k # conn.short /\ k # tun.client

\* The keys each end has by now.
KeyInv ==
  /\ conn.pc \in {"tell", "welc"} => conn.short = 0
  /\ conn.pc \in {"tell", "welc", "cook"} => conn.shared = {}
  /\ conn.pc \notin {"tell", "welc", "failed"} =>
       conn.short # 0 /\ conn.remote # Me /\ (accepts = {} \/ conn.remote \in accepts)
  /\ conn.pc \in {"redy", "up", "challenge", "result"} => conn.short \in conn.shared
  /\ tun.pc \in {"tell", "helo"} => tun.shared = {}
  /\ tun.pc \in {"voch", "up", "challenge", "response", "verified"} => tun.shared # {}
  /\ tun.shared # {} => \E k: FarKey(k)
  /\ Mine => conn.remote = far

\* The far end has accepted a voucher of this client.
Vouched == /\ tun.pc \notin {"tell", "helo", "voch"}
           /\ tun.peer = Me /\ tun.props = Trailer(mode)

Serving == {"up", "challenge", "response", "verified"}

AgreeInv ==
  /\ conn.remote # Stranger =>
       /\ conn.pc \in {"redy", "up", "challenge", "result", "paired"} => Mine /\ tun.shared = conn.shared
       /\ conn.pc \in {"up", "challenge", "result", "paired"} => Vouched
  /\ tun.pc \in Serving /\ Mine => Vouched
  /\ tun.pc \in Serving /\ tun.peer = Me => Mine /\ tun.shared = conn.shared

\* The challenge of this far end and the response to it: the mask comes off if the
\* user typed the code the far end shows.
HerMask == [stream |-> KeyStream(CodeOf[far], Me, far), scalar |-> "s"]
HerChallenge == <<"challenge", DeviceX, HerMask>>
RespX == Point({"r", Unmask(HerMask, KeyStream(typed, Me, far))}, tun.shared)
MyResponse == <<"response", RespX, Hash(DeviceX, Times("r", DeviceX))>>

\* A challenge is one of a far end, or made up; neither tells its maker what a
\* response to it hides.
IsChallenge(d) ==
  /\ d[1] = "challenge" /\ d[2] = Point(d[2].by, d[2].over)
  /\ \/ d[2].by = {"z"} /\ d[3].stream = <<>>
     \/ d[2].by = {"x", "s"} /\ d[3].scalar = "s"

\* A response is over the session it was sealed for.
IsResponse(d, keys) ==
  /\ d[2] = Point(d[2].by, keys)
  /\ d[3][2].over = d[3][1].over /\ "r" \notin d[3][1].by

Mesg == {"CurveCP-client-M", "CurveCP-server-M"}

\* What is in the messages that were sealed.
DataOK(b) ==
  b.plain[1] = "mesg" =>
    /\ b.nonce[1] \in Mesg
    /\ b.plain[2][1] = "challenge" => IsChallenge(b.plain[2])
    /\ b.plain[2][1] = "response" =>
         b.nonce[1] = "CurveCP-client-M" /\ IsResponse(b.plain[2], b.keys)
    /\ b.plain[2][1] = "result" => Stranger \notin b.keys

\* Sealed with the far end's session key.
Current(b) == b.keys = tun.shared /\ tun.shared # {}

\* Which boxes were made.  Of each kind either the plaintext is always the same,
\* or the keys or the nonce are new with every box; and a box with a key of this
\* connection was made in it.
BoxOK(b) == /\ b = [keys |-> b.keys, nonce |-> <<b.nonce[1], b.nonce[2]>>, plain |-> b.plain]
            /\ Drawn(b.keys, made)

HeloOK(b) ==
  b.nonce[1] = "CurveCP-client-H" =>
    b.plain = <<"zeros">> /\ (conn.short \in b.keys => b.keys = {conn.short, conn.remote})

CookOK(b) ==
  b.nonce[1] = "CurveCPK" =>
    /\ b.nonce[2] \in 1..made /\ b.plain[2] \in 1..made
    /\ conn.short \in b.keys => Mine /\ tun.shared = {conn.short, b.plain[2]}

VouchOK(b) ==
  b.nonce[1] = "CurveCPV" => b.nonce[2] \in 1..made /\ \E k \in 1..made: b.plain = <<"vouch", k>>

VochOK(b) ==
  b.nonce[1] = "CurveCP-client-I" =>
    /\ b.plain[2] = Me /\ b.plain[3] \in sealed
    /\ conn.short \in b.keys => conn.pc # "cook" /\ b.plain[4] = Trailer(mode)
    /\ Current(b) => Mine /\ tun.shared = conn.shared

RedyOK(b) ==
  b.nonce[1] = "CurveCP-server-R" => b.plain = <<"ready">> /\ (Current(b) /\ Mine => Vouched)

ClientMesgOK(b) ==
  b.nonce[1] = "CurveCP-client-M" =>
    /\ b.plain[1] = "mesg"
    /\ conn.short \in b.keys =>
         conn.pc \notin {"cook", "redy"} /\ b.nonce[2] \in Nat /\ b.nonce[2] < conn.ctr
    /\ Current(b) => Mine
    /\ Current(b) /\ mode = "pairing" => b.plain[2] = MyResponse
    /\ Current(b) /\ mode # "pairing" => b.plain[2][1] = "data"

FarMesgOK(b) ==
  b.nonce[1] = "CurveCP-server-M" =>
    /\ b.plain[1] = "mesg"
    /\ conn.short \in b.keys => Current(b) /\ Mine
    /\ Current(b) => b.nonce[2] \in Nat /\ b.nonce[2] < tun.ctr
    /\ Current(b) /\ Mine /\ mode = "pairing" =>
         \/ b.plain[2] = HerChallenge
         \/ b.plain[2][1] = "result" /\ tun.pc \in {"verified", "closed"} /\ typed = CodeOf[far]

Apart(b) == /\ BoxOK(b) /\ HeloOK(b) /\ CookOK(b) /\ VouchOK(b) /\ VochOK(b) /\ RedyOK(b)
            /\ ClientMesgOK(b) /\ FarMesgOK(b) /\ DataOK(b)

SealedInv == \A b \in sealed: Apart(b)

\* A box on the way was sealed by one of the two ends or with the stranger's key.
\* What the stranger says is not verified, and is not the result awaited.
ToFar(p) ==
  /\ p.cmd = "HELO" => /\ p.box \in sealed \/ Stranger \in p.box.keys
                       /\ p.clear \in (1..made) \cup {Stranger}
  /\ p.cmd = "VOCH" => \/ p.box \in sealed
                       \/ /\ Stranger \in p.box.keys
                          /\ p.box.plain[3] \in sealed \/ Stranger \in p.box.plain[3].keys
  /\ p.cmd = "MESG" => \/ p.box \in sealed
                       \/ /\ Stranger \in p.box.keys /\ tun.pc \in {"response", "verified", "closed"}
                          /\ p.box.keys = tun.shared => ~Verified(p.box.plain[2])

ToMe(p) ==
  /\ p.cmd = "WELC" => p.clear \in Ends \cup {Stranger}
  /\ p.cmd = "COOK" => \/ p.box \in sealed
                       \/ Stranger \in p.box.keys /\ p.box.plain[2] \in (1..made) \cup {Stranger}
  /\ p.cmd = "REDY" => p.box \in sealed \/ Stranger \in p.box.keys
  /\ p.cmd = "MESG" => \/ p.box \in sealed
                       \/ /\ Stranger \in p.box.keys
                          /\ conn.pc \in {"challenge", "result", "paired", "failed"}
                          /\ conn.pc = "challenge" => IsChallenge(p.box.plain[2])
                          /\ conn.pc = "result" => p.box.plain[2] # <<"result", conn.expected>>

WireInv == (\A p \in In(c2s): ToFar(p)) /\ (\A p \in In(s2c): ToMe(p))

\* The result that is awaited can be told neither from the response nor by one more
\* scalar on it.
Hidden(e) == /\ e = <<e[1], e[2]>> /\ e[1] = Point(e[1].by, e[1].over)
             /\ "r" \in e[1].by /\ e[2].by # e[1].by \cup {"z"}

PairInv ==
  /\ conn.pc \in {"challenge", "result", "paired"} => mode = "pairing"
  /\ conn.pc = "up" => mode # "pairing"
  /\ tun.pc \in {"challenge", "response", "verified"} => mode = "pairing"
  /\ tun.pc = "up" => mode # "pairing"
  /\ conn.pc = "result" => Hidden(conn.expected)

IInv == /\ TypeInv /\ KeyInv /\ AgreeInv /\ SealedInv /\ NonceOnce
        /\ WireInv /\ PairInv /\ PairedTogether

-------------------------------------------------------------------------------
(* Sequences, boxes and keys *)

LEMMA EmptyWire == IsSeq(<<>>) /\ In(<<>>) = {}
<1>1. <<>> \in Seq({})
  OBVIOUS
<1> QED
  BY <1>1 DEF IsSeq, In

LEMMA WireFacts ==
  ASSUME NEW s, IsSeq(s)
  PROVE  /\ \A x: IsSeq(Append(s, x)) /\ In(Append(s, x)) = In(s) \cup {x}
         /\ s # <<>> => IsSeq(Tail(s)) /\ In(Tail(s)) \subseteq In(s) /\ Head(s) \in In(s)
<1>1. PICK S: s \in Seq(S)
  BY DEF IsSeq
<1>2. ASSUME NEW x
      PROVE  IsSeq(Append(s, x)) /\ In(Append(s, x)) = In(s) \cup {x}
  <2>1. s \in Seq(S \cup {x}) /\ Append(s, x) \in Seq(S \cup {x})
    BY <1>1
  <2>2. /\ Len(Append(s, x)) = Len(s) + 1 /\ Append(s, x)[Len(s) + 1] = x
        /\ \A i \in 1..Len(s): Append(s, x)[i] = s[i]
    BY <2>1
  <2>3. In(Append(s, x)) = In(s) \cup {x}
    BY <2>1, <2>2 DEF In
  <2> QED
    BY <2>1, <2>3 DEF IsSeq
<1>3. ASSUME s # <<>>
      PROVE  IsSeq(Tail(s)) /\ In(Tail(s)) \subseteq In(s) /\ Head(s) \in In(s)
  <2>1. Tail(s) \in Seq(S) /\ Len(s) > 0 /\ Head(s) = s[1]
    BY <1>1, <1>3
  <2>2. \A i \in 1..Len(Tail(s)): Tail(s)[i] = s[i + 1] /\ i + 1 \in 1..Len(s)
    BY <1>1, <1>3
  <2> QED
    BY <1>1, <2>1, <2>2 DEF In, IsSeq
<1> QED
  BY <1>2, <1>3

LEMMA BoxFacts ==
  ASSUME NEW keys, NEW label, NEW n, NEW plain
  PROVE  LET b == Box(keys, label, n, plain)
         IN  /\ b.keys = keys /\ b.nonce = <<label, n>> /\ b.plain = plain
             /\ b.nonce[1] = label /\ b.nonce[2] = n
             /\ b = [keys |-> b.keys, nonce |-> <<b.nonce[1], b.nonce[2]>>, plain |-> b.plain]
BY DEF Box

\* What two steps draw stays drawn.
LEMMA DrawnOn ==
  ASSUME NEW keys, NEW n \in Nat, Drawn(keys, n)
  PROVE  Drawn(keys, n + 1)
BY DEF Drawn

\* Long-term keys are no numbers, and those of the stranger, the client and the far
\* ends differ.
LEMMA LongKeys ==
  /\ Stranger \notin Nat /\ Me \notin Nat /\ Stranger # Me
  /\ \A k \in Ends: k \notin Nat /\ k # Stranger /\ k # Me
BY KeyAssumption

\* A session in which the client's key has a part is the client's, and the stranger
\* has no part in it.
LEMMA Sessions ==
  ASSUME IInv
  PROVE  /\ conn.short # 0 /\ conn.short \in tun.shared => Mine
         /\ Mine /\ tun.shared # {} => Stranger \notin tun.shared
<1>1. CASE tun.shared = {}
  BY <1>1
<1>2. CASE tun.shared # {}
  <2>1. PICK k: FarKey(k)
    BY <1>2 DEF IInv, KeyInv
  <2>2. k \in Nat /\ conn.short \in Nat
    BY <2>1 DEF FarKey, IInv, TypeInv
  <2> QED
    BY <2>1, <2>2, LongKeys DEF FarKey, Mine
<1> QED
  BY <1>1, <1>2

\* No box has a number that was not drawn.
LEMMA NotDrawn ==
  ASSUME IInv, NEW b \in sealed
  PROVE  0 \notin b.keys /\ made + 1 \notin b.keys
BY DEF IInv, TypeInv, SealedInv, Apart, BoxOK, Drawn

LEMMA InitIInv == TunnelInit => IInv
<1> SUFFICES ASSUME TunnelInit PROVE IInv
  OBVIOUS
<1>1. TypeInv
  BY EmptyWire DEF TunnelInit, TypeInv, FreshConn, FreshTunnel, Drawn
<1>2. KeyInv /\ AgreeInv /\ SealedInv /\ NonceOnce /\ PairedTogether
  BY DEF TunnelInit, KeyInv, AgreeInv, SealedInv, NonceOnce, PairedTogether, FreshConn,
     FreshTunnel, Mine,
         Serving
<1>3. WireInv /\ PairInv
  BY EmptyWire DEF TunnelInit, WireInv, PairInv, FreshConn, FreshTunnel
<1> QED
  BY <1>1, <1>2, <1>3 DEF IInv

-------------------------------------------------------------------------------
(* What a step leaves as it was *)

LEMMA SameMode == UNCHANGED <<plan, attempt>> => mode' = mode
BY DEF mode

\* A box stays apart as long as neither end's keys change, and their counters only
\* go up.
LEMMA SealedOn ==
  ASSUME TypeInv, SealedInv, UNCHANGED givenVars,
         made' \in Nat, made <= made', sealed \subseteq sealed',
         conn'.short = conn.short, conn'.shared = conn.shared, conn'.remote = conn.remote,
         conn'.ctr \in Nat, conn.ctr <= conn'.ctr,
         tun'.client = tun.client, tun'.shared = tun.shared, tun'.ctr \in Nat, tun.ctr <= tun'.ctr,
         conn'.pc \in {"cook", "redy"} => conn'.pc = conn.pc,
         tun.pc \in {"verified", "closed"} => tun'.pc \in {"verified", "closed"},
         Mine /\ Vouched => Vouched'
  PROVE  \A b \in sealed: Apart(b)'
<1> SUFFICES ASSUME NEW b \in sealed
             PROVE  Apart(b)'
  OBVIOUS
<1>1. Apart(b) /\ mode' = mode /\ Mine' = Mine /\ Current(b)' = Current(b)
  BY SameMode DEF SealedInv, Mine, Current
<1>2. BoxOK(b)'
  BY <1>1 DEF TypeInv, Apart, BoxOK, Drawn
<1>3. HeloOK(b)' /\ CookOK(b)' /\ VouchOK(b)'
  BY <1>1 DEF TypeInv, Apart, HeloOK, CookOK, VouchOK
<1>4. VochOK(b)' /\ RedyOK(b)'
  BY <1>1 DEF Apart, VochOK, RedyOK
<1>5. ClientMesgOK(b)'
  <2>1. MyResponse' = MyResponse
    BY DEF MyResponse, RespX, HerMask, DeviceX
  <2> QED
    BY <1>1, <2>1 DEF TypeInv, Apart, ClientMesgOK
<1>6. FarMesgOK(b)'
  <2>1. HerChallenge' = HerChallenge
    BY DEF HerChallenge, HerMask, DeviceX
  <2> QED
    BY <1>1, <2>1 DEF TypeInv, Apart, FarMesgOK
<1>7. DataOK(b)'
  BY <1>1 DEF Apart, DataOK
<1> QED
  BY <1>2, <1>3, <1>4, <1>5, <1>6, <1>7 DEF Apart

LEMMA ToFarOn ==
  ASSUME made \in Nat, made' \in Nat, made <= made', sealed \subseteq sealed', tun'.shared = tun.shared,
         tun.pc \in {"response", "verified", "closed"} => tun'.pc \in {"response", "verified", "closed"}
  PROVE  \A p: ToFar(p) => ToFar(p)'
<1>1. \A r: Verified(r)' = Verified(r)
  BY DEF Verified, DeviceX
<1> QED
  BY <1>1 DEF ToFar

LEMMA ToMeOn ==
  ASSUME made \in Nat, made' \in Nat, made <= made', sealed \subseteq sealed',
         conn.pc \in {"challenge", "result", "paired", "failed"} =>
           conn'.pc \in {"challenge", "result", "paired", "failed"},
         conn'.pc = "challenge" => conn.pc \notin {"result", "paired", "failed"},
         conn'.pc = "result" => conn.pc = "result" /\ conn'.expected = conn.expected
  PROVE  \A p: ToMe(p) => ToMe(p)'
BY DEF ToMe

-------------------------------------------------------------------------------
(* Steps that seal nothing *)

LEMMA TellsOutKeeps ==
  ASSUME IInv, TellsOut
  PROVE  IInv'
<1> PICK q: q = Packet("TELL", 0, NoBox, 0)
  OBVIOUS
<1>1. /\ conn.pc = "tell" /\ conn' = [conn EXCEPT !.pc = "welc"]
      /\ UNCHANGED <<givenVars, tun, s2c, made, sealed>> /\ mode' = mode
      /\ IsSeq(c2s') /\ In(c2s') = In(c2s) \cup {q} /\ q.cmd = "TELL"
  BY WireFacts, SameMode DEF TellsOut, Packet, IInv, TypeInv
<1>2. conn' = [pc |-> "welc", remote |-> conn.remote, short |-> conn.short, shared |-> conn.shared,
               ctr |-> conn.ctr, expected |-> conn.expected]
  BY <1>1 DEF IInv, TypeInv
<1>3. TypeInv'
  BY <1>1, <1>2 DEF IInv, TypeInv
<1>4. KeyInv' /\ AgreeInv'
  BY <1>1, <1>2 DEF IInv, KeyInv, FarKey, AgreeInv, Vouched, Mine
<1>5. SealedInv' /\ NonceOnce'
  BY <1>1, <1>2, SealedOn DEF IInv, TypeInv, SealedInv, NonceOnce, Vouched
<1>6. WireInv'
  <2>1. \A p \in In(c2s): ToFar(p)'
    BY <1>1, ToFarOn DEF IInv, TypeInv, WireInv
  <2>2. \A p \in In(s2c): ToMe(p)'
    BY <1>1, <1>2, ToMeOn DEF IInv, TypeInv, WireInv
  <2>3. ToFar(q)'
    BY <1>1 DEF ToFar
  <2> QED
    BY <1>1, <2>1, <2>2, <2>3 DEF WireInv
<1>7. PairInv' /\ PairedTogether'
  BY <1>1, <1>2 DEF IInv, PairInv, PairedTogether
<1> QED
  BY <1>3, <1>4, <1>5, <1>6, <1>7 DEF IInv

\* A REDY that opens with the session key of a far end that is not the stranger was
\* made by that far end, which had taken the client's voucher.
LEMMA GetsRedyKeeps ==
  ASSUME IInv, GetsRedy
  PROVE  IInv'
<1>1. /\ conn.pc = "redy" /\ conn' = [conn EXCEPT !.pc = TunnelUp]
      /\ UNCHANGED <<givenVars, tun, c2s, made, sealed>> /\ mode' = mode
      /\ IsSeq(s2c') /\ In(s2c') \subseteq In(s2c)
  BY WireFacts, SameMode DEF GetsRedy, Arrived, IInv, TypeInv
<1>2. TunnelUp = (IF mode = "pairing" THEN "challenge" ELSE "up")
  BY DEF TunnelUp
<1>3. conn' = [pc |-> TunnelUp, remote |-> conn.remote, short |-> conn.short, shared |-> conn.shared,
               ctr |-> conn.ctr, expected |-> conn.expected]
  BY <1>1 DEF IInv, TypeInv
<1>4. conn.remote # Stranger => Vouched
  <2>1. ASSUME conn.remote # Stranger
        PROVE  Vouched
    <3>1. PICK b: b = Head(s2c).box
      OBVIOUS
    <3>2. Mine /\ tun.shared = conn.shared /\ tun.shared # {} /\ Stranger \notin tun.shared
      BY <1>1, <2>1, Sessions DEF IInv, AgreeInv, KeyInv
    <3>3. b.keys = conn.shared /\ b.nonce = <<"CurveCP-server-R", Head(s2c).n>>
      BY <3>1 DEF GetsRedy, OpensRedy, Opens
    <3>4. ToMe(Head(s2c)) /\ Head(s2c).cmd = "REDY"
      BY WireFacts DEF GetsRedy, Arrived, IInv, TypeInv, WireInv
    <3>5. b \in sealed
      BY <3>1, <3>2, <3>3, <3>4 DEF ToMe
    <3>6. RedyOK(b) /\ b.nonce[1] = "CurveCP-server-R"
      BY <3>3, <3>5 DEF IInv, SealedInv, Apart
    <3> QED
      BY <3>2, <3>3, <3>6 DEF RedyOK, Current
  <2> QED
    BY <2>1
<1>5. TypeInv'
  BY <1>1, <1>3 DEF IInv, TypeInv
<1>6. KeyInv' /\ AgreeInv'
  BY <1>1, <1>2, <1>3, <1>4 DEF IInv, KeyInv, FarKey, AgreeInv, Vouched, Mine
<1>7. SealedInv' /\ NonceOnce'
  BY <1>1, <1>2, <1>3, SealedOn DEF IInv, TypeInv, SealedInv, NonceOnce, Vouched
<1>8. WireInv'
  <2>1. \A p \in In(c2s): ToFar(p)'
    BY <1>1, ToFarOn DEF IInv, TypeInv, WireInv
  <2>2. \A p \in In(s2c): ToMe(p)'
    BY <1>1, <1>2, <1>3, ToMeOn DEF IInv, TypeInv, WireInv
  <2> QED
    BY <1>1, <2>1, <2>2 DEF WireInv
<1>9. PairInv' /\ PairedTogether'
  BY <1>1, <1>2, <1>3 DEF IInv, PairInv, PairedTogether
<1> QED
  BY <1>5, <1>6, <1>7, <1>8, <1>9 DEF IInv

LEMMA TellsKeeps ==
  ASSUME IInv, Tells
  PROVE  IInv'
<1> PICK q: q = Packet("WELC", 0, NoBox, far)
  OBVIOUS
<1>1. /\ tun.pc = "tell" /\ tun' = [tun EXCEPT !.pc = "helo"]
      /\ UNCHANGED <<givenVars, conn, made, sealed>> /\ mode' = mode
      /\ IsSeq(c2s') /\ In(c2s') \subseteq In(c2s)
      /\ IsSeq(s2c') /\ In(s2c') = In(s2c) \cup {q} /\ q.cmd = "WELC" /\ q.clear = far
  BY WireFacts, SameMode DEF Tells, Arrived, Packet, IInv, TypeInv
<1>2. tun' = [pc |-> "helo", client |-> tun.client, peer |-> tun.peer, shared |-> tun.shared,
              ctr |-> tun.ctr, next |-> tun.next, props |-> tun.props]
  BY <1>1 DEF IInv, TypeInv
<1>3. TypeInv'
  BY <1>1, <1>2 DEF IInv, TypeInv
<1>4. KeyInv' /\ AgreeInv'
  BY <1>1, <1>2 DEF IInv, KeyInv, FarKey, AgreeInv, Serving, Vouched, Mine
<1>5. SealedInv' /\ NonceOnce'
  BY <1>1, <1>2, SealedOn DEF IInv, TypeInv, SealedInv, NonceOnce, Vouched
<1>6. WireInv'
  <2>1. \A p \in In(c2s): ToFar(p)'
    BY <1>1, <1>2, ToFarOn DEF IInv, TypeInv, WireInv
  <2>2. \A p \in In(s2c): ToMe(p)'
    BY <1>1, ToMeOn DEF IInv, TypeInv, WireInv
  <2>3. ToMe(q)'
    BY <1>1 DEF IInv, TypeInv, ToMe
  <2> QED
    BY <1>1, <2>1, <2>2, <2>3 DEF WireInv
<1>7. PairInv' /\ PairedTogether'
  BY <1>1, <1>2 DEF IInv, PairInv, PairedTogether, AgreeInv, Vouched
<1> QED
  BY <1>3, <1>4, <1>5, <1>6, <1>7 DEF IInv

\* The client reads a message, gives up or closes.
LEMMA ClientRestsKeeps ==
  ASSUME IInv, ReadsTunnel \/ GivesUp \/ Closes
  PROVE  IInv'
<1>1. /\ UNCHANGED <<givenVars, tun, c2s, made, sealed>> /\ mode' = mode
      /\ IsSeq(s2c') /\ In(s2c') \subseteq In(s2c)
      /\ conn' = conn \/ (conn' = [conn EXCEPT !.pc = "failed"] /\ conn.pc # "up")
         \/ (conn' = [conn EXCEPT !.pc = "closed"] /\ conn.pc = "up")
  BY WireFacts, SameMode DEF ReadsTunnel, ClientReads, Arrived, GivesUp, InSetup, Closes, IInv, TypeInv
<1>2. PICK to \in {conn.pc, "failed", "closed"}:
        /\ to = "closed" /\ conn.pc # "closed" => conn.pc = "up"
        /\ conn' = [pc |-> to, remote |-> conn.remote, short |-> conn.short, shared |-> conn.shared,
                    ctr |-> conn.ctr, expected |-> conn.expected]
  BY <1>1 DEF IInv, TypeInv
<1>3. TypeInv'
  BY <1>1, <1>2 DEF IInv, TypeInv
<1>4. KeyInv' /\ AgreeInv'
  BY <1>1, <1>2 DEF IInv, KeyInv, FarKey, AgreeInv, Vouched, Mine
<1>5. SealedInv' /\ NonceOnce'
  BY <1>1, <1>2, SealedOn DEF IInv, TypeInv, SealedInv, NonceOnce, Vouched
<1>6. WireInv'
  <2>1. \A p \in In(c2s): ToFar(p)'
    BY <1>1, ToFarOn DEF IInv, TypeInv, WireInv
  <2>2. \A p \in In(s2c): ToMe(p)'
    BY <1>1, <1>2, ToMeOn DEF IInv, TypeInv, WireInv
  <2> QED
    BY <1>1, <2>1, <2>2 DEF WireInv
<1>7. PairInv' /\ PairedTogether'
  BY <1>1, <1>2 DEF IInv, PairInv, PairedTogether
<1> QED
  BY <1>3, <1>4, <1>5, <1>6, <1>7 DEF IInv

LEMMA HangsUpKeeps ==
  ASSUME IInv, HangsUp
  PROVE  IInv'
<1>1. /\ tun' = [tun EXCEPT !.pc = "closed"]
      /\ UNCHANGED <<givenVars, conn, made, sealed>> /\ mode' = mode
      /\ IsSeq(c2s') /\ In(c2s') = {}
      /\ IsSeq(s2c') /\ In(s2c') \subseteq In(s2c)
  BY EmptyWire, SameMode DEF HangsUp, IInv, TypeInv
<1>2. tun' = [pc |-> "closed", client |-> tun.client, peer |-> tun.peer, shared |-> tun.shared,
              ctr |-> tun.ctr, next |-> tun.next, props |-> tun.props]
  BY <1>1 DEF IInv, TypeInv
<1>3. TypeInv'
  BY <1>1, <1>2 DEF IInv, TypeInv
<1>4. KeyInv' /\ AgreeInv'
  BY <1>1, <1>2 DEF IInv, KeyInv, FarKey, AgreeInv, Serving, Vouched, Mine
<1>5. SealedInv' /\ NonceOnce'
  BY <1>1, <1>2, SealedOn DEF IInv, TypeInv, SealedInv, NonceOnce, Vouched
<1>6. WireInv'
  <2>1. \A p \in In(s2c): ToMe(p)'
    BY <1>1, ToMeOn DEF IInv, TypeInv, WireInv
  <2> QED
    BY <1>1, <2>1 DEF WireInv
<1>7. PairInv' /\ PairedTogether'
  BY <1>1, <1>2 DEF IInv, PairInv, PairedTogether
<1> QED
  BY <1>3, <1>4, <1>5, <1>6, <1>7 DEF IInv

\* The next connection begins with no key of its own.
LEMMA GoesOnKeeps ==
  ASSUME IInv, GoesOn
  PROVE  IInv'
<1>1. /\ conn' = FreshConn /\ tun' = FreshTunnel /\ far' \in Ends
      /\ c2s' = <<>> /\ s2c' = <<>> /\ UNCHANGED <<typed, made, sealed>>
  BY DEF GoesOn
<1>2. TypeInv'
  BY <1>1, EmptyWire DEF IInv, TypeInv, FreshConn, FreshTunnel, Drawn
<1>3. KeyInv' /\ AgreeInv' /\ NonceOnce'
  BY <1>1 DEF IInv, KeyInv, AgreeInv, Mine, Serving, NonceOnce, FreshConn, FreshTunnel
<1>4. SealedInv'
  <2>1. ASSUME NEW b \in sealed
        PROVE  Apart(b)'
    <3>1. Apart(b) /\ ~Current(b)' /\ ~Mine' /\ conn'.short \notin b.keys
      BY <1>1, NotDrawn DEF IInv, SealedInv, Current, Mine, FreshConn, FreshTunnel
    <3>2. BoxOK(b)' /\ HeloOK(b)' /\ CookOK(b)' /\ VouchOK(b)'
      BY <1>1, <3>1 DEF Apart, BoxOK, HeloOK, CookOK, VouchOK
    <3>3. VochOK(b)' /\ RedyOK(b)' /\ ClientMesgOK(b)' /\ FarMesgOK(b)' /\ DataOK(b)'
      BY <1>1, <3>1 DEF Apart, VochOK, RedyOK, ClientMesgOK, FarMesgOK, DataOK
    <3> QED
      BY <3>2, <3>3 DEF Apart
  <2> QED
    BY <1>1, <2>1 DEF SealedInv
<1>5. WireInv' /\ PairInv' /\ PairedTogether'
  BY <1>1, EmptyWire DEF WireInv, PairInv, PairedTogether, FreshConn, FreshTunnel
<1> QED
  BY <1>2, <1>3, <1>4, <1>5 DEF IInv

-------------------------------------------------------------------------------
(* Steps of the handshake that seal *)

LEMMA OneMore ==
  ASSUME NonceOnce, NEW x, sealed' = sealed \cup {x},
         \A b \in sealed: b.keys = x.keys /\ b.nonce = x.nonce => b = x
  PROVE  NonceOnce'
BY DEF NonceOnce

\* The ephemeral key is new; the box under it always says the same.
LEMMA GetsWelcKeeps ==
  ASSUME IInv, GetsWelc
  PROVE  IInv'
<1> PICK remote: remote = Head(s2c).clear
  OBVIOUS
<1> PICK x: x = HeloBox(remote)
  OBVIOUS
<1> PICK q: q = Packet("HELO", conn.ctr, x, made + 1)
  OBVIOUS
<1>1. remote \in Ends \cup {Stranger} /\ Known(remote)
  <2>1. ToMe(Head(s2c)) /\ Head(s2c).cmd = "WELC"
    BY WireFacts DEF GetsWelc, Arrived, IInv, TypeInv, WireInv
  <2> QED
    BY <2>1 DEF ToMe, GetsWelc
<1>2. /\ conn.pc = "welc"
      /\ conn' = [conn EXCEPT !.pc = "cook", !.remote = remote, !.short = made + 1, !.ctr = @ + 1]
      /\ sealed' = sealed \cup {x} /\ made' = made + 1
      /\ UNCHANGED <<givenVars, tun>> /\ mode' = mode
      /\ IsSeq(s2c') /\ In(s2c') \subseteq In(s2c)
      /\ IsSeq(c2s') /\ In(c2s') = In(c2s) \cup {q}
  BY WireFacts, SameMode DEF GetsWelc, Arrived, ClientKey, IInv, TypeInv
<1>3. conn' = [pc |-> "cook", remote |-> remote, short |-> made + 1, shared |-> conn.shared,
               ctr |-> conn.ctr + 1, expected |-> conn.expected]
  BY <1>2 DEF IInv, TypeInv
<1>4. /\ x.keys = {made + 1, remote} /\ x.plain = <<"zeros">>
      /\ x.nonce[1] = "CurveCP-client-H"
      /\ x = [keys |-> x.keys, nonce |-> <<x.nonce[1], x.nonce[2]>>, plain |-> x.plain]
  BY BoxFacts DEF HeloBox, ClientKey
<1>5. q.cmd = "HELO" /\ q.clear = made + 1 /\ q.box = x
  BY DEF Packet
<1>6. made \in Nat /\ made' \in Nat /\ conn.short = 0 /\ conn.shared = {} /\ ~Mine /\ ~Mine'
  BY <1>2, <1>3, LongKeys DEF IInv, TypeInv, KeyInv, Mine
<1>7. TypeInv'
  <2>1. conn' = [pc |-> conn'.pc, remote |-> conn'.remote, short |-> conn'.short, shared |-> conn'.shared,
                 ctr |-> conn'.ctr, expected |-> conn'.expected]
    BY <1>3
  <2>2. /\ conn'.ctr \in Nat /\ conn'.short \in 0..made' /\ conn'.remote \in Ends \cup {Me, Stranger}
        /\ Drawn(conn'.shared, made') /\ Drawn(tun.shared, made')
    BY <1>1, <1>2, <1>3, DrawnOn DEF IInv, TypeInv
  <2> QED
    BY <1>2, <1>6, <2>1, <2>2 DEF IInv, TypeInv
<1>8. KeyInv'
  <2>1. \A k: FarKey(k) => FarKey(k)'
    BY <1>2, <1>3, <1>6 DEF FarKey
  <2>2. remote # Me /\ (accepts = {} \/ remote \in accepts)
    BY <1>1, LongKeys DEF Known
  <2>3. conn'.short # 0
    BY <1>3, <1>6
  <2> QED
    BY <1>2, <1>3, <1>6, <2>1, <2>2, <2>3 DEF IInv, KeyInv
<1>9. AgreeInv'
  BY <1>2, <1>3, <1>6 DEF IInv, AgreeInv
<1>10. SealedInv'
  <2>1. ASSUME NEW b \in sealed
        PROVE  Apart(b)'
    <3>1. Apart(b) /\ Current(b)' = Current(b) /\ conn'.short \notin b.keys
      BY <1>2, <1>3, NotDrawn DEF IInv, SealedInv, Current
    <3>2. BoxOK(b)' /\ HeloOK(b)' /\ CookOK(b)' /\ VouchOK(b)'
      BY <1>2, <1>6, <3>1 DEF Apart, BoxOK, Drawn, HeloOK, CookOK, VouchOK
    <3>3. VochOK(b)' /\ RedyOK(b)' /\ ClientMesgOK(b)' /\ FarMesgOK(b)' /\ DataOK(b)'
      BY <1>2, <1>3, <1>6, <3>1
         DEF Apart, VochOK, RedyOK, ClientMesgOK, FarMesgOK, DataOK
    <3> QED
      BY <3>2, <3>3 DEF Apart
  <2>2. Apart(x)'
    <3>1. BoxOK(x)' /\ HeloOK(x)'
      BY <1>1, <1>2, <1>3, <1>4, <1>6, LongKeys DEF BoxOK, Drawn, HeloOK
    <3> QED
      BY <1>4, <3>1
         DEF Apart, CookOK, VouchOK, VochOK, RedyOK, ClientMesgOK, FarMesgOK, DataOK
  <2> QED
    BY <1>2, <2>1, <2>2 DEF SealedInv
<1>11. NonceOnce'
  <2>1. \A b \in sealed: b.keys # x.keys
    BY <1>4, NotDrawn
  <2> QED
    BY <1>2, <2>1, OneMore DEF IInv
<1>12. WireInv'
  <2>1. \A p \in In(c2s): ToFar(p)'
    BY <1>2, <1>6, ToFarOn DEF IInv, WireInv
  <2>2. \A p \in In(s2c): ToMe(p)'
    BY <1>2, <1>3, <1>6, ToMeOn DEF IInv, WireInv
  <2>3. ToFar(q)'
    BY <1>2, <1>5, <1>6 DEF ToFar
  <2> QED
    BY <1>2, <2>1, <2>2, <2>3 DEF WireInv
<1>13. PairInv' /\ PairedTogether'
  BY <1>2, <1>3 DEF IInv, PairInv, PairedTogether
<1> QED
  BY <1>7, <1>8, <1>9, <1>10, <1>11, <1>12, <1>13 DEF IInv

LEMMA VoucherFacts ==
  /\ Voucher.keys = {Me, conn.remote} /\ Voucher.nonce = <<"CurveCPV", made + 1>>
  /\ Voucher.nonce[1] = "CurveCPV" /\ Voucher.nonce[2] = made + 1 /\ Voucher.plain = <<"vouch", conn.short>>
  /\ Voucher = [keys |-> Voucher.keys, nonce |-> <<Voucher.nonce[1], Voucher.nonce[2]>>,
                plain |-> Voucher.plain]
<1> PICK keys, n, plain: keys = {Me, conn.remote} /\ n = made + 1 /\ plain = <<"vouch", conn.short>>
  OBVIOUS
<1>1. Voucher = Box(keys, "CurveCPV", n, plain)
  BY DEF Voucher
<1> QED
  BY <1>1, BoxFacts

LEMMA VochFacts ==
  ASSUME NEW shared, NEW x, x = VochBox(shared)
  PROVE  /\ x.keys = shared /\ x.nonce = <<"CurveCP-client-I", conn.ctr>>
         /\ x.nonce[1] = "CurveCP-client-I" /\ x.plain[1] = "voch"
         /\ x.plain[2] = Me /\ x.plain[3] = Voucher /\ x.plain[4] = Trailer(mode)
         /\ x = [keys |-> x.keys, nonce |-> <<x.nonce[1], x.nonce[2]>>, plain |-> x.plain]
<1> PICK n, plain: n = conn.ctr /\ plain = <<"voch", Me, Voucher, Trailer(mode)>>
  OBVIOUS
<1>1. x = Box(shared, "CurveCP-client-I", n, plain)
  BY DEF VochBox
<1> QED
  BY <1>1, BoxFacts

\* Unless the far end is the stranger, the COOK that opens was made for this
\* ephemeral key, and so is what it brings.  The nonce of the voucher is new; the
\* session key has the ephemeral key of this connection in it.
LEMMA GetsCookKeeps ==
  ASSUME IInv, GetsCook
  PROVE  IInv'
<1>0. PICK cook, k, shared, v, x, q:
        /\ cook = Head(s2c).box /\ k = cook.plain[2] /\ shared = {conn.short, k}
        /\ v = Voucher /\ x = VochBox(shared) /\ q = Packet("VOCH", conn.ctr, x, cook.plain[3])
  OBVIOUS
<1>1. /\ conn.pc = "cook"
      /\ conn' = [conn EXCEPT !.pc = "redy", !.shared = shared, !.ctr = @ + 1]
      /\ sealed' = sealed \cup {v, x} /\ made' = made + 1
      /\ UNCHANGED <<givenVars, tun>> /\ mode' = mode
      /\ IsSeq(s2c') /\ In(s2c') \subseteq In(s2c)
      /\ IsSeq(c2s') /\ In(c2s') = In(c2s) \cup {q}
  <2>1. s2c # <<>> /\ s2c' = Tail(s2c) /\ c2s' = Append(c2s, q)
    BY <1>0 DEF GetsCook, Arrived
  <2>2. IsSeq(c2s) /\ IsSeq(s2c)
    BY DEF IInv, TypeInv
  <2>3. /\ IsSeq(s2c') /\ In(s2c') \subseteq In(s2c)
        /\ IsSeq(c2s') /\ In(c2s') = In(c2s) \cup {q}
    BY <2>1, <2>2, WireFacts
  <2>4. /\ conn.pc = "cook"
        /\ conn' = [conn EXCEPT !.pc = "redy", !.shared = shared, !.ctr = @ + 1]
        /\ sealed' = sealed \cup {v, x} /\ made' = made + 1
        /\ UNCHANGED <<givenVars, tun>>
    BY <1>0 DEF GetsCook
  <2> QED
    BY <2>3, <2>4, SameMode
<1>2. conn' = [pc |-> "redy", remote |-> conn.remote, short |-> conn.short, shared |-> shared,
               ctr |-> conn.ctr + 1, expected |-> conn.expected]
  BY <1>1 DEF IInv, TypeInv
<1>3. /\ made \in Nat /\ made' \in Nat /\ conn.short \in 1..made /\ conn.shared = {}
      /\ conn.remote \in Ends \cup {Stranger}
  BY <1>1 DEF IInv, TypeInv, KeyInv
<1>4. /\ k \in (1..made) \cup {Stranger}
      /\ conn.remote # Stranger => Mine /\ tun.shared = shared
  <2>1. ToMe(Head(s2c)) /\ Head(s2c).cmd = "COOK"
    BY WireFacts DEF GetsCook, Arrived, IInv, TypeInv, WireInv
  <2>2. cook.keys = {conn.short, conn.remote} /\ cook.nonce = <<"CurveCPK", Head(s2c).n>>
    BY <1>0 DEF GetsCook, OpensCook, Opens
  <2>3. cook \in sealed => CookOK(cook) /\ cook.nonce[1] = "CurveCPK"
    BY <2>2 DEF IInv, SealedInv, Apart
  <2>4. k \in (1..made) \cup {Stranger}
    BY <1>0, <2>1, <2>3 DEF ToMe, CookOK
  <2>5. conn.remote # Stranger => cook \in sealed
    BY <1>0, <1>3, <2>1, <2>2, LongKeys DEF ToMe
  <2> QED
    BY <1>0, <2>2, <2>3, <2>4, <2>5 DEF CookOK
<1>5. /\ x.keys = shared /\ x.nonce = <<"CurveCP-client-I", conn.ctr>>
      /\ x.nonce[1] = "CurveCP-client-I" /\ x.plain[1] = "voch"
      /\ x.plain[2] = Me /\ x.plain[3] = v /\ x.plain[4] = Trailer(mode)
      /\ x = [keys |-> x.keys, nonce |-> <<x.nonce[1], x.nonce[2]>>, plain |-> x.plain]
  <2>1. x = VochBox(shared) /\ v = Voucher
    BY <1>0
  <2> QED
    BY <2>1, VochFacts
<1>6. /\ v.keys = {Me, conn.remote} /\ v.nonce = <<"CurveCPV", made + 1>>
      /\ v.nonce[1] = "CurveCPV" /\ v.nonce[2] = made + 1 /\ v.plain = <<"vouch", conn.short>>
      /\ v = [keys |-> v.keys, nonce |-> <<v.nonce[1], v.nonce[2]>>, plain |-> v.plain]
  BY <1>0, VoucherFacts
<1>7. q.cmd = "VOCH" /\ q.box = x
  BY <1>0 DEF Packet
<1>8. Drawn(x.keys, made') /\ Drawn(v.keys, made')
  <2>1. conn.short \in 1..made' /\ k \in (1..made') \cup {Stranger}
    BY <1>1, <1>3, <1>4
  <2>2. Drawn(x.keys, made')
    <3>1. x.keys = {conn.short, k}
      BY <1>0, <1>5
    <3> QED
      BY <2>1, <3>1, LongKeys DEF Drawn
  <2>3. Drawn(v.keys, made')
    BY <1>3, <1>6, LongKeys DEF Drawn
  <2> QED
    BY <2>2, <2>3
<1>9. TypeInv'
  <2>1. conn' = [pc |-> conn'.pc, remote |-> conn'.remote, short |-> conn'.short, shared |-> conn'.shared,
                 ctr |-> conn'.ctr, expected |-> conn'.expected]
    BY <1>2
  <2>2. conn'.ctr \in Nat /\ conn'.short \in 0..made' /\ conn'.remote \in Ends \cup {Me, Stranger}
    BY <1>1, <1>2, <1>3 DEF IInv, TypeInv
  <2>3. Drawn(conn'.shared, made')
    BY <1>2, <1>5, <1>8
  <2>4. Drawn(tun.shared, made')
    BY <1>1, <1>3, DrawnOn DEF IInv, TypeInv
  <2> QED
    BY <1>1, <1>3, <2>1, <2>2, <2>3, <2>4 DEF IInv, TypeInv
<1>10. Mine' = Mine /\ Vouched' = Vouched
  BY <1>1, <1>2 DEF Mine, Vouched
<1>11. KeyInv'
  <2>1. \A j: FarKey(j) => FarKey(j)'
    BY <1>1, <1>2, <1>3 DEF FarKey
  <2>2. conn.short \in shared
    BY <1>0
  <2> QED
    BY <1>1, <1>2, <1>3, <1>10, <2>1, <2>2 DEF IInv, KeyInv
<1>12. AgreeInv'
  <2>1. ~(tun.pc \in Serving /\ tun.peer = Me)
    BY <1>3 DEF IInv, AgreeInv, KeyInv, Serving
  <2> QED
    BY <1>1, <1>2, <1>4, <1>10, <2>1 DEF IInv, AgreeInv
<1>13. SealedInv'
  <2>1. ASSUME NEW b \in sealed
        PROVE  Apart(b)'
    <3>1. Apart(b) /\ Current(b)' = Current(b) /\ (Current(b) /\ Mine => conn.short \in b.keys)
      BY <1>1 DEF IInv, SealedInv, Current, KeyInv, FarKey, Mine
    <3>2. BoxOK(b)' /\ VouchOK(b)'
      BY <1>1, <1>3, <3>1 DEF Apart, BoxOK, Drawn, VouchOK
    <3>3. HeloOK(b)' /\ CookOK(b)' /\ DataOK(b)'
      BY <1>1, <1>2, <1>3, <1>10, <3>1 DEF Apart, HeloOK, CookOK, DataOK
    <3>4. VochOK(b)' /\ RedyOK(b)'
      BY <1>1, <1>2, <1>10, <3>1 DEF Apart, VochOK, RedyOK
    <3>5. ClientMesgOK(b)'
      BY <1>1, <1>2, <1>10, <3>1 DEF Apart, ClientMesgOK
    <3>6. FarMesgOK(b)'
      <4>1. HerChallenge' = HerChallenge
        BY <1>1 DEF HerChallenge, HerMask, DeviceX
      <4> QED
        BY <1>1, <1>2, <1>10, <3>1, <4>1 DEF Apart, FarMesgOK
    <3> QED
      BY <3>2, <3>3, <3>4, <3>5, <3>6 DEF Apart
  <2>2. Apart(v)'
    <3>1. BoxOK(v)' /\ VouchOK(v)'
      BY <1>1, <1>3, <1>6, <1>8 DEF BoxOK, VouchOK
    <3> QED
      BY <1>6, <3>1 DEF Apart, HeloOK, CookOK, VochOK, RedyOK, ClientMesgOK, FarMesgOK, DataOK
  <2>3. Apart(x)'
    <3>1. Current(x)' => Mine' /\ tun'.shared = conn'.shared
      <4>1. tun.shared = shared => Mine
        BY <1>0, <1>3, Sessions
      <4>2. Current(x)' => tun.shared = shared
        BY <1>1, <1>5 DEF Current
      <4> QED
        BY <1>1, <1>2, <1>10, <4>1, <4>2
    <3>2. BoxOK(x)' /\ VochOK(x)'
      BY <1>1, <1>2, <1>5, <1>8, <3>1 DEF BoxOK, VochOK
    <3> QED
      BY <1>5, <3>2 DEF Apart, HeloOK, CookOK, VouchOK, RedyOK, ClientMesgOK, FarMesgOK, DataOK
  <2> QED
    BY <1>1, <2>1, <2>2, <2>3 DEF SealedInv
<1>14. NonceOnce'
  <2>1. \A b \in sealed: ~(b.keys = x.keys /\ b.nonce = x.nonce)
    <3>1. conn.pc = "cook" /\ conn.short \in x.keys
      BY <1>0, <1>1, <1>5
    <3>2. \A b \in sealed: VochOK(b)
      BY DEF IInv, SealedInv, Apart
    <3> QED
      BY <1>5, <3>1, <3>2 DEF VochOK
  <2>2. \A b \in sealed: ~(b.nonce = v.nonce)
    BY <1>3, <1>6 DEF IInv, SealedInv, Apart, VouchOK
  <2>3. x.nonce # v.nonce
    BY <1>5, <1>6
  <2> QED
    <3>1. ASSUME NEW b \in sealed', NEW d \in sealed', b.keys = d.keys, b.nonce = d.nonce
          PROVE  b = d
      <4>1. (b \in sealed \/ b = v \/ b = x) /\ (d \in sealed \/ d = v \/ d = x)
        BY <1>1
      <4>2. CASE b \in sealed /\ d \in sealed
        BY <3>1, <4>2 DEF IInv, NonceOnce
      <4> QED
        BY <2>1, <2>2, <2>3, <3>1, <4>1, <4>2
    <3> QED
      BY <3>1 DEF NonceOnce
<1>15. WireInv'
  <2>1. \A p \in In(c2s): ToFar(p)'
    BY <1>1, <1>3, ToFarOn DEF IInv, WireInv
  <2>2. \A p \in In(s2c): ToMe(p)'
    BY <1>1, <1>2, <1>3, ToMeOn DEF IInv, WireInv
  <2>3. ToFar(q)'
    BY <1>1, <1>7 DEF ToFar
  <2> QED
    BY <1>1, <2>1, <2>2, <2>3 DEF WireInv
<1>16. PairInv' /\ PairedTogether'
  BY <1>1, <1>2 DEF IInv, PairInv, PairedTogether
<1> QED
  BY <1>9, <1>11, <1>12, <1>13, <1>14, <1>15, <1>16 DEF IInv

\* The far end answers one HELO in a connection, with a new key of its own.  One
\* with the client's ephemeral key that is not the stranger's own was made for it.
LEMMA CooksKeeps ==
  ASSUME IInv, Cooks
  PROVE  IInv'
<1> PICK c, helo: c = Head(c2s).clear /\ helo = Head(c2s).box
  OBVIOUS
<1> PICK k, shared: k = made + 1 /\ shared = {c, k}
  OBVIOUS
<1> PICK x: x = CookBox(c)
  OBVIOUS
<1> PICK q: q = Packet("COOK", k, x, 0)
  OBVIOUS
<1>1. /\ tun.pc = "helo"
      /\ tun' = [tun EXCEPT !.pc = "voch", !.client = c, !.next = Head(c2s).n + 1, !.shared = shared]
      /\ sealed' = sealed \cup {x} /\ made' = k
      /\ UNCHANGED <<givenVars, conn>> /\ mode' = mode
      /\ IsSeq(c2s') /\ In(c2s') \subseteq In(c2s)
      /\ IsSeq(s2c') /\ In(s2c') = In(s2c) \cup {q}
  BY WireFacts, SameMode DEF Cooks, Arrived, IInv, TypeInv
<1>2. tun' = [pc |-> "voch", client |-> c, peer |-> tun.peer, shared |-> shared,
              ctr |-> tun.ctr, next |-> Head(c2s).n + 1, props |-> tun.props]
  BY <1>1 DEF IInv, TypeInv
<1>3. made \in Nat /\ k \in Nat /\ k = made + 1 /\ conn.short \in 0..made /\ tun.shared = {}
  BY <1>1 DEF IInv, TypeInv, KeyInv
<1>4. /\ c \in (1..made) \cup {Stranger}
      /\ c = conn.short => conn.remote = far
  <2>1. ToFar(Head(c2s)) /\ Head(c2s).cmd = "HELO"
    BY WireFacts DEF Cooks, Arrived, IInv, TypeInv, WireInv
  <2>2. helo.keys = {c, far} /\ helo.nonce = <<"CurveCP-client-H", Head(c2s).n>>
    BY DEF Cooks, OpensHelo, Opens
  <2>3. far \notin Nat /\ far # Stranger /\ conn.remote \notin Nat /\ conn.short \in Nat /\ conn.short # Stranger
    BY <1>3, LongKeys DEF IInv, TypeInv
  <2>4. ASSUME c = conn.short
        PROVE  conn.remote = far
    <3>1. helo \in sealed
      BY <2>1, <2>2, <2>3, <2>4 DEF ToFar
    <3>2. HeloOK(helo) /\ helo.nonce[1] = "CurveCP-client-H"
      BY <2>2, <3>1 DEF IInv, SealedInv, Apart
    <3>3. {conn.short, far} = {conn.short, conn.remote}
      BY <2>2, <2>4, <3>2 DEF HeloOK
    <3> QED
      BY <2>3, <3>3
  <2> QED
    BY <2>1, <2>4 DEF ToFar
<1>5. /\ x.keys = {c, far} /\ x.nonce = <<"CurveCPK", k>>
      /\ x.nonce[1] = "CurveCPK" /\ x.nonce[2] = k /\ x.plain[1] = "cook" /\ x.plain[2] = k
      /\ x = [keys |-> x.keys, nonce |-> <<x.nonce[1], x.nonce[2]>>, plain |-> x.plain]
  <2> PICK keys, plain: keys = {c, far} /\ plain = <<"cook", k, Cookie>>
    OBVIOUS
  <2>1. x = Box(keys, "CurveCPK", k, plain)
    BY DEF CookBox
  <2>2. /\ x.keys = keys /\ x.nonce = <<"CurveCPK", k>> /\ x.plain = plain
        /\ x.nonce[1] = "CurveCPK" /\ x.nonce[2] = k
        /\ x = [keys |-> x.keys, nonce |-> <<x.nonce[1], x.nonce[2]>>, plain |-> x.plain]
    BY <2>1, BoxFacts
  <2> QED
    BY <2>2
<1>6. q.cmd = "COOK" /\ q.box = x
  BY DEF Packet
<1>7. Drawn(x.keys, made') /\ Drawn(shared, made')
  <2>1. c \in (1..made') \cup {Stranger} /\ k \in 1..made'
    BY <1>1, <1>3, <1>4
  <2> QED
    BY <1>5, <2>1, LongKeys DEF Drawn, IInv, TypeInv
<1>8. TypeInv'
  <2>1. tun' = [pc |-> tun'.pc, client |-> tun'.client, peer |-> tun'.peer, shared |-> tun'.shared,
                ctr |-> tun'.ctr, next |-> tun'.next, props |-> tun'.props]
    BY <1>2
  <2>2. tun'.ctr \in Nat /\ made' \in Nat /\ conn.short \in 0..made' /\ tun'.client \in (0..made') \cup {Stranger}
    BY <1>1, <1>2, <1>3, <1>4 DEF IInv, TypeInv
  <2>3. Drawn(conn.shared, made') /\ Drawn(tun'.shared, made')
    BY <1>1, <1>2, <1>3, <1>7, DrawnOn DEF IInv, TypeInv
  <2> QED
    BY <1>1, <2>1, <2>2, <2>3 DEF IInv, TypeInv
<1>9. ~Vouched /\ (conn.pc \in {"redy", "up", "challenge", "result", "paired"} => conn.remote = Stranger)
  <2>1. ~Vouched
    BY <1>1 DEF Vouched
  <2> QED
    BY <1>3, <2>1 DEF IInv, AgreeInv, KeyInv
<1>10. FarKey(k)'
  BY <1>1, <1>2, <1>3, <1>4, LongKeys DEF FarKey
<1>11. KeyInv' /\ AgreeInv'
  <2>1. Mine' => conn.remote = far
    BY <1>1, <1>2, <1>4 DEF Mine
  <2> QED
    BY <1>1, <1>2, <1>9, <1>10, <2>1 DEF IInv, KeyInv, AgreeInv, Serving
<1>12. SealedInv'
  <2>1. ASSUME NEW b \in sealed
        PROVE  Apart(b)'
    <3>1. Apart(b) /\ ~Current(b) /\ ~Current(b)'
      BY <1>1, <1>2, <1>3, NotDrawn DEF IInv, SealedInv, Current
    <3>2. BoxOK(b)' /\ HeloOK(b)' /\ VouchOK(b)' /\ DataOK(b)'
      BY <1>1, <1>3, <3>1 DEF Apart, BoxOK, Drawn, HeloOK, VouchOK, DataOK
    <3>3. CookOK(b)'
      BY <1>1, <1>3, <3>1 DEF Apart, CookOK
    <3>4. VochOK(b)' /\ RedyOK(b)' /\ ClientMesgOK(b)' /\ FarMesgOK(b)'
      BY <1>1, <3>1 DEF Apart, VochOK, RedyOK, ClientMesgOK, FarMesgOK
    <3> QED
      BY <3>2, <3>3, <3>4 DEF Apart
  <2>2. Apart(x)'
    <3>1. conn.short \in x.keys => c = conn.short /\ conn.short # 0
      BY <1>3, <1>4, <1>5, LongKeys DEF IInv, TypeInv
    <3>2. k \in 1..made'
      BY <1>1, <1>3
    <3>3. BoxOK(x)' /\ CookOK(x)'
      BY <1>1, <1>2, <1>5, <1>7, <3>1, <3>2 DEF BoxOK, CookOK, Mine
    <3> QED
      BY <1>5, <3>3 DEF Apart, HeloOK, VouchOK, VochOK, RedyOK, ClientMesgOK, FarMesgOK, DataOK
  <2> QED
    BY <1>1, <2>1, <2>2 DEF SealedInv
<1>13. NonceOnce'
  <2>1. \A b \in sealed: b.nonce # x.nonce
    BY <1>3, <1>5 DEF IInv, SealedInv, Apart, CookOK
  <2> QED
    BY <1>1, <2>1, OneMore DEF IInv
<1>14. WireInv'
  <2>1. \A p \in In(c2s): ToFar(p)'
    BY <1>1, <1>3 DEF IInv, WireInv, ToFar
  <2>2. \A p \in In(s2c): ToMe(p)'
    BY <1>1, <1>3, ToMeOn DEF IInv, WireInv
  <2>3. ToMe(q)'
    BY <1>1, <1>6 DEF ToMe
  <2> QED
    BY <1>1, <2>1, <2>2, <2>3 DEF WireInv
<1>15. PairInv' /\ PairedTogether'
  BY <1>1, <1>2, <1>9 DEF IInv, PairInv, PairedTogether
<1> QED
  BY <1>8, <1>11, <1>12, <1>13, <1>14, <1>15 DEF IInv

\* Who can seal with the session key of a far end that is in this client's
\* connection is the client; and who has the client's voucher for the key it
\* opened with is the client in this connection.
LEMMA ReadiesKeeps ==
  ASSUME IInv, Readies
  PROVE  IInv'
<1> PICK b: b = Head(c2s).box
  OBVIOUS
<1> PICK peer, vouch, props: peer = b.plain[2] /\ vouch = b.plain[3] /\ props = b.plain[4]
  OBVIOUS
<1> PICK x: x = RedyBox
  OBVIOUS
<1> PICK q: q = Packet("REDY", tun.ctr, x, 0)
  OBVIOUS
<1>1. /\ tun.pc = "voch"
      /\ tun' = [tun EXCEPT !.pc = TunnelUp, !.peer = peer, !.props = props,
                            !.next = Head(c2s).n + 1, !.ctr = @ + 1]
      /\ sealed' = sealed \cup {x}
      /\ UNCHANGED <<givenVars, conn, made>> /\ mode' = mode
      /\ IsSeq(c2s') /\ In(c2s') \subseteq In(c2s)
      /\ IsSeq(s2c') /\ In(s2c') = In(s2c) \cup {q}
  BY WireFacts, SameMode DEF Readies, Arrived, IInv, TypeInv
<1>2. TunnelUp = (IF mode = "pairing" THEN "challenge" ELSE "up")
  BY DEF TunnelUp
<1>3. tun' = [pc |-> TunnelUp, client |-> tun.client, peer |-> peer, shared |-> tun.shared,
              ctr |-> tun.ctr + 1, next |-> Head(c2s).n + 1, props |-> props]
  BY <1>1 DEF IInv, TypeInv
<1>4. PICK k: FarKey(k)
  BY <1>1 DEF IInv, KeyInv
<1>5. tun.shared # {} /\ tun.client \in tun.shared /\ k \in Nat /\ k # Stranger /\ k # conn.short
  BY <1>4, LongKeys DEF FarKey
<1>6. /\ b.keys = tun.shared /\ b.nonce = <<"CurveCP-client-I", Head(c2s).n>>
      /\ b \in sealed \/ (Stranger \in b.keys /\ (vouch \in sealed \/ Stranger \in vouch.keys))
  <2>1. ToFar(Head(c2s)) /\ Head(c2s).cmd = "VOCH"
    BY WireFacts DEF Readies, Arrived, IInv, TypeInv, WireInv
  <2> QED
    BY <2>1 DEF Readies, OpensVoch, Opens, ToFar
<1>7. b \in sealed => VochOK(b) /\ b.nonce[1] = "CurveCP-client-I" /\ Current(b)
  BY <1>5, <1>6 DEF IInv, SealedInv, Apart, Current
<1>8. Mine => peer = Me /\ props = Trailer(mode)
  <2>1. ASSUME Mine
        PROVE  peer = Me /\ props = Trailer(mode)
    <3>1. Stranger \notin b.keys /\ conn.short \in b.keys
      BY <1>5, <1>6, <2>1, Sessions DEF Mine
    <3> QED
      BY <1>6, <1>7, <3>1 DEF VochOK
  <2> QED
    BY <2>1
<1>9. peer = Me => Mine /\ tun.shared = conn.shared
  <2>1. ASSUME peer = Me
        PROVE  Mine /\ tun.shared = conn.shared
    <3>1. vouch.keys = {Me, far} /\ vouch.nonce = <<"CurveCPV", vouch.nonce[2]>> /\ vouch.plain = <<"vouch", tun.client>>
      BY <2>1 DEF Readies, Vouches, Opens
    <3>2. Stranger \notin vouch.keys
      BY <3>1, LongKeys DEF IInv, TypeInv
    <3>3. vouch \in sealed
      BY <1>6, <1>7, <3>2 DEF VochOK
    <3>4. VouchOK(vouch) /\ vouch.nonce[1] = "CurveCPV"
      BY <3>1, <3>3 DEF IInv, SealedInv, Apart
    <3>5. PICK n \in 1..made: vouch.plain = <<"vouch", n>>
      BY <3>4 DEF VouchOK
    <3>6. tun.client = n
      BY <3>1, <3>5
    <3>7. Stranger \notin b.keys
      BY <1>4, <1>5, <1>6, <3>6, LongKeys DEF FarKey
    <3> QED
      BY <1>6, <1>7, <3>7 DEF VochOK
  <2> QED
    BY <2>1
<1>10. /\ x.keys = tun.shared /\ x.nonce = <<"CurveCP-server-R", tun.ctr>> /\ x.plain = <<"ready">>
       /\ x.nonce[1] = "CurveCP-server-R" /\ x.nonce[2] = tun.ctr
       /\ x = [keys |-> x.keys, nonce |-> <<x.nonce[1], x.nonce[2]>>, plain |-> x.plain]
  BY BoxFacts DEF RedyBox
<1>11. q.cmd = "REDY" /\ q.box = x
  BY DEF Packet
<1>12. TypeInv'
  <2>1. tun' = [pc |-> tun'.pc, client |-> tun'.client, peer |-> tun'.peer, shared |-> tun'.shared,
                ctr |-> tun'.ctr, next |-> tun'.next, props |-> tun'.props]
    BY <1>3
  <2>2. tun'.ctr \in Nat /\ tun'.shared = tun.shared /\ tun'.client = tun.client
    BY <1>3 DEF IInv, TypeInv
  <2> QED
    BY <1>1, <2>1, <2>2 DEF IInv, TypeInv
<1>13. Mine' = Mine /\ ~Vouched /\ (Mine => Vouched')
  BY <1>1, <1>2, <1>3, <1>8 DEF Mine, Vouched
<1>14. KeyInv' /\ AgreeInv'
  <2>1. FarKey(k)'
    BY <1>1, <1>3, <1>4 DEF FarKey
  <2>2. KeyInv'
    BY <1>1, <1>2, <1>3, <1>5, <1>13, <2>1 DEF IInv, KeyInv
  <2>3. AgreeInv'
    BY <1>1, <1>2, <1>3, <1>9, <1>13 DEF IInv, AgreeInv
  <2> QED
    BY <2>2, <2>3
<1>15. SealedInv'
  <2>1. \A d \in sealed: Apart(d)'
    <3>1. made \in Nat /\ conn.ctr \in Nat /\ tun'.ctr \in Nat /\ tun.ctr <= tun'.ctr
      BY <1>3 DEF IInv, TypeInv
    <3>2. tun'.client = tun.client /\ tun'.shared = tun.shared
      BY <1>3
    <3> QED
      BY <1>1, <1>13, <3>1, <3>2, SealedOn DEF IInv
  <2>2. Apart(x)'
    <3>1. BoxOK(x)' /\ RedyOK(x)'
      BY <1>1, <1>10, <1>13 DEF BoxOK, RedyOK, IInv, TypeInv
    <3> QED
      BY <1>10, <3>1 DEF Apart, HeloOK, CookOK, VouchOK, VochOK, ClientMesgOK, FarMesgOK, DataOK
  <2> QED
    BY <1>1, <2>1, <2>2 DEF SealedInv
<1>16. NonceOnce'
  <2>1. ASSUME NEW d \in sealed, d.keys = x.keys, d.nonce = x.nonce
        PROVE  d = x
    BY <1>10, <2>1 DEF IInv, SealedInv, Apart, BoxOK, RedyOK
  <2> QED
    BY <1>1, <2>1, OneMore DEF IInv
<1>17. WireInv'
  <2>1. made \in Nat /\ tun'.shared = tun.shared
    BY <1>3 DEF IInv, TypeInv
  <2>2. \A p \in In(c2s): ToFar(p)'
    BY <1>1, <2>1, ToFarOn DEF IInv, WireInv
  <2>3. \A p \in In(s2c): ToMe(p)'
    BY <1>1, <2>1, ToMeOn DEF IInv, WireInv
  <2>4. ToMe(q)'
    BY <1>1, <1>11 DEF ToMe
  <2> QED
    BY <1>1, <2>2, <2>3, <2>4 DEF WireInv
<1>18. PairInv' /\ PairedTogether'
  BY <1>1, <1>2, <1>3, <1>13 DEF IInv, PairInv, PairedTogether, AgreeInv
<1> QED
  BY <1>12, <1>14, <1>15, <1>16, <1>17, <1>18 DEF IInv

-------------------------------------------------------------------------------
(* Messages *)

\* The client seals under the key of this connection, with a number of its own.
LEMMA ClientSeals ==
  ASSUME IInv, conn.pc \in {"up", "challenge"}, NEW data, ClientSends(data),
         data[1] \in {"data", "response"},
         data[1] = "response" => IsResponse(data, conn.shared),
         Mine /\ conn.shared = tun.shared /\ mode = "pairing" => data = MyResponse,
         mode # "pairing" => data[1] = "data",
         conn'.shared = conn.shared, conn'.short = conn.short, conn'.remote = conn.remote,
         conn'.ctr = conn.ctr + 1, conn'.pc \notin {"cook", "redy"}, UNCHANGED <<givenVars, tun, made>>
  PROVE  /\ SealedInv' /\ NonceOnce' /\ IsSeq(c2s')
         /\ \E q: q.cmd = "MESG" /\ q.box \in sealed' /\ In(c2s') = In(c2s) \cup {q}
<1> PICK n: n = conn.ctr
  OBVIOUS
<1> PICK x: x = MesgBox(conn.shared, "client", n, data)
  OBVIOUS
<1> PICK q: q = Packet("MESG", n, x, 0)
  OBVIOUS
<1>1. sealed' = sealed \cup {x} /\ c2s' = Append(c2s, q)
  BY DEF ClientSends
<1>2. /\ x.keys = conn.shared /\ x.nonce = <<"CurveCP-client-M", n>> /\ x.plain = <<"mesg", data>>
      /\ x.nonce[1] = "CurveCP-client-M" /\ x.nonce[2] = n /\ x.plain[1] = "mesg" /\ x.plain[2] = data
      /\ x = [keys |-> x.keys, nonce |-> <<x.nonce[1], x.nonce[2]>>, plain |-> x.plain]
  BY BoxFacts DEF MesgBox, MesgLabel
<1>3. q.cmd = "MESG" /\ q.box = x
  BY DEF Packet
<1>4. IsSeq(c2s') /\ In(c2s') = In(c2s) \cup {q}
  BY <1>1, WireFacts DEF IInv, TypeInv
<1>5. n \in Nat /\ conn'.ctr = n + 1 /\ mode' = mode /\ Mine' = Mine /\ MyResponse' = MyResponse
  BY SameMode DEF IInv, TypeInv, Mine, MyResponse, RespX, HerMask, DeviceX
<1>6. conn.short # 0 /\ conn.short \in conn.shared
  BY DEF IInv, KeyInv
<1>7. SealedInv'
  <2>1. \A b \in sealed: Apart(b)'
    <3>1. made \in Nat /\ conn'.ctr \in Nat /\ conn.ctr <= conn'.ctr /\ tun.ctr \in Nat /\ Vouched' = Vouched
      BY <1>5 DEF IInv, TypeInv, Vouched
    <3> QED
      BY <1>1, <3>1, SealedOn DEF IInv
  <2>2. BoxOK(x)'
    BY <1>2 DEF IInv, TypeInv, BoxOK
  <2>3. ClientMesgOK(x)'
    <3>1. Current(x)' => conn.shared = tun.shared /\ Mine
      BY <1>2, <1>6, Sessions DEF Current
    <3> QED
      BY <1>2, <1>5, <3>1 DEF ClientMesgOK
  <2>4. DataOK(x)'
    BY <1>2 DEF DataOK, Mesg
  <2> QED
    BY <1>1, <1>2, <2>1, <2>2, <2>3, <2>4
       DEF SealedInv, Apart, HeloOK, CookOK, VouchOK, VochOK, RedyOK, FarMesgOK
<1>8. NonceOnce'
  <2>1. \A b \in sealed: ~(b.keys = x.keys /\ b.nonce = x.nonce)
    BY <1>2, <1>5, <1>6 DEF IInv, SealedInv, Apart, ClientMesgOK
  <2> QED
    BY <1>1, <2>1, OneMore DEF IInv
<1> QED
  BY <1>1, <1>3, <1>4, <1>7, <1>8

\* And so does the far end, with other nonces.
LEMMA FarSeals ==
  ASSUME IInv, tun.pc \in {"up", "challenge", "response"}, NEW data, FarSends(data),
         data[1] \in {"data", "challenge", "result"},
         data[1] = "challenge" => IsChallenge(data),
         data[1] = "result" => Stranger \notin tun.shared,
         Mine /\ mode = "pairing" =>
           data = HerChallenge \/ (data[1] = "result" /\ tun'.pc = "verified" /\ typed = CodeOf[far]),
         tun'.shared = tun.shared, tun'.client = tun.client, tun'.ctr = tun.ctr + 1,
         Vouched => Vouched', UNCHANGED <<givenVars, conn, made>>
  PROVE  /\ SealedInv' /\ NonceOnce' /\ IsSeq(s2c')
         /\ \E q: q.cmd = "MESG" /\ q.box \in sealed' /\ In(s2c') = In(s2c) \cup {q}
<1> PICK n: n = tun.ctr
  OBVIOUS
<1> PICK x: x = MesgBox(tun.shared, "server", n, data)
  OBVIOUS
<1> PICK q: q = Packet("MESG", n, x, 0)
  OBVIOUS
<1>1. sealed' = sealed \cup {x} /\ s2c' = Append(s2c, q)
  BY DEF FarSends
<1>2. /\ x.keys = tun.shared /\ x.nonce = <<"CurveCP-server-M", n>> /\ x.plain = <<"mesg", data>>
      /\ x.nonce[1] = "CurveCP-server-M" /\ x.nonce[2] = n /\ x.plain[1] = "mesg" /\ x.plain[2] = data
      /\ x = [keys |-> x.keys, nonce |-> <<x.nonce[1], x.nonce[2]>>, plain |-> x.plain]
  BY BoxFacts DEF MesgBox, MesgLabel
<1>3. q.cmd = "MESG" /\ q.box = x
  BY DEF Packet
<1>4. IsSeq(s2c') /\ In(s2c') = In(s2c) \cup {q}
  BY <1>1, WireFacts DEF IInv, TypeInv
<1>5. n \in Nat /\ tun'.ctr = n + 1 /\ mode' = mode /\ Mine' = Mine /\ HerChallenge' = HerChallenge
  BY SameMode DEF IInv, TypeInv, Mine, HerChallenge, HerMask, DeviceX
<1>6. Drawn(tun.shared, made) /\ tun.shared # {}
  BY DEF IInv, TypeInv, KeyInv
<1>7. SealedInv'
  <2>1. \A b \in sealed: Apart(b)'
    <3>1. made \in Nat /\ tun'.ctr \in Nat /\ tun.ctr <= tun'.ctr /\ conn.ctr \in Nat
      BY <1>5 DEF IInv, TypeInv
    <3> QED
      BY <1>1, <3>1, SealedOn DEF IInv
  <2>2. BoxOK(x)'
    BY <1>2, <1>6 DEF BoxOK
  <2>3. FarMesgOK(x)'
    <3>1. conn.short \in tun.shared => Mine
      BY <1>6, Sessions DEF IInv, TypeInv, Drawn
    <3>2. Current(x)'
      BY <1>2, <1>6 DEF Current
    <3> QED
      BY <1>2, <1>5, <3>1, <3>2 DEF FarMesgOK
  <2>4. DataOK(x)'
    BY <1>2 DEF DataOK, Mesg
  <2> QED
    BY <1>1, <1>2, <2>1, <2>2, <2>3, <2>4
       DEF SealedInv, Apart, HeloOK, CookOK, VouchOK, VochOK, RedyOK, ClientMesgOK
<1>8. NonceOnce'
  <2>1. \A b \in sealed: ~(b.keys = x.keys /\ b.nonce = x.nonce)
    BY <1>2, <1>5, <1>6 DEF IInv, SealedInv, Apart, FarMesgOK, Current
  <2> QED
    BY <1>1, <2>1, OneMore DEF IInv
<1> QED
  BY <1>1, <1>3, <1>4, <1>7, <1>8

LEMMA UsesTunnelKeeps ==
  ASSUME IInv, UsesTunnel
  PROVE  IInv'
<1> PICK data: data = <<"data", conn.ctr>>
  OBVIOUS
<1>1. /\ conn.pc = "up" /\ conn' = [conn EXCEPT !.ctr = @ + 1] /\ ClientSends(data)
      /\ UNCHANGED <<givenVars, tun, s2c, made>> /\ mode' = mode
  BY SameMode DEF UsesTunnel
<1>2. conn' = [pc |-> conn.pc, remote |-> conn.remote, short |-> conn.short, shared |-> conn.shared,
               ctr |-> conn.ctr + 1, expected |-> conn.expected]
  BY <1>1 DEF IInv, TypeInv
<1>3. /\ SealedInv' /\ NonceOnce' /\ IsSeq(c2s')
      /\ \E q: q.cmd = "MESG" /\ q.box \in sealed' /\ In(c2s') = In(c2s) \cup {q}
  <2>1. data[1] = "data" /\ mode # "pairing"
    BY <1>1 DEF IInv, PairInv
  <2>2. /\ conn'.shared = conn.shared /\ conn'.short = conn.short /\ conn'.remote = conn.remote
        /\ conn'.ctr = conn.ctr + 1 /\ conn'.pc \notin {"cook", "redy"}
    BY <1>1, <1>2
  <2> QED
    BY <1>1, <2>1, <2>2, ClientSeals
<1>4. PICK q: q.cmd = "MESG" /\ q.box \in sealed' /\ In(c2s') = In(c2s) \cup {q}
  BY <1>3
<1>5. TypeInv'
  BY <1>1, <1>2, <1>3 DEF IInv, TypeInv
<1>6. KeyInv' /\ AgreeInv'
  BY <1>1, <1>2 DEF IInv, KeyInv, FarKey, AgreeInv, Vouched, Mine
<1>7. WireInv'
  <2>1. sealed \subseteq sealed' /\ made \in Nat
    BY <1>1 DEF ClientSends, IInv, TypeInv
  <2>2. \A p \in In(c2s): ToFar(p)'
    BY <1>1, <2>1, ToFarOn DEF IInv, WireInv
  <2>3. \A p \in In(s2c): ToMe(p)'
    BY <1>1, <1>2, <2>1, ToMeOn DEF IInv, WireInv
  <2>4. ToFar(q)'
    BY <1>4 DEF ToFar
  <2> QED
    BY <1>1, <1>4, <2>2, <2>3, <2>4 DEF WireInv
<1>8. PairInv' /\ PairedTogether'
  BY <1>1, <1>2 DEF IInv, PairInv, PairedTogether
<1> QED
  BY <1>3, <1>5, <1>6, <1>7, <1>8 DEF IInv

\* What far ends in use read with their session key is data of the client's.
LEMMA EchoesKeeps ==
  ASSUME IInv, Echoes
  PROVE  IInv'
<1> PICK data, b: data = Data(c2s) /\ b = Head(c2s).box
  OBVIOUS
<1>1. /\ tun.pc = "up" /\ tun' = [tun EXCEPT !.next = Head(c2s).n + 1, !.ctr = @ + 1] /\ FarSends(data)
      /\ UNCHANGED <<givenVars, conn, made>> /\ mode' = mode
      /\ IsSeq(c2s') /\ In(c2s') \subseteq In(c2s)
  BY WireFacts, SameMode DEF Echoes, FarReads, Arrived, IInv, TypeInv
<1>2. tun' = [pc |-> tun.pc, client |-> tun.client, peer |-> tun.peer, shared |-> tun.shared,
              ctr |-> tun.ctr + 1, next |-> Head(c2s).n + 1, props |-> tun.props]
  BY <1>1 DEF IInv, TypeInv
<1>3. mode # "pairing" /\ data[1] = "data"
  <2>1. ToFar(Head(c2s)) /\ Head(c2s).cmd = "MESG"
    BY WireFacts DEF Echoes, FarReads, Arrived, IInv, TypeInv, WireInv
  <2>2. b.keys = tun.shared /\ b.nonce = <<"CurveCP-client-M", Head(c2s).n>> /\ data = b.plain[2]
    BY DEF Echoes, FarReads, Opens, MesgLabel, Data
  <2>3. b \in sealed
    BY <1>1, <2>1 DEF ToFar
  <2>4. ClientMesgOK(b) /\ b.nonce[1] = "CurveCP-client-M" /\ Current(b) /\ mode # "pairing"
    BY <1>1, <2>2, <2>3 DEF IInv, SealedInv, Apart, KeyInv, PairInv, Current
  <2> QED
    BY <2>2, <2>4 DEF ClientMesgOK
<1>4. Vouched' = Vouched /\ Mine' = Mine
  BY <1>1, <1>2 DEF Vouched, Mine
<1>5. /\ SealedInv' /\ NonceOnce' /\ IsSeq(s2c')
      /\ \E q: q.cmd = "MESG" /\ q.box \in sealed' /\ In(s2c') = In(s2c) \cup {q}
  <2>1. tun'.shared = tun.shared /\ tun'.client = tun.client /\ tun'.ctr = tun.ctr + 1
    BY <1>2
  <2> QED
    BY <1>1, <1>3, <1>4, <2>1, FarSeals
<1>6. PICK q: q.cmd = "MESG" /\ q.box \in sealed' /\ In(s2c') = In(s2c) \cup {q}
  BY <1>5
<1>7. TypeInv'
  <2>1. tun' = [pc |-> tun'.pc, client |-> tun'.client, peer |-> tun'.peer, shared |-> tun'.shared,
                ctr |-> tun'.ctr, next |-> tun'.next, props |-> tun'.props]
    BY <1>2
  <2>2. tun'.ctr \in Nat /\ tun'.shared = tun.shared /\ tun'.client = tun.client
    BY <1>2 DEF IInv, TypeInv
  <2> QED
    BY <1>1, <1>5, <2>1, <2>2 DEF IInv, TypeInv
<1>8. KeyInv' /\ AgreeInv'
  BY <1>1, <1>2, <1>4 DEF IInv, KeyInv, FarKey, AgreeInv
<1>9. WireInv'
  <2>1. sealed \subseteq sealed' /\ made \in Nat /\ tun'.shared = tun.shared /\ tun'.pc = tun.pc
    BY <1>1, <1>2 DEF FarSends, IInv, TypeInv
  <2>2. \A p \in In(c2s): ToFar(p)'
    BY <1>1, <2>1, ToFarOn DEF IInv, WireInv
  <2>3. \A p \in In(s2c): ToMe(p)'
    BY <1>1, <2>1, ToMeOn DEF IInv, WireInv
  <2>4. ToMe(q)'
    BY <1>6 DEF ToMe
  <2> QED
    BY <1>1, <1>6, <2>2, <2>3, <2>4 DEF WireInv
<1>10. PairInv' /\ PairedTogether'
  BY <1>1, <1>2 DEF IInv, PairInv, PairedTogether
<1> QED
  BY <1>5, <1>7, <1>8, <1>9, <1>10 DEF IInv

-------------------------------------------------------------------------------
(* The pairing exchange *)

\* A far end that serves this client challenges it under its own code.
LEMMA ChallengesKeeps ==
  ASSUME IInv, Challenges
  PROVE  IInv'
<1> PICK data: data = <<"challenge", DeviceX, DeviceY>>
  OBVIOUS
<1>1. /\ tun.pc = "challenge" /\ tun' = [tun EXCEPT !.pc = "response", !.ctr = @ + 1] /\ FarSends(data)
      /\ UNCHANGED <<givenVars, conn, c2s, made>> /\ mode' = mode
  BY SameMode DEF Challenges
<1>2. tun' = [pc |-> "response", client |-> tun.client, peer |-> tun.peer, shared |-> tun.shared,
              ctr |-> tun.ctr + 1, next |-> tun.next, props |-> tun.props]
  BY <1>1 DEF IInv, TypeInv
<1>3. Mine' = Mine /\ (Vouched => Vouched') /\ (Mine => Vouched)
  BY <1>1, <1>2 DEF IInv, AgreeInv, Serving, Vouched, Mine
<1>4. IsChallenge(data)
  BY DEF IsChallenge, DeviceX, DeviceY, Point
<1>5. Mine => data = HerChallenge
  BY <1>3 DEF Vouched, HerChallenge, HerMask, DeviceY
<1>6. /\ SealedInv' /\ NonceOnce' /\ IsSeq(s2c')
      /\ \E q: q.cmd = "MESG" /\ q.box \in sealed' /\ In(s2c') = In(s2c) \cup {q}
  <2>1. tun'.shared = tun.shared /\ tun'.client = tun.client /\ tun'.ctr = tun.ctr + 1
    BY <1>2
  <2>2. data[1] = "challenge"
    OBVIOUS
  <2> QED
    BY <1>1, <1>3, <1>4, <1>5, <2>1, <2>2, FarSeals
<1>7. PICK q: q.cmd = "MESG" /\ q.box \in sealed' /\ In(s2c') = In(s2c) \cup {q}
  BY <1>6
<1>8. TypeInv'
  <2>1. tun' = [pc |-> tun'.pc, client |-> tun'.client, peer |-> tun'.peer, shared |-> tun'.shared,
                ctr |-> tun'.ctr, next |-> tun'.next, props |-> tun'.props]
    BY <1>2
  <2>2. tun'.ctr \in Nat /\ tun'.shared = tun.shared /\ tun'.client = tun.client
    BY <1>2 DEF IInv, TypeInv
  <2> QED
    BY <1>1, <1>6, <2>1, <2>2 DEF IInv, TypeInv
<1>9. KeyInv' /\ AgreeInv'
  <2>1. KeyInv'
    BY <1>1, <1>2, <1>3 DEF IInv, KeyInv, FarKey
  <2>2. AgreeInv'
    BY <1>1, <1>2, <1>3 DEF IInv, AgreeInv, Serving
  <2> QED
    BY <2>1, <2>2
<1>10. WireInv'
  <2>1. sealed \subseteq sealed' /\ made \in Nat /\ tun'.shared = tun.shared /\ tun'.pc = "response"
    BY <1>1, <1>2 DEF FarSends, IInv, TypeInv
  <2>2. \A p \in In(c2s): ToFar(p)'
    BY <1>1, <2>1, ToFarOn DEF IInv, WireInv
  <2>3. \A p \in In(s2c): ToMe(p)'
    BY <1>1, <2>1, ToMeOn DEF IInv, WireInv
  <2>4. ToMe(q)'
    BY <1>7 DEF ToMe
  <2> QED
    BY <1>1, <1>7, <2>2, <2>3, <2>4 DEF WireInv
<1>11. PairInv' /\ PairedTogether'
  BY <1>1, <1>2 DEF IInv, PairInv, PairedTogether
<1> QED
  BY <1>6, <1>8, <1>9, <1>10, <1>11 DEF IInv

\* What a response hides from who made the challenge.
LEMMA ResponseFacts ==
  ASSUME NEW x, NEW y, IsChallenge(<<"challenge", x, y>>)
  PROVE  LET resp == Response(x, y)
             data == <<"response", resp.x, resp.y>>
         IN  Hidden(resp.expected) /\ IsResponse(data, conn.shared)
<1> PICK mask: mask = Unmask(y, KeyStream(typed, Me, conn.remote))
  OBVIOUS
<1> PICK rx, resp: rx = Point({"r", mask}, conn.shared) /\ resp = Response(x, y)
  OBVIOUS
<1>1. /\ x = Point(x.by, x.over)
      /\ (x.by = {"z"} /\ y.stream = <<>>) \/ (x.by = {"x", "s"} /\ y.scalar = "s")
  <2> PICK d: d = <<"challenge", x, y>>
    OBVIOUS
  <2>1. d[2] = x /\ d[3] = y /\ IsChallenge(d)
    OBVIOUS
  <2> QED
    BY <2>1 DEF IsChallenge
<1>2. resp.x = rx /\ resp.y = Hash(x, Times("r", x)) /\ resp.expected = Hash(rx, Times("r", x))
  BY DEF Response
<1>3. rx.by = {"r", mask} /\ rx.over = conn.shared /\ rx = Point(rx.by, rx.over)
  BY DEF Point
<1>4. Times("r", x).by = x.by \cup {"r"} /\ Times("r", x).over = x.over
  BY <1>1 DEF Point, Times
<1>5. x.by \cup {"r"} # {"r", mask} \cup {"z"}
  <2>1. CASE x.by = {"z"} /\ y.stream = <<>>
    <3>1. mask = "other"
      BY <2>1 DEF Unmask, KeyStream
    <3> QED
      BY <2>1, <3>1
  <2>2. CASE x.by = {"x", "s"}
    BY <2>2
  <2> QED
    BY <1>1, <2>1, <2>2
<1>6. Hidden(resp.expected)
  BY <1>2, <1>3, <1>4, <1>5 DEF Hidden, Hash
<1>7. "r" \notin x.by
  BY <1>1
<1>8. IsResponse(<<"response", resp.x, resp.y>>, conn.shared)
  BY <1>2, <1>3, <1>4, <1>7 DEF IsResponse, Hash
<1> QED
  BY <1>6, <1>8
\* What opens with the session key of a far end that is not the stranger was sealed
\* by that far end.
LEMMA ClientOpens ==
  ASSUME IInv, ClientReads, conn.pc \in {"challenge", "result"}
  PROVE  \E b: /\ b.keys = conn.shared /\ b.nonce[1] = "CurveCP-server-M" /\ b.plain[2] = Data(s2c)
               /\ \/ b \in sealed
                  \/ /\ conn.pc = "challenge" => IsChallenge(Data(s2c))
                     /\ conn.pc = "result" => Data(s2c) # <<"result", conn.expected>>
               /\ Mine /\ conn.shared = tun.shared => b \in sealed
<1> PICK b: b = Head(s2c).box
  OBVIOUS
<1>1. ToMe(Head(s2c)) /\ Head(s2c).cmd = "MESG"
  BY WireFacts DEF ClientReads, Arrived, IInv, TypeInv, WireInv
<1>2. b.keys = conn.shared /\ b.nonce = <<"CurveCP-server-M", Head(s2c).n>> /\ b.plain[2] = Data(s2c)
  BY DEF ClientReads, Opens, MesgLabel, Data
<1>3. Mine /\ conn.shared = tun.shared => Stranger \notin b.keys
  BY <1>2, Sessions DEF IInv, KeyInv
<1> QED
  BY <1>1, <1>2, <1>3 DEF ToMe

\* The response to the challenge of a far end in this very session is the one it
\* can verify, if the user typed the code the far end shows.
LEMMA RespondsKeeps ==
  ASSUME IInv, Responds
  PROVE  IInv'
<1> PICK c, x, y: c = Data(s2c) /\ x = c[2] /\ y = c[3]
  OBVIOUS
<1> PICK resp: resp = Response(x, y)
  OBVIOUS
<1> PICK data: data = <<"response", resp.x, resp.y>>
  OBVIOUS
<1>1. /\ conn.pc = "challenge" /\ c[1] = "challenge"
      /\ conn' = [conn EXCEPT !.pc = "result", !.ctr = @ + 1, !.expected = resp.expected]
      /\ ClientSends(data)
      /\ UNCHANGED <<givenVars, tun, made>> /\ mode' = mode
      /\ IsSeq(s2c') /\ In(s2c') \subseteq In(s2c)
  BY WireFacts, SameMode DEF Responds, ClientReads, Arrived, IInv, TypeInv
<1>2. conn' = [pc |-> "result", remote |-> conn.remote, short |-> conn.short, shared |-> conn.shared,
               ctr |-> conn.ctr + 1, expected |-> resp.expected]
  BY <1>1 DEF IInv, TypeInv
<1>3. PICK b: /\ b.keys = conn.shared /\ b.nonce[1] = "CurveCP-server-M" /\ b.plain[2] = c
              /\ b \in sealed \/ IsChallenge(c)
              /\ Mine /\ conn.shared = tun.shared => b \in sealed
  BY <1>1, ClientOpens DEF Responds
<1>4. b \in sealed => FarMesgOK(b) /\ DataOK(b) /\ b.plain[1] = "mesg"
  BY <1>3 DEF IInv, SealedInv, Apart, FarMesgOK
<1>5. IsChallenge(c)
  BY <1>1, <1>3, <1>4 DEF DataOK
<1>6. Hidden(resp.expected) /\ IsResponse(data, conn.shared)
  <2> PICK d: d = <<"challenge", x, y>>
    OBVIOUS
  <2>1. d[1] = c[1] /\ d[2] = c[2] /\ d[3] = c[3]
    BY <1>1
  <2>2. IsChallenge(d)
    BY <1>5, <2>1 DEF IsChallenge
  <2> QED
    BY <2>2, ResponseFacts
<1>7. mode = "pairing"
  BY <1>1 DEF IInv, PairInv
<1>8. Mine /\ conn.shared = tun.shared => data = MyResponse
  <2>1. ASSUME Mine, conn.shared = tun.shared
        PROVE  data = MyResponse
    <3>1. Current(b) /\ c[1] # "result" /\ conn.remote = far
      BY <1>1, <1>3, <2>1 DEF Current, IInv, KeyInv
    <3>2. c = HerChallenge
      BY <1>3, <1>4, <1>7, <2>1, <3>1 DEF FarMesgOK
    <3>3. x = DeviceX /\ y = HerMask
      BY <3>2 DEF HerChallenge
    <3> QED
      BY <2>1, <3>1, <3>3 DEF Response, MyResponse, RespX
  <2> QED
    BY <2>1
<1>9. /\ SealedInv' /\ NonceOnce' /\ IsSeq(c2s')
      /\ \E q: q.cmd = "MESG" /\ q.box \in sealed' /\ In(c2s') = In(c2s) \cup {q}
  <2>1. data[1] = "response"
    OBVIOUS
  <2>2. /\ conn'.shared = conn.shared /\ conn'.short = conn.short /\ conn'.remote = conn.remote
        /\ conn'.ctr = conn.ctr + 1 /\ conn'.pc \notin {"cook", "redy"}
    BY <1>2
  <2> QED
    BY <1>1, <1>6, <1>7, <1>8, <2>1, <2>2, ClientSeals
<1>10. PICK q: q.cmd = "MESG" /\ q.box \in sealed' /\ In(c2s') = In(c2s) \cup {q}
  BY <1>9
<1>11. TypeInv'
  <2>1. conn' = [pc |-> conn'.pc, remote |-> conn'.remote, short |-> conn'.short, shared |-> conn'.shared,
                 ctr |-> conn'.ctr, expected |-> conn'.expected]
    BY <1>2
  <2>2. /\ conn'.ctr \in Nat /\ conn'.shared = conn.shared /\ conn'.short = conn.short
        /\ conn'.remote = conn.remote
    BY <1>2 DEF IInv, TypeInv
  <2> QED
    BY <1>1, <1>9, <2>1, <2>2 DEF IInv, TypeInv
<1>12. KeyInv' /\ AgreeInv'
  BY <1>1, <1>2 DEF IInv, KeyInv, FarKey, AgreeInv, Vouched, Mine
<1>13. WireInv'
  <2>1. sealed \subseteq sealed' /\ made \in Nat
    BY <1>1 DEF ClientSends, IInv, TypeInv
  <2>2. \A p \in In(c2s): ToFar(p)'
    BY <1>1, <2>1, ToFarOn DEF IInv, WireInv
  <2>3. \A p \in In(s2c): ToMe(p)'
    <3>1. ASSUME NEW p, ToMe(p)
          PROVE  ToMe(p)'
      <4>1. p.box \in sealed => p.box \in sealed'
        BY <2>1
      <4>2. IsChallenge(p.box.plain[2]) => p.box.plain[2] # <<"result", conn'.expected>>
        BY DEF IsChallenge
      <4> QED
        BY <1>1, <1>2, <3>1, <4>1, <4>2 DEF ToMe
    <3> QED
      BY <3>1 DEF IInv, WireInv
  <2>4. ToFar(q)'
    BY <1>10 DEF ToFar
  <2> QED
    BY <1>1, <1>10, <2>2, <2>3, <2>4 DEF WireInv
<1>14. PairInv' /\ PairedTogether'
  BY <1>1, <1>2, <1>6, <1>7 DEF IInv, PairInv, PairedTogether
<1> QED
  BY <1>9, <1>11, <1>12, <1>13, <1>14 DEF IInv

\* The result that is awaited is not made up and not passed on by the stranger: it
\* is the answer of a far end that has verified this client.
LEMMA ConcludesKeeps ==
  ASSUME IInv, Concludes
  PROVE  IInv'
<1> PICK c, to: c = Data(s2c) /\ to = IF c = <<"result", conn.expected>> THEN "paired" ELSE "failed"
  OBVIOUS
<1>1. /\ conn.pc = "result" /\ conn' = [conn EXCEPT !.pc = to] /\ to \in {"paired", "failed"}
      /\ UNCHANGED <<givenVars, tun, c2s, made, sealed>> /\ mode' = mode
      /\ IsSeq(s2c') /\ In(s2c') \subseteq In(s2c)
  BY WireFacts, SameMode DEF Concludes, ClientReads, Arrived, IInv, TypeInv
<1>2. conn' = [pc |-> to, remote |-> conn.remote, short |-> conn.short, shared |-> conn.shared,
               ctr |-> conn.ctr, expected |-> conn.expected]
  BY <1>1 DEF IInv, TypeInv
<1>3. to = "paired" => conn.remote = far /\ tun.pc \in {"verified", "closed"} /\ typed = CodeOf[far]
  <2>1. ASSUME to = "paired"
        PROVE  conn.remote = far /\ tun.pc \in {"verified", "closed"} /\ typed = CodeOf[far]
    <3>1. c = <<"result", conn.expected>> /\ c[1] = "result" /\ mode = "pairing"
      BY <1>1, <2>1 DEF IInv, PairInv
    <3>2. PICK b: /\ b.keys = conn.shared /\ b.nonce[1] = "CurveCP-server-M" /\ b.plain[2] = c
                  /\ b \in sealed
      BY <1>1, <3>1, ClientOpens DEF Concludes
    <3>3. FarMesgOK(b) /\ conn.short \in b.keys
      BY <1>1, <3>2 DEF IInv, SealedInv, Apart, KeyInv
    <3>4. Current(b) /\ Mine
      BY <3>2, <3>3 DEF FarMesgOK
    <3>5. c # HerChallenge
      BY <3>1 DEF HerChallenge
    <3> QED
      BY <3>1, <3>2, <3>3, <3>4, <3>5 DEF FarMesgOK, IInv, KeyInv
  <2> QED
    BY <2>1
<1>4. TypeInv'
  BY <1>1, <1>2 DEF IInv, TypeInv
<1>5. KeyInv' /\ AgreeInv'
  BY <1>1, <1>2 DEF IInv, KeyInv, FarKey, AgreeInv, Vouched, Mine
<1>6. SealedInv' /\ NonceOnce'
  BY <1>1, <1>2, SealedOn DEF IInv, TypeInv, SealedInv, NonceOnce, Vouched
<1>7. WireInv'
  <2>1. \A p \in In(c2s): ToFar(p)'
    BY <1>1, ToFarOn DEF IInv, TypeInv, WireInv
  <2>2. \A p \in In(s2c): ToMe(p)'
    BY <1>1, <1>2, ToMeOn DEF IInv, TypeInv, WireInv
  <2> QED
    BY <1>1, <2>1, <2>2 DEF WireInv
<1>8. PairInv' /\ PairedTogether'
  BY <1>1, <1>2, <1>3 DEF IInv, PairInv, PairedTogether
<1> QED
  BY <1>4, <1>5, <1>6, <1>7, <1>8 DEF IInv

\* A response that a far end can verify was made by this client, with its code.
LEMMA VerifiesKeeps ==
  ASSUME IInv, Verifies
  PROVE  IInv'
<1> PICK r, b: r = Data(c2s) /\ b = Head(c2s).box
  OBVIOUS
<1> PICK answer: FarSends(<<"result", answer>>)
  BY DEF Verifies
<1> PICK data: data = <<"result", answer>>
  OBVIOUS
<1>1. /\ tun.pc = "response" /\ Verified(r) /\ FarSends(data)
      /\ tun' = [tun EXCEPT !.pc = "verified", !.next = Head(c2s).n + 1, !.ctr = @ + 1]
      /\ UNCHANGED <<givenVars, conn, made>> /\ mode' = mode
      /\ IsSeq(c2s') /\ In(c2s') \subseteq In(c2s)
  BY WireFacts, SameMode DEF Verifies, FarReads, Arrived, IInv, TypeInv
<1>2. tun' = [pc |-> "verified", client |-> tun.client, peer |-> tun.peer, shared |-> tun.shared,
              ctr |-> tun.ctr + 1, next |-> Head(c2s).n + 1, props |-> tun.props]
  BY <1>1 DEF IInv, TypeInv
<1>3. mode = "pairing" /\ Mine /\ r = MyResponse
  <2>1. ToFar(Head(c2s)) /\ Head(c2s).cmd = "MESG"
    BY WireFacts DEF Verifies, FarReads, Arrived, IInv, TypeInv, WireInv
  <2>2. b.keys = tun.shared /\ b.nonce = <<"CurveCP-client-M", Head(c2s).n>> /\ r = b.plain[2]
    BY DEF Verifies, FarReads, Opens, MesgLabel, Data
  <2>3. b \in sealed
    BY <1>1, <2>1, <2>2 DEF ToFar
  <2>4. ClientMesgOK(b) /\ b.nonce[1] = "CurveCP-client-M" /\ Current(b) /\ mode = "pairing"
    BY <1>1, <2>2, <2>3 DEF IInv, SealedInv, Apart, KeyInv, PairInv, Current
  <2> QED
    BY <2>2, <2>4 DEF ClientMesgOK
<1>4. Vouched /\ tun.shared # {} /\ Stranger \notin tun.shared
  BY <1>1, <1>3, Sessions DEF IInv, AgreeInv, KeyInv, Serving
<1>5. typed = CodeOf[far]
  <2> PICK mask: mask = Unmask(HerMask, KeyStream(typed, Me, far))
    OBVIOUS
  <2>1. Hash(DeviceX, Times("r", DeviceX)) = Hash(DeviceX, Times("x", RespX))
    BY <1>1, <1>3 DEF Verified, MyResponse
  <2>2. Times("r", DeviceX).by = Times("x", RespX).by
    BY <2>1 DEF Hash
  <2>3. {"x", "s"} \cup {"r"} = {"r", mask} \cup {"x"}
    BY <2>2 DEF Times, Point, DeviceX, RespX
  <2>4. mask = "s"
    BY <2>3
  <2>5. KeyStream(CodeOf[far], Me, far) = KeyStream(typed, Me, far)
    BY <2>4 DEF HerMask, Unmask
  <2> QED
    BY <2>5 DEF KeyStream
<1>6. Mine' = Mine /\ Vouched'
  BY <1>1, <1>2, <1>4 DEF Vouched, Mine
<1>7. /\ SealedInv' /\ NonceOnce' /\ IsSeq(s2c')
      /\ \E q: q.cmd = "MESG" /\ q.box \in sealed' /\ In(s2c') = In(s2c) \cup {q}
  <2>1. tun'.shared = tun.shared /\ tun'.client = tun.client /\ tun'.ctr = tun.ctr + 1 /\ tun'.pc = "verified"
    BY <1>2
  <2>2. data[1] = "result"
    OBVIOUS
  <2> QED
    BY <1>1, <1>4, <1>5, <1>6, <2>1, <2>2, FarSeals
<1>8. PICK q: q.cmd = "MESG" /\ q.box \in sealed' /\ In(s2c') = In(s2c) \cup {q}
  BY <1>7
<1>9. TypeInv'
  <2>1. tun' = [pc |-> tun'.pc, client |-> tun'.client, peer |-> tun'.peer, shared |-> tun'.shared,
                ctr |-> tun'.ctr, next |-> tun'.next, props |-> tun'.props]
    BY <1>2
  <2>2. tun'.ctr \in Nat /\ tun'.shared = tun.shared /\ tun'.client = tun.client
    BY <1>2 DEF IInv, TypeInv
  <2> QED
    BY <1>1, <1>7, <2>1, <2>2 DEF IInv, TypeInv
<1>10. KeyInv' /\ AgreeInv'
  <2>1. KeyInv'
    BY <1>1, <1>2, <1>6 DEF IInv, KeyInv, FarKey
  <2>2. AgreeInv'
    BY <1>1, <1>2, <1>6 DEF IInv, AgreeInv, Serving
  <2> QED
    BY <2>1, <2>2
<1>11. WireInv'
  <2>1. sealed \subseteq sealed' /\ made \in Nat /\ tun'.shared = tun.shared /\ tun'.pc = "verified"
    BY <1>1, <1>2 DEF FarSends, IInv, TypeInv
  <2>2. \A p \in In(c2s): ToFar(p)'
    BY <1>1, <2>1, ToFarOn DEF IInv, WireInv
  <2>3. \A p \in In(s2c): ToMe(p)'
    BY <1>1, <2>1, ToMeOn DEF IInv, WireInv
  <2>4. ToMe(q)'
    BY <1>8 DEF ToMe
  <2> QED
    BY <1>1, <1>8, <2>2, <2>3, <2>4 DEF WireInv
<1>12. PairInv' /\ PairedTogether'
  BY <1>1, <1>2, <1>3, <1>4, <1>5 DEF IInv, PairInv, PairedTogether, Vouched
<1> QED
  BY <1>7, <1>9, <1>10, <1>11, <1>12 DEF IInv
-------------------------------------------------------------------------------
(* Somebody on the way *)

\* Whatever is put in the way of the two, they stay as they were.
LEMMA WiresOnly ==
  ASSUME IInv, UNCHANGED <<givenVars, conn, tun, made, sealed>>, IsSeq(c2s'), IsSeq(s2c')
  PROVE  /\ TypeInv' /\ KeyInv' /\ AgreeInv' /\ SealedInv' /\ NonceOnce' /\ PairInv' /\ PairedTogether'
         /\ \A p: (ToFar(p) => ToFar(p)') /\ (ToMe(p) => ToMe(p)')
<1>1. mode' = mode /\ made \in Nat
  BY SameMode DEF IInv, TypeInv
<1>2. TypeInv' /\ KeyInv' /\ AgreeInv'
  BY <1>1 DEF IInv, TypeInv, KeyInv, FarKey, AgreeInv, Vouched, Mine
<1>3. SealedInv' /\ NonceOnce'
  BY <1>1, SealedOn DEF IInv, TypeInv, SealedInv, NonceOnce, Vouched
<1>4. PairInv' /\ PairedTogether'
  BY <1>1 DEF IInv, PairInv, PairedTogether
<1>5. \A p: (ToFar(p) => ToFar(p)') /\ (ToMe(p) => ToMe(p)')
  BY <1>1, ToFarOn, ToMeOn
<1> QED
  BY <1>2, <1>3, <1>4, <1>5

LEMMA OnePacket ==
  ASSUME NEW p
  PROVE  IsSeq(<<p>>) /\ In(<<p>>) = {p}
<1>1. <<p>> \in Seq({p}) /\ DOMAIN <<p>> = {1} /\ <<p>>[1] = p
  OBVIOUS
<1>2. IsSeq(<<p>>)
  BY <1>1 DEF IsSeq
<1> QED
  BY <1>1, <1>2 DEF In

\* What the stranger can read was sealed to it.
LEMMA ReadFacts ==
  ASSUME IInv, NEW kind, NEW data \in Read(kind)
  PROVE  \E b \in sealed: /\ Stranger \in b.keys /\ b.plain[1] = "mesg" /\ b.plain[2] = data
                          /\ data[1] = kind /\ ClientMesgOK(b) /\ DataOK(b)
<1>1. PICK b \in sealed: Stranger \in b.keys /\ b.plain[1] = "mesg" /\ b.plain[2] = data /\ data[1] = kind
  BY DEF Read
<1>2. ClientMesgOK(b) /\ DataOK(b)
  BY DEF IInv, SealedInv, Apart
<1> QED
  BY <1>1, <1>2

LEMMA SaysChallenge ==
  ASSUME IInv, NEW session, NEW m \in Says("challenge", session)
  PROVE  IsChallenge(m[2])
<1>1. PICK data: /\ m = <<"mesg", data>>
                 /\ \/ data \in Read("challenge")
                    \/ data = <<"challenge", Point({"z"}, session), [stream |-> <<>>, scalar |-> "z"]>>
  BY DEF Says
<1>2. CASE data \in Read("challenge")
  BY <1>1, <1>2, ReadFacts DEF DataOK
<1>3. CASE data = <<"challenge", Point({"z"}, session), [stream |-> <<>>, scalar |-> "z"]>>
  BY <1>1, <1>3 DEF IsChallenge, Point
<1> QED
  BY <1>1, <1>2, <1>3

\* A response that was read is over the session of who made it; one that is made up
\* has not the device's scalar in it.
LEMMA SaysResponse ==
  ASSUME IInv, Stranger \in tun.shared, NEW m \in Says("response", tun.shared)
  PROVE  ~Verified(m[2])
<1>1. PICK data: /\ m = <<"mesg", data>>
                 /\ \/ data \in Read("response")
                    \/ \E c \in Read("challenge"):
                         data = <<"response", Point({"z"}, tun.shared), Hash(c[2], Times("z", c[2]))>>
  BY DEF Says
<1>2. CASE data \in Read("response")
  <2>1. PICK b \in sealed: /\ b.plain[1] = "mesg" /\ b.plain[2] = data
                           /\ data[1] = "response" /\ ClientMesgOK(b) /\ DataOK(b)
    BY <1>2, ReadFacts
  <2>2. b.nonce[1] = "CurveCP-client-M" /\ IsResponse(data, b.keys)
    BY <2>1 DEF DataOK
  <2>3. b.keys # tun.shared
    BY <2>1, <2>2, Sessions DEF ClientMesgOK, Current
  <2>4. Times("x", data[2]).over = b.keys
    BY <2>2 DEF IsResponse, Times, Point
  <2>5. data[3][2].over = data[3][1].over
    BY <2>2 DEF IsResponse
  <2> QED
    BY <1>1, <2>3, <2>4, <2>5 DEF Verified, Hash, DeviceX, Point
<1>3. CASE \E c \in Read("challenge"):
             data = <<"response", Point({"z"}, tun.shared), Hash(c[2], Times("z", c[2]))>>
  <2>1. PICK x: data = <<"response", Point({"z"}, tun.shared), Hash(x, Times("z", x))>>
    BY <1>3
  <2>2. Times("z", DeviceX).by = {"x", "s", "z"} /\ Times("x", Point({"z"}, tun.shared)).by = {"z", "x"}
    BY DEF Times, DeviceX, Point
  <2> QED
    BY <1>1, <2>1, <2>2 DEF Verified, Hash
<1> QED
  BY <1>1, <1>2, <1>3

\* No result is ever sealed to the stranger, and none follows from a response.
LEMMA SaysResult ==
  ASSUME IInv, NEW e, Hidden(e), NEW session, NEW m \in Says("result", session)
  PROVE  m[2] # <<"result", e>>
<1>1. PICK data: /\ m = <<"mesg", data>>
                 /\ \/ data \in Read("result")
                    \/ data = <<"result", <<>>>>
                    \/ \E r \in Read("response"): data = <<"result", r[3]>>
                    \/ \E r \in Read("response"): data = <<"result", Hash(r[2], Times("z", r[2]))>>
  BY DEF Says
<1>2. \A r \in Read("response"): \E keys: IsResponse(r, keys)
  BY ReadFacts DEF DataOK
<1>3. CASE data \in Read("result")
  BY <1>3, ReadFacts DEF DataOK
<1>4. CASE data = <<"result", <<>>>>
  BY <1>1, <1>4 DEF Hidden
<1>5. CASE \E r \in Read("response"): data = <<"result", r[3]>>
  BY <1>1, <1>2, <1>5 DEF Hidden, IsResponse
<1>6. CASE \E r \in Read("response"): data = <<"result", Hash(r[2], Times("z", r[2]))>>
  <2>1. PICK r, keys: data = <<"result", Hash(r[2], Times("z", r[2]))>> /\ IsResponse(r, keys)
    BY <1>2, <1>6
  <2>2. Times("z", r[2]).by = r[2].by \cup {"z"}
    BY <2>1 DEF IsResponse, Times, Point
  <2> QED
    BY <1>1, <2>1, <2>2 DEF Hidden, Hash
<1> QED
  BY <1>1, <1>3, <1>4, <1>5, <1>6

LEMMA MeddlesWithClientKeeps ==
  ASSUME IInv, MeddlesWithClient
  PROVE  IInv'
<1>1. PICK p \in ToClient: s2c' = <<p>>
  BY DEF MeddlesWithClient
<1>2. UNCHANGED <<givenVars, conn, tun, c2s, made, sealed>>
  BY DEF MeddlesWithClient
<1>3. IsSeq(s2c') /\ In(s2c') = {p}
  BY <1>1, OnePacket
<1>4. ToMe(p)
  <2>1. CASE conn.pc = "welc"
    BY <1>1, <2>1 DEF ToClient, Packet, ToMe
  <2>2. CASE conn.pc = "cook"
    <3>1. PICK b: /\ p = Packet("COOK", b.nonce[2], b, 0)
                  /\ \/ b \in sealed
                     \/ \E key \in {Stranger} \cup tun.shared:
                          b = Box({conn.short, Stranger}, "CurveCPK", 0, <<"cook", key, Cookie>>)
      BY <1>1, <2>2 DEF ToClient, Seen, Own
    <3>2. tun.shared \subseteq (1..made) \cup {Stranger}
      <4>1. CASE tun.shared = {}
        BY <4>1
      <4>2. CASE tun.shared # {}
        <5>1. PICK k: FarKey(k)
          BY <4>2 DEF IInv, KeyInv
        <5>2. tun.client \in (1..made) \cup {Stranger}
          BY <5>1 DEF FarKey, IInv, TypeInv
        <5> QED
          BY <5>1, <5>2 DEF FarKey
      <4> QED
        BY <4>1, <4>2
    <3>3. ASSUME NEW key \in {Stranger} \cup tun.shared,
                 b = Box({conn.short, Stranger}, "CurveCPK", 0, <<"cook", key, Cookie>>)
          PROVE  Stranger \in b.keys /\ b.plain[2] \in (1..made) \cup {Stranger}
      BY <3>2, <3>3 DEF Box
    <3> QED
      BY <3>1, <3>3 DEF Packet, ToMe
  <2>3. CASE conn.pc = "redy"
    <3>1. PICK b: /\ p = Packet("REDY", b.nonce[2], b, 0)
                  /\ b \in sealed \/ b = Box({conn.short, Stranger}, "CurveCP-server-R", 0, <<"ready">>)
      BY <1>1, <2>3 DEF ToClient, Seen, Own
    <3> QED
      BY <3>1 DEF Packet, Box, ToMe
  <2>4. CASE conn.pc \in {"challenge", "result"}
    <3>1. PICK b: /\ p = Packet("MESG", b.nonce[2], b, 0)
                  /\ \/ b \in sealed
                     \/ \E m \in Says(conn.pc, conn.shared):
                          b = Box({conn.short, Stranger}, MesgLabel("server"), 0, m)
      BY <1>1, <2>4 DEF ToClient, Seen, Own
    <3>2. ASSUME NEW m \in Says(conn.pc, conn.shared),
                 b = Box({conn.short, Stranger}, MesgLabel("server"), 0, m)
          PROVE  /\ Stranger \in b.keys
                 /\ conn.pc = "challenge" => IsChallenge(b.plain[2])
                 /\ conn.pc = "result" => b.plain[2] # <<"result", conn.expected>>
      <4>1. Stranger \in b.keys /\ b.plain = m
        BY <3>2 DEF Box
      <4>2. conn.pc = "challenge" => IsChallenge(m[2])
        BY SaysChallenge
      <4>3. conn.pc = "result" => m[2] # <<"result", conn.expected>>
        BY SaysResult DEF IInv, PairInv
      <4> QED
        BY <4>1, <4>2, <4>3
    <3> QED
      BY <2>4, <3>1, <3>2 DEF Packet, ToMe
  <2> QED
    BY <1>1, <2>1, <2>2, <2>3, <2>4 DEF ToClient
<1>5. WireInv'
  BY <1>2, <1>3, <1>4, WiresOnly DEF IInv, TypeInv, WireInv
<1> QED
  BY <1>2, <1>3, <1>5, WiresOnly DEF IInv, TypeInv

LEMMA MeddlesWithFarEndKeeps ==
  ASSUME IInv, MeddlesWithFarEnd
  PROVE  IInv'
<1>1. PICK p \in ToFarEnd: c2s' = <<p>>
  BY DEF MeddlesWithFarEnd
<1>2. UNCHANGED <<givenVars, conn, tun, s2c, made, sealed>>
  BY DEF MeddlesWithFarEnd
<1>3. IsSeq(c2s') /\ In(c2s') = {p}
  BY <1>1, OnePacket
<1>4. ToFar(p)
  <2>1. CASE tun.pc = "tell"
    BY <1>1, <2>1 DEF ToFarEnd, Packet, ToFar
  <2>2. CASE tun.pc = "helo"
    <3>1. PICK b, key, n: /\ p = Packet("HELO", n, b, key)
                          /\ \/ key = Stranger /\ b = Box({far, Stranger}, "CurveCP-client-H", 0, <<"zeros">>)
                             \/ key \in 1..made /\ b \in sealed
      BY <1>1, <2>2 DEF ToFarEnd, Seen, Own
    <3> QED
      BY <3>1 DEF Packet, Box, ToFar
  <2>3. CASE tun.pc = "voch"
    <3>1. PICK b \in Seen("CurveCP-client-I") \cup
                     UNION {Own(key, "CurveCP-client-I", tun.next, Claims): key \in FarKeys}:
                 p = Packet("VOCH", b.nonce[2], b, Cookie)
      BY <1>1, <2>3 DEF ToFarEnd
    <3>2. b \in sealed \/ \E key: b \in Own(key, "CurveCP-client-I", tun.next, Claims)
      BY <3>1 DEF Seen
    <3>3. \A v \in Vouchers: v \in sealed \/ Stranger \in v.keys
      BY DEF Vouchers, Seen, Own, Box
    <3>4. ASSUME NEW claim \in Claims
          PROVE  claim[3] \in sealed \/ Stranger \in claim[3].keys
      BY <3>3 DEF Claims
    <3>5. ASSUME NEW key, NEW d \in Own(key, "CurveCP-client-I", tun.next, Claims)
          PROVE  Stranger \in d.keys /\ (d.plain[3] \in sealed \/ Stranger \in d.plain[3].keys)
      BY <3>4 DEF Own, Box
    <3>6. b \in sealed \/ (Stranger \in b.keys /\ (b.plain[3] \in sealed \/ Stranger \in b.plain[3].keys))
      BY <3>2, <3>5
    <3> QED
      BY <3>1, <3>6 DEF Packet, ToFar
  <2>4. CASE tun.pc = "response"
    <3>1. PICK b: /\ p = Packet("MESG", b.nonce[2], b, 0)
                  /\ \/ b \in sealed
                     \/ \E key: \E m \in Says("response", tun.shared):
                          b = Box({key, Stranger}, MesgLabel("client"), tun.next, m)
      <4>1. PICK b \in Seen(MesgLabel("client")) \cup
                       UNION {Own(key, MesgLabel("client"), tun.next, Says("response", tun.shared))
                                : key \in FarKeys}:
                   p = Packet("MESG", b.nonce[2], b, 0)
        BY <1>1, <2>4 DEF ToFarEnd
      <4>2. \/ b \in Seen(MesgLabel("client"))
            \/ \E key: b \in Own(key, MesgLabel("client"), tun.next, Says("response", tun.shared))
        BY <4>1
      <4> QED
        BY <4>1, <4>2 DEF Seen, Own
    <3>2. ASSUME NEW key, NEW m \in Says("response", tun.shared),
                 b = Box({key, Stranger}, MesgLabel("client"), tun.next, m)
          PROVE  Stranger \in b.keys /\ (b.keys = tun.shared => ~Verified(b.plain[2]))
      <4>1. Stranger \in b.keys /\ b.plain = m
        BY <3>2 DEF Box
      <4> QED
        BY <4>1, SaysResponse
    <3> QED
      BY <2>4, <3>1, <3>2 DEF Packet, ToFar
  <2> QED
    BY <1>1, <2>1, <2>2, <2>3, <2>4 DEF ToFarEnd
<1>5. WireInv'
  BY <1>2, <1>3, <1>4, WiresOnly DEF IInv, TypeInv, WireInv
<1> QED
  BY <1>2, <1>3, <1>5, WiresOnly DEF IInv, TypeInv

-------------------------------------------------------------------------------
(* The invariant and the properties *)

LEMMA NextIInv == IInv /\ [BringUpNext]_allVars => IInv'
<1> SUFFICES ASSUME IInv, [BringUpNext]_allVars
             PROVE  IInv'
  OBVIOUS
<1>1. CASE UNCHANGED tunnelVars
  <2>1. IsSeq(c2s') /\ IsSeq(s2c') /\ UNCHANGED <<c2s, s2c>>
    BY <1>1 DEF IInv, TypeInv
  <2> QED
    BY <1>1, <2>1, WiresOnly DEF IInv, WireInv
<1>2. CASE TunnelNext
  BY <1>2, TellsOutKeeps, GetsWelcKeeps, GetsCookKeeps, GetsRedyKeeps, RespondsKeeps, ConcludesKeeps,
     ClientRestsKeeps, UsesTunnelKeeps, GoesOnKeeps, TellsKeeps, CooksKeeps, ReadiesKeeps, EchoesKeeps,
     ChallengesKeeps, VerifiesKeeps, HangsUpKeeps, MeddlesWithClientKeeps, MeddlesWithFarEndKeeps
     DEF TunnelNext, Handshakes, FarEnd
<1> QED
  BY <1>1, <1>2 DEF BringUpNext, TunnelSteps, NegotiationSteps, allVars

\* The inductive invariant holds throughout.
THEOREM Invariant == BringUpSpec => []IInv
<1>1. BringUpInit => IInv
  BY InitIInv DEF BringUpInit
<1> QED
  BY <1>1, NextIInv, PTL DEF BringUpSpec

\* No nonce is used twice with one pair of keys (nonce.go and conn.nextCtr), over
\* any number of connections with the same long-term keys.
THEOREM NonceOnceHolds == BringUpSpec => []NonceOnce
<1>1. IInv => NonceOnce
  BY DEF IInv
<1> QED
  BY <1>1, Invariant, PTL

\* Once handshakeAny has returned, the client is with one of those it accepts; if
\* that is not the stranger, both ends have the session key of this connection and
\* each knows who the other is, whatever a stranger on the way puts in for COOK,
\* REDY and VOCH (handshake.go).
THEOREM TunnelAgreesHolds == BringUpSpec => []TunnelAgrees
<1>1. IInv => TunnelAgrees
  BY DEF IInv, KeyInv, AgreeInv, Vouched, Serving, TunnelAgrees
<1> QED
  BY <1>1, Invariant, PTL

\* Grid.Pair reports a pairing only with a far end that has verified this client
\* under the code the user typed, though a stranger may be at the other end of the
\* tunnel, or say that it has, or pass on what others say (pairing.go); and no far
\* end verifies another than the client with its code.
THEOREM PairedTogetherHolds == BringUpSpec => []PairedTogether
<1>1. IInv => PairedTogether
  BY DEF IInv
<1> QED
  BY <1>1, Invariant, PTL

-------------------------------------------------------------------------------
(* The counter of the client *)

\* The far end is behind the client's counter, and so is all that is on the way.
CounterInv ==
  /\ tun.next \in Nat /\ tun.next <= conn.ctr
  /\ \A i \in DOMAIN c2s: Counted(c2s[i]) => c2s[i].n \in Nat /\ c2s[i].n < conn.ctr
  /\ CountersRise

LEMMA PacketAdded ==
  ASSUME NEW s, IsSeq(s), NEW p
  PROVE  /\ Len(s) \in Nat /\ DOMAIN s = 1..Len(s) /\ DOMAIN Append(s, p) = 1..(Len(s) + 1)
         /\ Append(s, p)[Len(s) + 1] = p /\ \A i \in 1..Len(s): Append(s, p)[i] = s[i]
<1>1. PICK S: s \in Seq(S)
  BY DEF IsSeq
<1>2. s \in Seq(S \cup {p})
  BY <1>1
<1> QED
  BY <1>2

LEMMA PacketTaken ==
  ASSUME NEW s, IsSeq(s), s # <<>>
  PROVE  /\ Len(s) \in Nat \ {0} /\ DOMAIN s = 1..Len(s) /\ DOMAIN Tail(s) = 1..(Len(s) - 1)
         /\ Head(s) = s[1] /\ \A i \in 1..(Len(s) - 1): Tail(s)[i] = s[i + 1]
<1>1. PICK S: s \in Seq(S)
  BY DEF IsSeq
<1> QED
  BY <1>1

\* A packet bears the number the counter has before it goes up; TELL has none.
LEMMA CounterSends ==
  ASSUME IInv, CounterInv, ~strange, NEW p, c2s' = Append(c2s, p), tun'.next = tun.next,
         IF Counted(p) THEN p.n = conn.ctr /\ conn'.ctr = conn.ctr + 1 ELSE conn'.ctr = conn.ctr
  PROVE  CounterInv'
<1> PICK s, len, top, next: s = c2s /\ len = Len(s) /\ top = conn.ctr /\ next = tun.next
  OBVIOUS
<1>1. IsSeq(s) /\ top \in Nat /\ next \in Nat /\ next <= top
  BY DEF IInv, TypeInv, CounterInv
<1>2. /\ len \in Nat /\ DOMAIN s = 1..len /\ DOMAIN c2s' = 1..(len + 1)
      /\ c2s'[len + 1] = p /\ \A i \in 1..len: c2s'[i] = s[i]
  BY <1>1, PacketAdded
<1>3. \A i \in 1..len: Counted(s[i]) => s[i].n \in Nat /\ s[i].n < top /\ s[i].n >= next
  BY <1>2 DEF CounterInv, CountersRise
<1>4. \A i, j \in 1..len: Counted(s[i]) /\ Counted(s[j]) /\ i < j => s[i].n < s[j].n
  BY <1>2 DEF CounterInv, CountersRise
<1>5. \A i \in 1..(len + 1): i \in 1..len \/ i = len + 1
  BY <1>2
<1>6. \A i \in 1..(len + 1): Counted(c2s'[i]) => c2s'[i].n \in Nat /\ c2s'[i].n < conn'.ctr /\ c2s'[i].n >= next
  BY <1>1, <1>2, <1>3, <1>5
<1>7. \A i, j \in 1..(len + 1): Counted(c2s'[i]) /\ Counted(c2s'[j]) /\ i < j => c2s'[i].n < c2s'[j].n
  <2>1. ASSUME NEW i \in 1..(len + 1), NEW j \in 1..(len + 1), Counted(c2s'[i]), Counted(c2s'[j]), i < j
        PROVE  c2s'[i].n < c2s'[j].n
    <3>1. i \in 1..len
      BY <1>2, <2>1
    <3>2. CASE j \in 1..len
      BY <1>2, <1>4, <2>1, <3>1, <3>2
    <3>3. CASE j = len + 1
      BY <1>2, <1>3, <2>1, <3>1, <3>3
    <3> QED
      BY <1>5, <3>2, <3>3
  <2> QED
    BY <2>1
<1> QED
  BY <1>1, <1>2, <1>6, <1>7 DEF CounterInv, CountersRise, Counted

\* The far end goes on behind the packet it took.
LEMMA CounterTakes ==
  ASSUME IInv, CounterInv, ~strange, c2s # <<>>, c2s' = Tail(c2s), conn' = conn,
         tun'.next = tun.next \/ (Counted(Head(c2s)) /\ tun'.next = Head(c2s).n + 1)
  PROVE  CounterInv'
<1> PICK s, len, top, next, t: s = c2s /\ len = Len(s) /\ top = conn.ctr /\ next = tun.next /\ t = Tail(s)
  OBVIOUS
<1>1. IsSeq(s) /\ top \in Nat /\ next \in Nat /\ next <= top /\ s # <<>>
  BY DEF IInv, TypeInv, CounterInv
<1>2. /\ len \in Nat \ {0} /\ DOMAIN s = 1..len /\ DOMAIN t = 1..(len - 1)
      /\ Head(s) = s[1] /\ \A i \in 1..(len - 1): t[i] = s[i + 1]
  BY <1>1, PacketTaken
<1>3. \A i \in 1..len: Counted(s[i]) => s[i].n \in Nat /\ s[i].n < top /\ s[i].n >= next
  BY <1>2 DEF CounterInv, CountersRise
<1>4. \A i, j \in 1..len: Counted(s[i]) /\ Counted(s[j]) /\ i < j => s[i].n < s[j].n
  BY <1>2 DEF CounterInv, CountersRise
<1>5. PICK after \in Nat: /\ after = tun'.next /\ after <= top
                          /\ \A i \in 1..(len - 1): Counted(t[i]) => t[i].n >= after
  <2>1. CASE tun'.next = tun.next
    <3>1. \A i \in 1..(len - 1): Counted(t[i]) => t[i].n >= next
      BY <1>2, <1>3
    <3> QED
      BY <1>1, <2>1, <3>1
  <2>2. CASE Counted(s[1]) /\ tun'.next = s[1].n + 1
    <3>1. s[1].n \in Nat /\ s[1].n < top
      BY <1>2, <1>3, <2>2
    <3>2. ASSUME NEW i \in 1..(len - 1), Counted(t[i])
          PROVE  t[i].n >= s[1].n + 1
      <4>1. i + 1 \in 1..len /\ 1 < i + 1 /\ 1 \in 1..len /\ t[i] = s[i + 1]
        BY <1>2
      <4>2. s[1].n < s[i + 1].n /\ s[i + 1].n \in Nat
        BY <1>3, <1>4, <2>2, <3>2, <4>1
      <4> QED
        BY <3>1, <4>1, <4>2
    <3>3. PICK after \in Nat: after = s[1].n + 1
      BY <3>1
    <3>4. after = tun'.next /\ after <= top
      BY <1>1, <2>2, <3>1, <3>3
    <3>5. \A i \in 1..(len - 1): Counted(t[i]) => t[i].n >= after
      BY <3>2, <3>3
    <3> QED
      BY <3>3, <3>4, <3>5
  <2> QED
    BY <1>2, <2>1, <2>2
<1>6. \A i \in 1..(len - 1): Counted(t[i]) => t[i].n \in Nat /\ t[i].n < top
  BY <1>2, <1>3
<1>7. \A i, j \in 1..(len - 1): Counted(t[i]) /\ Counted(t[j]) /\ i < j => t[i].n < t[j].n
  <2>1. ASSUME NEW i \in 1..(len - 1), NEW j \in 1..(len - 1), Counted(t[i]), Counted(t[j]), i < j
        PROVE  t[i].n < t[j].n
    <3>1. /\ i + 1 \in 1..len /\ j + 1 \in 1..len /\ i + 1 < j + 1 /\ t[i] = s[i + 1] /\ t[j] = s[j + 1]
      BY <1>2, <2>1
    <3> QED
      BY <1>4, <2>1, <3>1
  <2> QED
    BY <2>1
<1>8. c2s' = t /\ conn'.ctr = top
  OBVIOUS
<1>9. \A i \in DOMAIN c2s': Counted(c2s'[i]) => c2s'[i].n \in Nat /\ c2s'[i].n < conn'.ctr
  BY <1>2, <1>6, <1>8
<1>10. \A i \in DOMAIN c2s': Counted(c2s'[i]) => c2s'[i].n >= tun'.next
  BY <1>2, <1>5, <1>8
<1>11. \A i, j \in DOMAIN c2s': Counted(c2s'[i]) /\ i < j /\ Counted(c2s'[j]) => c2s'[i].n < c2s'[j].n
  BY <1>2, <1>7, <1>8
<1>12. CountersRise'
  BY <1>10, <1>11 DEF CountersRise, Counted
<1> QED
  BY <1>5, <1>8, <1>9, <1>12 DEF CounterInv, Counted

\* Somebody meddles only while this is marked, and the next connection is not marked.
LEMMA CounterKeeps == IInv /\ (strange \/ CounterInv) /\ [BringUpNext]_allVars => strange' \/ CounterInv'
<1> SUFFICES ASSUME IInv, strange \/ CounterInv, [BringUpNext]_allVars
             PROVE  strange' \/ CounterInv'
  OBVIOUS
<1> USE DEF Packet
<1>1. CASE UNCHANGED <<c2s, tun, strange>> /\ conn'.ctr = conn.ctr
  BY <1>1 DEF CounterInv, CountersRise, Counted
<1>2. CASE TellsOut
  <2>1. PICK p: c2s' = Append(c2s, p) /\ ~Counted(p)
    BY <1>2 DEF TellsOut, Counted
  <2>2. conn'.ctr = conn.ctr /\ tun'.next = tun.next /\ strange' = strange
    BY <1>2 DEF TellsOut, IInv, TypeInv
  <2> QED
    BY <2>1, <2>2, CounterSends
<1>3. CASE GetsWelc \/ GetsCook \/ UsesTunnel \/ Responds
  <2>1. PICK p: c2s' = Append(c2s, p) /\ Counted(p) /\ p.n = conn.ctr
    BY <1>3 DEF GetsWelc, GetsCook, UsesTunnel, Responds, ClientSends, Counted
  <2>2. conn'.ctr = conn.ctr + 1 /\ tun'.next = tun.next /\ strange' = strange
    BY <1>3 DEF GetsWelc, GetsCook, UsesTunnel, Responds, IInv, TypeInv
  <2> QED
    BY <2>1, <2>2, CounterSends
<1>4. CASE GetsRedy \/ Concludes \/ GivesUp \/ Closes \/ ReadsTunnel
  BY <1>1, <1>4 DEF GetsRedy, Concludes, GivesUp, Closes, ReadsTunnel, IInv, TypeInv
<1>5. CASE Challenges
  BY <1>5 DEF Challenges, CounterInv, CountersRise, Counted, IInv, TypeInv
<1>6. CASE Tells
  <2>1. c2s # <<>> /\ c2s' = Tail(c2s) /\ conn' = conn /\ tun'.next = tun.next /\ strange' = strange
    BY <1>6 DEF Tells, Arrived, IInv, TypeInv
  <2> QED
    BY <2>1, CounterTakes
<1>7. CASE Cooks \/ Readies \/ Echoes \/ Verifies
  <2>1. c2s # <<>> /\ c2s' = Tail(c2s) /\ conn' = conn /\ Counted(Head(c2s)) /\ strange' = strange
    BY <1>7 DEF Cooks, Readies, Echoes, Verifies, FarReads, Arrived, Counted
  <2>2. tun'.next = Head(c2s).n + 1
    BY <1>7 DEF Cooks, Readies, Echoes, Verifies, IInv, TypeInv
  <2> QED
    BY <2>1, <2>2, CounterTakes
<1>8. CASE HangsUp
  <2>1. c2s' = <<>> /\ DOMAIN c2s' = {} /\ strange' = strange
    BY <1>8 DEF HangsUp
  <2>2. conn'.ctr = conn.ctr /\ tun'.next = tun.next
    BY <1>8 DEF HangsUp, IInv, TypeInv
  <2> QED
    BY <2>1, <2>2 DEF CounterInv, CountersRise
<1>9. CASE GoesOn
  <2>1. c2s' = <<>> /\ DOMAIN c2s' = {} /\ conn'.ctr = 0 /\ tun'.next = 0
    BY <1>9 DEF GoesOn, FreshConn, FreshTunnel
  <2> QED
    BY <2>1 DEF CounterInv, CountersRise
<1>10. CASE MeddlesWithClient \/ MeddlesWithFarEnd
  BY <1>10 DEF MeddlesWithClient, MeddlesWithFarEnd
<1> QED
  BY <1>1, <1>2, <1>3, <1>4, <1>5, <1>6, <1>7, <1>8, <1>9, <1>10
     DEF BringUpNext, TunnelSteps, NegotiationSteps, TunnelNext, Handshakes, FarEnd, allVars

\* No packet of the client is one the far end would drop: the numbers go up
\* over HELO, VOCH and the messages, in the order of the wire (conn.nextCtr).
THEOREM CountersRiseHolds == BringUpSpec => []CountersRise
<1>1. BringUpInit => CounterInv
  BY DEF BringUpInit, TunnelInit, FreshConn, FreshTunnel, CounterInv, CountersRise
<1>2. strange \/ CounterInv => CountersRise
  BY DEF CounterInv, CountersRise
<1> QED
  BY <1>1, <1>2, CounterKeeps, Invariant, PTL DEF BringUpSpec

-------------------------------------------------------------------------------
(* Remainders: sequence numbers wrap *)

LEMMA Divides ==
  ASSUME NEW n \in Nat, NEW m \in Nat \ {0}
  PROVE  \E q \in Nat, r \in 0..(m - 1): n = m * q + r /\ n % m = r
<1>1. n % m \in 0..(m - 1) /\ n \div m \in Int /\ n \div m >= 0
  OBVIOUS
<1>2. n % m = n - m * (n \div m)
  OBVIOUS
<1>3. PICK q, r: q = n \div m /\ r = n % m
  OBVIOUS
<1>4. q \in Nat /\ r \in 0..(m - 1) /\ r = n - m * q
  BY <1>1, <1>2, <1>3
<1>5. n = m * q + r
  BY <1>4
<1>6. n % m = r
  BY <1>3
<1> QED
  BY <1>4, <1>5, <1>6

LEMMA Multiples ==
  ASSUME NEW m \in Nat, NEW a \in Nat, NEW b \in Nat, a < b
  PROVE  m * a + m <= m * b
<1>1. PICK d \in Nat: b = a + 1 + d
  <2>1. b - a - 1 \in Nat /\ b = a + 1 + (b - a - 1)
    OBVIOUS
  <2> QED
    BY <2>1
<1>2. m * d \in Nat /\ m * a \in Nat
  OBVIOUS
<1>3. m * (a + 1 + d) = m * a + m + m * d
  OBVIOUS
<1> QED
  BY <1>1, <1>2, <1>3

LEMMA OneQuotient ==
  ASSUME NEW m \in Nat \ {0}, NEW p \in Nat, NEW q \in Nat, NEW x \in Int, NEW y \in Int,
         m * p + x = m * q + y, x - y < m, y - x < m
  PROVE  p = q /\ x = y
<1>1. m * p \in Nat /\ m * q \in Nat
  OBVIOUS
<1>2. ASSUME p < q
      PROVE  FALSE
  <2>1. m * p + m <= m * q
    BY <1>2, Multiples
  <2> QED
    BY <1>1, <2>1
<1>3. ASSUME q < p
      PROVE  FALSE
  <2>1. m * q + m <= m * p
    BY <1>3, Multiples
  <2> QED
    BY <1>1, <2>1
<1>4. p = q
  BY <1>2, <1>3
<1> QED
  BY <1>1, <1>4

LEMMA ModIs ==
  ASSUME NEW m \in Nat \ {0}, NEW n \in Nat, NEW q \in Nat, NEW r \in 0..(m - 1), n = m * q + r
  PROVE  n % m = r
<1>1. PICK d \in Nat, e \in 0..(m - 1): n = m * d + e /\ n % m = e
  BY Divides
<1>2. d \in Nat /\ e \in Int /\ r \in Int /\ m * d + e = m * q + r /\ e - r < m /\ r - e < m
  BY <1>1
<1>3. e = r
  BY <1>2, OneQuotient
<1> QED
  BY <1>1, <1>3

LEMMA ModNear ==
  ASSUME NEW m \in Nat \ {0}, NEW a \in Nat, NEW b \in Nat, a <= b, b < a + m, a % m = b % m
  PROVE  a = b
<1>1. PICK p \in Nat, r \in 0..(m - 1): a = m * p + r /\ a % m = r
  BY Divides
<1>2. PICK q \in Nat, s \in 0..(m - 1): b = m * q + s /\ b % m = s
  BY Divides
<1>3. r = s
  BY <1>1, <1>2
<1>4. a - b \in Int /\ 0 - (b - a) = a - b /\ m * p \in Nat /\ m * q \in Nat
  OBVIOUS
<1>5. m * p + (b - a) = m * q + 0
  BY <1>1, <1>2, <1>3, <1>4
<1>6. PICK x \in Int: x = b - a
  OBVIOUS
<1>7. x = 0
  BY <1>5, <1>6, OneQuotient
<1> QED
  BY <1>6, <1>7

LEMMA ModNext ==
  ASSUME NEW m \in Nat \ {0}, NEW a \in Nat
  PROVE  ((a % m) + 1) % m = (a + 1) % m
<1>1. PICK p \in Nat, r \in 0..(m - 1): a = m * p + r /\ a % m = r
  BY Divides
<1>2. PICK c \in Nat, t \in Nat: c = a + 1 /\ t = r + 1
  OBVIOUS
<1>3. m * p \in Nat /\ m * 0 = 0 /\ m * 1 = m /\ m * (p + 1) = m * p + m
  OBVIOUS
<1>4. CASE t < m
  <2>1. t \in 0..(m - 1) /\ t = m * 0 + t /\ c = m * p + t
    BY <1>1, <1>2, <1>3, <1>4
  <2>2. t % m = t /\ c % m = t
    BY <2>1, ModIs
  <2> QED
    BY <1>1, <1>2, <2>2
<1>5. CASE t = m
  <2>1. PICK u \in Nat: u = p + 1
    OBVIOUS
  <2>2. t = m * 1 + 0 /\ c = m * u + 0
    BY <1>1, <1>2, <1>3, <1>5, <2>1
  <2>3. t % m = 0 /\ c % m = 0
    BY <2>2, ModIs
  <2> QED
    BY <1>1, <1>2, <2>3
<1> QED
  BY <1>2, <1>4, <1>5

LEMMA ModLast ==
  ASSUME NEW m \in Nat \ {0}, NEW a \in Nat
  PROVE  (((a + 1) % m) + m - 1) % m = a % m
<1>1. PICK p \in Nat, r \in 0..(m - 1): a = m * p + r /\ a % m = r
  BY Divides
<1>2. PICK t \in Nat: t = r + 1
  OBVIOUS
<1>3. (a + 1) % m = t % m
  BY <1>1, <1>2, ModNext
<1>4. m * 0 = 0 /\ m * 1 = m
  OBVIOUS
<1>5. CASE t < m
  <2>1. t \in 0..(m - 1) /\ t = m * 0 + t
    BY <1>4, <1>5
  <2>2. t % m = t
    BY <2>1, ModIs
  <2>3. PICK u \in Nat: u = t + m - 1
    OBVIOUS
  <2>4. u = m * 1 + r
    BY <1>2, <1>4, <2>3
  <2>5. u % m = r
    BY <2>4, ModIs
  <2> QED
    BY <1>1, <1>3, <2>2, <2>3, <2>5
<1>6. CASE t = m
  <2>1. t = m * 1 + 0 /\ r = m * 0 + r
    BY <1>2, <1>4, <1>6
  <2>2. t % m = 0 /\ r % m = r
    BY <2>1, ModIs
  <2>3. (t % m) + m - 1 = r
    BY <1>2, <1>6, <2>2
  <2> QED
    BY <1>1, <1>3, <2>2, <2>3
<1> QED
  BY <1>2, <1>5, <1>6
-------------------------------------------------------------------------------
(* The round trip *)

\* The last ping the grid was sent.
Sent == IF ticking \/ stage = "sendPing" THEN pinged - 1 ELSE pinged

IsPong(i) == wire[i].type = "pong"

\* Pings f to g - 1 have pongs on the way, one each and in order; those from g
\* on are with the grid.  The last ping numbered is not Outstanding ahead.
PongsOf(f, g) ==
  /\ pinged < f + Outstanding
  /\ f <= g /\ Sent + 1 = g + Len(expected)
  /\ \A i \in 1..Len(expected): expected[i] = g + i - 1
  /\ \A i \in 1..Len(wire): IsPong(i) => wire[i].ping \in f..(g - 1)
  /\ \A i, j \in 1..Len(wire): IsPong(i) /\ IsPong(j) /\ i < j => wire[i].ping < wire[j].ping
  /\ \A n \in f..(g - 1): \E i \in 1..Len(wire): IsPong(i) /\ wire[i].ping = n

\* How far the connection is, whatever the pings do.
StageInv ==
  /\ stage \in BringUpStages \cup {"up", "failed", "down"}
  /\ reads \in 0..MaxReads
  /\ deadline \in BOOLEAN /\ ticking \in BOOLEAN /\ lost \in BOOLEAN
  /\ stage \in {"awaitVersion", "awaitPong"} => reads < MaxReads
  /\ ticking => stage \in {"up", "down"}
  /\ stage \in {"failed", "down"} => lost

PingInv ==
  /\ StageInv
  /\ pingSeq = pinged % SeqMod
  /\ ~lost => \E f, g \in Nat \ {0}: PongsOf(f, g)
  /\ RttOfOnePing

\* In a message a pong is the pong of its ping.
LEMMA PongFacts ==
  ASSUME NEW m \in Msgs, m.type = "pong"
  PROVE  m.ping \in 1..PingBound /\ m = Pong(m.ping) /\ m.seq = (m.ping - 1) % SeqMod
<1>1. m \notin Plain
  BY DEF Plain
<1>2. PICK n \in 1..PingBound: m = Pong(n)
  BY <1>1 DEF Msgs
<1>3. m.ping = n /\ m.seq = (n - 1) % SeqMod
  BY <1>2 DEF Pong
<1> QED
  BY <1>2, <1>3

\* As many pongs are on the way as there are pings from f to g - 1.
LEMMA PongsCounted ==
  ASSUME TypeOK, NEW f \in Nat \ {0}, NEW g \in Nat \ {0}, PongsOf(f, g)
  PROVE  /\ Cardinality({i \in 1..Len(wire): wire[i].type = "pong"}) \in Nat
         /\ g - f <= Cardinality({i \in 1..Len(wire): wire[i].type = "pong"})
<1>1. PICK S, T: S = {i \in 1..Len(wire): IsPong(i)} /\ T = f..(g - 1)
  OBVIOUS
<1>2. PICK F: F = [i \in S |-> wire[i].ping]
  OBVIOUS
<1>3. Len(wire) \in Nat
  BY DEF TypeOK
<1>4. IsFiniteSet(S) /\ Cardinality(S) \in Nat
  <2>1. IsFiniteSet(1..Len(wire)) /\ S \in SUBSET (1..Len(wire))
    BY <1>1, <1>3, FS_Interval
  <2> QED
    BY <2>1, FS_Subset, FS_CardinalityType
<1>5. F \in Surjection(S, T)
  <2>1. F \in [S -> T]
    BY <1>1, <1>2 DEF PongsOf
  <2>2. \A n \in T: \E i \in S: F[i] = n
    BY <1>1, <1>2 DEF PongsOf
  <2> QED
    BY <2>1, <2>2 DEF Surjection
<1>6. Cardinality(T) <= Cardinality(S)
  BY <1>4, <1>5, FS_Surjection
<1>7. Cardinality(T) = g - f
  <2>1. f \in Int /\ g - 1 \in Int /\ f <= g
    BY DEF PongsOf
  <2>2. Cardinality(T) = IF f > g - 1 THEN 0 ELSE (g - 1) - f + 1
    BY <1>1, <2>1, FS_Interval
  <2> QED
    BY <2>1, <2>2
<1> QED
  BY <1>1, <1>4, <1>6, <1>7 DEF IsPong

\* The pong of the number just given out is the one for the last ping: the ones
\* that may still come are less than a round of the numbers behind.
LEMMA PongMeasured ==
  ASSUME TypeOK, pingSeq = pinged % SeqMod, pinged > 0,
         NEW f \in Nat \ {0}, pinged < f + Outstanding, NEW n \in Nat, f <= n, n <= pinged,
         (n - 1) % SeqMod = (pingSeq + SeqMod - 1) % SeqMod
  PROVE  n = pinged
<1>1. PICK a \in Nat, b \in Nat: a = n - 1 /\ b = pinged - 1
  BY DEF TypeOK
<1>2. SeqMod \in Nat \ {0} /\ Outstanding \in Nat /\ Outstanding <= SeqMod
  BY PingAssumption
<1>3. pingSeq = (b + 1) % SeqMod
  <2>1. pinged = b + 1
    BY <1>1 DEF TypeOK
  <2> QED
    BY <2>1
<1>4. (pingSeq + SeqMod - 1) % SeqMod = b % SeqMod
  BY <1>1, <1>2, <1>3, ModLast
<1>5. a % SeqMod = b % SeqMod
  BY <1>1, <1>4
<1>6. a <= b /\ b < a + SeqMod
  BY <1>1, <1>2 DEF TypeOK
<1>7. a = b
  BY <1>1, <1>2, <1>5, <1>6, ModNear
<1> QED
  BY <1>1, <1>7 DEF TypeOK

\* What handling the next message does to the round trip.
LEMMA HandlesKeeps ==
  ASSUME TypeOK, PingInv, ~lost, wire # <<>>, Handles(Head(wire))
  PROVE  RttOfOnePing' /\ rtt' \in [ping: 0..PingBound, answered: 0..PingBound]
<1>1. PICK m: m = Head(wire)
  OBVIOUS
<1>2. m \in Msgs /\ 1 \in 1..Len(wire) /\ wire[1] = m
  BY <1>1 DEF TypeOK
<1>3. CASE rtt' = rtt
  BY <1>3 DEF PingInv, RttOfOnePing, TypeOK
<1>4. CASE rtt' # rtt
  <2>1. /\ m.type = "pong" /\ m.seq = (pingSeq + SeqMod - 1) % SeqMod /\ pinged > 0
        /\ rtt' = [ping |-> pinged, answered |-> m.ping]
    BY <1>1, <1>4 DEF Handles, NotePong
  <2>2. m.ping \in 1..PingBound /\ m.seq = (m.ping - 1) % SeqMod
    BY <1>2, <2>1, PongFacts
  <2>3. PICK f \in Nat \ {0}, g \in Nat \ {0}: PongsOf(f, g)
    BY DEF PingInv
  <2>4. PICK n \in Nat: n = m.ping
    BY <2>2
  <2>5. n \in f..(g - 1)
    BY <1>2, <2>1, <2>3, <2>4 DEF PongsOf, IsPong
  <2>6. Len(expected) \in Nat /\ pinged \in 0..PingBound
    BY DEF TypeOK
  <2>7. f <= n /\ n <= pinged /\ pinged < f + Outstanding
    BY <2>3, <2>5, <2>6 DEF PongsOf, Sent
  <2>8. n = pinged
    BY <2>1, <2>2, <2>4, <2>7, PongMeasured DEF PingInv
  <2> QED
    BY <2>1, <2>4, <2>6, <2>8 DEF RttOfOnePing
<1> QED
  BY <1>3, <1>4

\* A ping is numbered while fewer than Outstanding pongs are unread.
LEMMA NumbersKeeps ==
  ASSUME TypeOK, PingInv, NumbersPing, UNCHANGED <<expected, wire, lost>>,
         Sent = pinged, Sent' = pinged
  PROVE  /\ pingSeq' = pinged' % SeqMod
         /\ pingSeq' \in 0..(SeqMod - 1) /\ pinged' \in 0..PingBound
         /\ ~lost => \E f, g \in Nat \ {0}: PongsOf(f, g)'
<1>1. SeqMod \in Nat \ {0} /\ pinged \in Nat /\ Len(expected) \in Nat /\ PingBound \in Nat
  BY PingAssumption DEF TypeOK
<1>2. pingSeq' = ((pinged % SeqMod) + 1) % SeqMod /\ pinged' = pinged + 1 /\ pinged < PingBound
  BY DEF NumbersPing, PingInv
<1>3. pingSeq' = pinged' % SeqMod
  BY <1>1, <1>2, ModNext
<1>4. pingSeq' \in 0..(SeqMod - 1)
  <2>1. PICK next \in Nat: next = pinged'
    BY <1>1, <1>2
  <2>2. next % SeqMod \in 0..(SeqMod - 1)
    BY <1>1, Divides
  <2> QED
    BY <1>3, <2>1, <2>2
<1>5. ASSUME ~lost
      PROVE  \E f, g \in Nat \ {0}: PongsOf(f, g)'
  <2>1. PICK f \in Nat \ {0}, g \in Nat \ {0}: PongsOf(f, g)
    BY <1>5 DEF PingInv
  <2>2. PICK n \in Nat: n = Cardinality({i \in 1..Len(wire): wire[i].type = "pong"}) /\ g - f <= n
    BY <2>1, PongsCounted
  <2>3. Len(expected) + n < Outstanding /\ Outstanding \in Nat
    BY <2>2, PingAssumption DEF NumbersPing, Unread
  <2>4. pinged + 1 = g + Len(expected)
    BY <2>1 DEF PongsOf
  <2>5. pinged' < f + Outstanding
    BY <1>1, <1>2, <2>2, <2>3, <2>4
  <2>6. PongsOf(f, g)'
    BY <2>1, <2>5 DEF PongsOf, IsPong
  <2> QED
    BY <2>6
<1> QED
  BY <1>1, <1>2, <1>3, <1>4, <1>5

\* The ping last numbered goes to the grid.
LEMMA PutsKeeps ==
  ASSUME TypeOK, PingInv, PutsPing, ~lost, UNCHANGED <<pinged, wire>>,
         Sent = pinged - 1, Sent' = pinged
  PROVE  /\ expected' \in Seq(1..PingBound) /\ Len(expected') <= Outstanding
         /\ \E f, g \in Nat \ {0}: PongsOf(f, g)'
<1>1. PICK f \in Nat \ {0}, g \in Nat \ {0}: PongsOf(f, g)
  BY DEF PingInv
<1>2. PICK n \in Nat: n = Len(expected)
  BY DEF TypeOK
<1>3. pinged \in Nat /\ pinged <= PingBound /\ PingBound \in Nat /\ Outstanding \in Nat
  BY PingAssumption DEF TypeOK
<1>4. pinged = g + n /\ f <= g /\ pinged < f + Outstanding
  BY <1>1, <1>2, <1>3 DEF PongsOf
<1>5. pinged \in 1..PingBound /\ n + 1 <= Outstanding
  BY <1>3, <1>4
<1>6. /\ expected' \in Seq(1..PingBound) /\ Len(expected') = n + 1
      /\ \A i \in 1..n: expected'[i] = expected[i]
      /\ expected'[n + 1] = pinged
  BY <1>2, <1>5 DEF TypeOK, PutsPing
<1>7. \A i \in 1..(n + 1): expected'[i] = g + i - 1
  <2>1. \A i \in 1..n: expected[i] = g + i - 1
    BY <1>1, <1>2 DEF PongsOf
  <2>2. \A i \in 1..(n + 1): i \in 1..n \/ i = n + 1
    OBVIOUS
  <2> QED
    BY <1>4, <1>6, <2>1, <2>2
<1>8. pinged + 1 = g + (n + 1)
  BY <1>3, <1>4
<1>9. PongsOf(f, g)'
  BY <1>1, <1>4, <1>6, <1>7, <1>8 DEF PongsOf, IsPong
<1> QED
  BY <1>5, <1>6, <1>9

\* The client takes the next message off the wire.
LEMMA TakesKeeps ==
  ASSUME TypeOK, PingInv, ~lost, wire # <<>>, wire' = Tail(wire),
         UNCHANGED <<pinged, expected>>, Sent' = Sent
  PROVE  /\ wire' \in Seq(Msgs) /\ Len(wire') <= WireCap
         /\ \E f, g \in Nat \ {0}: PongsOf(f, g)'
<1>1. PICK f \in Nat \ {0}, g \in Nat \ {0}: PongsOf(f, g)
  BY DEF PingInv
<1> PICK w, len: w = wire /\ len = Len(wire)
  OBVIOUS
<1>2. /\ len \in Nat \ {0} /\ wire' \in Seq(Msgs) /\ Len(wire') = len - 1 /\ len <= WireCap
      /\ \A i \in 1..(len - 1): wire'[i] = w[i + 1]
  BY DEF TypeOK
<1>3. WireCap \in Nat /\ Len(expected) \in Nat /\ pinged \in Nat /\ Outstanding \in Nat
  BY PingAssumption DEF TypeOK
<1>4. /\ \A i \in 1..len: IsPong(i) => w[i].ping \in f..(g - 1)
      /\ \A i, j \in 1..len: IsPong(i) /\ IsPong(j) /\ i < j => w[i].ping < w[j].ping
      /\ \A n \in f..(g - 1): \E i \in 1..len: IsPong(i) /\ w[i].ping = n
  BY <1>1 DEF PongsOf
<1>5. /\ \A i \in 1..(len - 1): i + 1 \in 1..len /\ (IsPong(i)' <=> IsPong(i + 1))
      /\ \A i \in 1..len: i = 1 \/ (i - 1 \in 1..(len - 1) /\ (i - 1) + 1 = i)
  BY <1>2 DEF IsPong
<1>6. \A i, j \in 1..(len - 1): IsPong(i)' /\ IsPong(j)' /\ i < j => wire'[i].ping < wire'[j].ping
  <2>1. ASSUME NEW i \in 1..(len - 1), NEW j \in 1..(len - 1), IsPong(i)', IsPong(j)', i < j
        PROVE  wire'[i].ping < wire'[j].ping
    <3>1. i + 1 < j + 1 /\ IsPong(i + 1) /\ IsPong(j + 1) /\ i + 1 \in 1..len /\ j + 1 \in 1..len
      BY <1>5, <2>1
    <3> QED
      BY <1>2, <1>4, <3>1
  <2> QED
    BY <2>1
<1>7. CASE IsPong(1)
  <2>1. 1 \in 1..len /\ w[1].ping \in f..(g - 1)
    BY <1>2, <1>4, <1>7
  <2>2. w[1].ping = f
    <3>1. f \in f..(g - 1)
      BY <2>1
    <3>2. PICK i \in 1..len: IsPong(i) /\ w[i].ping = f
      BY <1>4, <3>1
    <3>3. i = 1 \/ 1 < i
      BY <1>2
    <3>4. ~(1 < i)
      BY <1>4, <1>7, <2>1, <3>2
    <3> QED
      BY <3>2, <3>3, <3>4
  <2> PICK e \in Nat \ {0}: e = f + 1
    OBVIOUS
  <2>3. \A i \in 1..(len - 1): IsPong(i)' => wire'[i].ping \in e..(g - 1)
    <3>1. ASSUME NEW i \in 1..(len - 1), IsPong(i)'
          PROVE  wire'[i].ping \in e..(g - 1)
      <4>1. IsPong(i + 1) /\ i + 1 \in 1..len /\ 1 < i + 1
        BY <1>5, <3>1
      <4>2. w[i + 1].ping \in f..(g - 1) /\ f < w[i + 1].ping
        BY <1>4, <1>7, <2>1, <2>2, <4>1
      <4> QED
        BY <1>2, <4>2
    <3> QED
      BY <3>1
  <2>4. \A n \in e..(g - 1): \E i \in 1..(len - 1): IsPong(i)' /\ wire'[i].ping = n
    <3>1. ASSUME NEW n \in e..(g - 1)
          PROVE  \E i \in 1..(len - 1): IsPong(i)' /\ wire'[i].ping = n
      <4>1. n \in f..(g - 1) /\ n # f
        OBVIOUS
      <4>2. PICK i \in 1..len: IsPong(i) /\ w[i].ping = n
        BY <1>4, <4>1
      <4>3. PICK j \in 1..(len - 1): i = j + 1
        BY <1>5, <2>2, <4>1, <4>2
      <4>4. IsPong(j)' /\ wire'[j].ping = n
        BY <1>2, <1>5, <4>2, <4>3
      <4> QED
        BY <4>4
    <3> QED
      BY <3>1
  <2>5. pinged < e + Outstanding /\ e <= g
    BY <1>1, <1>3, <2>1 DEF PongsOf
  <2>6. PongsOf(e, g)'
    BY <1>1, <1>2, <1>6, <2>3, <2>4, <2>5 DEF PongsOf
  <2> QED
    BY <1>2, <1>3, <2>6
<1>8. CASE ~IsPong(1)
  <2>1. \A i \in 1..(len - 1): IsPong(i)' => wire'[i].ping \in f..(g - 1)
    BY <1>2, <1>4, <1>5
  <2>2. \A n \in f..(g - 1): \E i \in 1..(len - 1): IsPong(i)' /\ wire'[i].ping = n
    <3>1. ASSUME NEW n \in f..(g - 1)
          PROVE  \E i \in 1..(len - 1): IsPong(i)' /\ wire'[i].ping = n
      <4>1. PICK i \in 1..len: IsPong(i) /\ w[i].ping = n
        BY <1>4
      <4>2. PICK j \in 1..(len - 1): i = j + 1
        BY <1>5, <1>8, <4>1
      <4>3. IsPong(j)' /\ wire'[j].ping = n
        BY <1>2, <1>5, <4>1, <4>2
      <4> QED
        BY <4>3
    <3> QED
      BY <3>1
  <2>3. PongsOf(f, g)'
    BY <1>1, <1>2, <1>6, <2>1, <2>2 DEF PongsOf
  <2> QED
    BY <1>2, <1>3, <2>3
<1> QED
  BY <1>7, <1>8

\* A message goes on the wire: the pong of the next ping, or no pong at all.
LEMMA WireKeeps ==
  ASSUME TypeOK, PingInv, ~lost, Len(wire) < WireCap, UNCHANGED <<pinged, ticking, stage>>,
         \/ GridAnswers
         \/ \E m \in Plain: wire' = Append(wire, m) /\ expected' = expected
  PROVE  /\ wire' \in Seq(Msgs) /\ Len(wire') <= WireCap
         /\ expected' \in Seq(1..PingBound) /\ Len(expected') <= Outstanding
         /\ \E f, g \in Nat \ {0}: PongsOf(f, g)'
<1>1. PICK f \in Nat \ {0}, g \in Nat \ {0}: PongsOf(f, g)
  BY DEF PingInv
<1> PICK w, len, x, n: w = wire /\ len = Len(wire) /\ x = expected /\ n = Len(expected)
  OBVIOUS
<1>2. /\ len \in Nat /\ n \in Nat /\ w \in Seq(Msgs) /\ x \in Seq(1..PingBound)
      /\ len < WireCap /\ n <= Outstanding /\ pinged \in Nat /\ Sent' = Sent
      /\ WireCap \in Nat /\ Outstanding \in Nat /\ PingBound \in Nat
  BY PingAssumption DEF TypeOK, Sent
<1>3. /\ \A i \in 1..len: IsPong(i) => w[i].ping \in f..(g - 1)
      /\ \A i, j \in 1..len: IsPong(i) /\ IsPong(j) /\ i < j => w[i].ping < w[j].ping
      /\ \A k \in f..(g - 1): \E i \in 1..len: IsPong(i) /\ w[i].ping = k
      /\ pinged < f + Outstanding /\ f <= g /\ Sent + 1 = g + n
      /\ \A i \in 1..n: x[i] = g + i - 1
  BY <1>1 DEF PongsOf
<1>4. \A i \in 1..(len + 1): i \in 1..len \/ i = len + 1
  BY <1>2
<1>5. CASE GridAnswers
  <2> PICK h \in Nat \ {0}: h = g + 1
    OBVIOUS
  <2>1. n \in Nat \ {0} /\ x[1] = g /\ Head(x) = g /\ g \in 1..PingBound
    BY <1>2, <1>3, <1>5 DEF GridAnswers
  <2> PICK m: m = Pong(g)
    OBVIOUS
  <2>2. m \in Msgs /\ m.ping = g /\ m.type = "pong"
    BY <2>1 DEF Msgs, Pong
  <2>3. /\ wire' \in Seq(Msgs) /\ Len(wire') = len + 1 /\ wire'[len + 1] = m
        /\ \A i \in 1..len: wire'[i] = w[i]
    BY <1>2, <1>5, <2>1, <2>2 DEF GridAnswers
  <2>4. /\ expected' \in Seq(1..PingBound) /\ Len(expected') = n - 1
        /\ \A i \in 1..(n - 1): expected'[i] = x[i + 1]
    BY <1>2, <1>5, <2>1 DEF GridAnswers
  <2>5. IsPong(len + 1)' /\ \A i \in 1..len: IsPong(i)' <=> IsPong(i)
    BY <2>2, <2>3 DEF IsPong
  <2>6. \A i \in 1..(len + 1): IsPong(i)' => wire'[i].ping \in f..(h - 1)
    <3>1. \A i \in 1..len: IsPong(i)' => wire'[i].ping \in f..(h - 1)
      BY <1>3, <2>3, <2>5
    <3>2. wire'[len + 1].ping \in f..(h - 1)
      BY <1>3, <2>2, <2>3
    <3> QED
      BY <1>4, <3>1, <3>2
  <2>7. \A i, j \in 1..(len + 1): IsPong(i)' /\ IsPong(j)' /\ i < j => wire'[i].ping < wire'[j].ping
    <3>1. ASSUME NEW i \in 1..(len + 1), NEW j \in 1..(len + 1), IsPong(i)', IsPong(j)', i < j
          PROVE  wire'[i].ping < wire'[j].ping
      <4>1. i \in 1..len
        BY <1>2, <3>1
      <4>2. CASE j \in 1..len
        BY <1>3, <2>3, <2>5, <3>1, <4>1, <4>2
      <4>3. CASE j = len + 1
        <5>1. w[i].ping \in f..(g - 1)
          BY <1>3, <2>5, <3>1, <4>1
        <5> QED
          BY <2>2, <2>3, <4>1, <4>3, <5>1
      <4> QED
        BY <1>4, <4>2, <4>3
    <3> QED
      BY <3>1
  <2>8. \A k \in f..(h - 1): \E i \in 1..(len + 1): IsPong(i)' /\ wire'[i].ping = k
    <3>1. ASSUME NEW k \in f..(h - 1)
          PROVE  \E i \in 1..(len + 1): IsPong(i)' /\ wire'[i].ping = k
      <4>1. CASE k = g
        <5>1. len + 1 \in 1..(len + 1)
          BY <1>2
        <5> QED
          BY <2>2, <2>3, <2>5, <4>1, <5>1
      <4>2. CASE k \in f..(g - 1)
        <5>1. PICK i \in 1..len: IsPong(i) /\ w[i].ping = k
          BY <1>3, <4>2
        <5>2. i \in 1..(len + 1) /\ IsPong(i)' /\ wire'[i].ping = k
          BY <1>2, <2>3, <2>5, <5>1
        <5> QED
          BY <5>2
      <4> QED
        BY <4>1, <4>2
    <3> QED
      BY <3>1
  <2>9. \A i \in 1..(n - 1): expected'[i] = h + i - 1
    <3>1. ASSUME NEW i \in 1..(n - 1)
          PROVE  expected'[i] = h + i - 1
      <4>1. i + 1 \in 1..n /\ expected'[i] = x[i + 1]
        BY <2>1, <2>4
      <4> QED
        BY <1>3, <4>1
    <3> QED
      BY <3>1
  <2>10. f <= h /\ Sent + 1 = h + (n - 1)
    BY <1>2, <1>3, <2>1
  <2>11. PongsOf(f, h)'
    BY <1>2, <1>3, <2>3, <2>4, <2>6, <2>7, <2>8, <2>9, <2>10 DEF PongsOf
  <2> QED
    BY <1>2, <2>1, <2>3, <2>4, <2>11
<1>6. CASE \E m \in Plain: wire' = Append(wire, m) /\ expected' = expected
  <2>1. PICK m \in Plain: wire' = Append(wire, m) /\ expected' = expected
    BY <1>6
  <2>2. m \in Msgs /\ m.type # "pong"
    BY DEF Msgs, Plain
  <2>3. /\ wire' \in Seq(Msgs) /\ Len(wire') = len + 1 /\ wire'[len + 1] = m
        /\ \A i \in 1..len: wire'[i] = w[i]
    BY <1>2, <2>1, <2>2
  <2>4. ~IsPong(len + 1)' /\ \A i \in 1..len: IsPong(i)' <=> IsPong(i)
    BY <2>2, <2>3 DEF IsPong
  <2>5. \A i \in 1..(len + 1): IsPong(i)' => i \in 1..len /\ IsPong(i) /\ wire'[i] = w[i]
    BY <1>4, <2>3, <2>4
  <2>6. \A k \in f..(g - 1): \E i \in 1..(len + 1): IsPong(i)' /\ wire'[i].ping = k
    <3>1. ASSUME NEW k \in f..(g - 1)
          PROVE  \E i \in 1..(len + 1): IsPong(i)' /\ wire'[i].ping = k
      <4>1. PICK i \in 1..len: IsPong(i) /\ w[i].ping = k
        BY <1>3
      <4>2. i \in 1..(len + 1) /\ IsPong(i)' /\ wire'[i].ping = k
        BY <1>2, <2>3, <2>4, <4>1
      <4> QED
        BY <4>2
    <3> QED
      BY <3>1
  <2>7. \A i \in 1..(len + 1): IsPong(i)' => wire'[i].ping \in f..(g - 1)
    BY <1>3, <2>5
  <2>8. \A i, j \in 1..(len + 1): IsPong(i)' /\ IsPong(j)' /\ i < j => wire'[i].ping < wire'[j].ping
    <3>1. ASSUME NEW i \in 1..(len + 1), NEW j \in 1..(len + 1), IsPong(i)', IsPong(j)', i < j
          PROVE  wire'[i].ping < wire'[j].ping
      <4>1. i \in 1..len /\ IsPong(i) /\ wire'[i] = w[i] /\ j \in 1..len /\ IsPong(j) /\ wire'[j] = w[j]
        BY <2>5, <3>1
      <4> QED
        BY <1>3, <3>1, <4>1
    <3> QED
      BY <3>1
  <2>9. PongsOf(f, g)'
    BY <1>2, <1>3, <2>1, <2>3, <2>6, <2>7, <2>8 DEF PongsOf
  <2> QED
    BY <1>2, <2>1, <2>3, <2>9
<1> QED
  BY <1>5, <1>6

LEMMA StageKeeps == StageInv /\ Next => StageInv'
<1> SUFFICES ASSUME StageInv, Next
             PROVE  StageInv'
  OBVIOUS
<1> USE DEF StageInv, BringUpStages
<1>0. MaxReads \in Nat \ {0}
  BY PingAssumption
<1>1. CASE SendsVersion \/ SendsFirstPing
  BY <1>0, <1>1 DEF SendsVersion, SendsFirstPing, Steps
<1>2. CASE NumbersFirstPing \/ TickNumbers \/ TickSends
  <2>1. /\ UNCHANGED <<deadline, lost>> /\ ticking' \in BOOLEAN
        /\ stage' \in BringUpStages \cup {"up"} /\ stage' \notin {"awaitVersion", "awaitPong"}
        /\ reads' = reads
    BY <1>2 DEF NumbersFirstPing, TickNumbers, TickSends, Steps
  <2>2. ticking' => stage' \in {"up", "down"}
    BY <1>2 DEF NumbersFirstPing, TickNumbers, TickSends, Steps
  <2> QED
    BY <2>1, <2>2
<1>3. CASE GetsVersion
  BY <1>3 DEF GetsVersion, Awaits, Fails
<1>4. CASE GetsPong
  BY <1>4 DEF GetsPong, Awaits
<1>5. CASE Wades
  <2>1. stage \in {"awaitVersion", "awaitPong"} /\ reads' = reads + 1 /\ UNCHANGED <<deadline, ticking>>
    BY <1>5 DEF Wades, Awaits
  <2>2. \/ reads + 1 < MaxReads /\ UNCHANGED <<stage, lost>>
        \/ stage' = "failed" /\ lost' = TRUE
    BY <1>5 DEF Wades, Fails
  <2>3. reads + 1 \in 0..MaxReads
    BY <1>0, <2>1
  <2> QED
    BY <2>1, <2>2, <2>3
<1>6. CASE StepFails \/ StepTimesOut \/ GoesDown \/ Breaks
  <2>1. UNCHANGED <<reads, deadline, ticking>> /\ lost' = TRUE
    BY <1>6 DEF StepFails, StepTimesOut, GoesDown, Breaks, Fails
  <2>2. stage' \in {"failed", "down", "up"}
    BY <1>6 DEF StepFails, StepTimesOut, GoesDown, Breaks, Fails
  <2>3. ticking => stage' \in {"up", "down"}
    BY <1>6 DEF StepFails, StepTimesOut, GoesDown, Breaks, Fails
  <2> QED
    BY <2>1, <2>2, <2>3
<1>7. CASE ReadsMessage \/ GridAnswers \/ GridVolunteers
  BY <1>7 DEF ReadsMessage, GridAnswers, GridVolunteers
<1> QED
  BY <1>1, <1>2, <1>3, <1>4, <1>5, <1>6, <1>7 DEF Next, ClientSteps, GridSteps, Negotiate

LEMMA PingKeeps == TypeOK /\ PingInv /\ [Next]_vars => TypeOK' /\ PingInv'
<1> SUFFICES ASSUME TypeOK, PingInv, [Next]_vars
             PROVE  TypeOK' /\ PingInv'
  OBVIOUS
<1> USE DEF vars
<1>1. CASE UNCHANGED vars
  BY <1>1 DEF TypeOK, PingInv, StageInv, PongsOf, IsPong, Sent, RttOfOnePing
<1>8. Next => StageInv'
  BY StageKeeps DEF PingInv
<1>2. CASE SendsVersion
  <2>2. UNCHANGED <<pingSeq, pinged, rtt, expected, wire, lost>>
    BY <1>2 DEF SendsVersion, Steps
  <2>1. \A f, g: PongsOf(f, g) => PongsOf(f, g)'
    BY <1>2 DEF SendsVersion, Steps, PongsOf, IsPong, Sent
  <2>3. StageInv'
    BY <1>2, <1>8 DEF Next, ClientSteps, Negotiate
  <2> QED
    BY <2>1, <2>2, <2>3 DEF TypeOK, PingInv, StageInv, RttOfOnePing
<1>3. CASE NumbersFirstPing \/ TickNumbers
  <2>1. NumbersPing /\ UNCHANGED <<expected, wire, lost, reads, deadline, rtt>>
    BY <1>3 DEF NumbersFirstPing, TickNumbers, Steps
  <2>2. Sent = pinged /\ Sent' = pinged
    BY <1>3, <2>1 DEF NumbersFirstPing, TickNumbers, Steps, Sent, NumbersPing, PingInv, StageInv, TypeOK
  <2>3. /\ pingSeq' = pinged' % SeqMod
        /\ pingSeq' \in 0..(SeqMod - 1) /\ pinged' \in 0..PingBound
        /\ ~lost => \E f, g \in Nat \ {0}: PongsOf(f, g)'
    BY <2>1, <2>2, NumbersKeeps
  <2>4. StageInv'
    BY <1>3, <1>8 DEF Next, ClientSteps, Negotiate
  <2> QED
    BY <2>1, <2>3, <2>4 DEF TypeOK, PingInv, StageInv, RttOfOnePing
<1>4. CASE SendsFirstPing \/ TickSends
  <2>1. PutsPing /\ ~lost /\ UNCHANGED <<pinged, pingSeq, wire, lost, deadline, rtt>>
    BY <1>4 DEF SendsFirstPing, TickSends, Steps
  <2>2. Sent = pinged - 1 /\ Sent' = pinged
    BY <1>4, <2>1 DEF SendsFirstPing, TickSends, Steps, Sent, PingInv, StageInv
  <2>3. /\ expected' \in Seq(1..PingBound) /\ Len(expected') <= Outstanding
        /\ \E f, g \in Nat \ {0}: PongsOf(f, g)'
    BY <2>1, <2>2, PutsKeeps
  <2>4. StageInv'
    BY <1>4, <1>8 DEF Next, ClientSteps, Negotiate
  <2> QED
    BY <2>1, <2>3, <2>4 DEF TypeOK, PingInv, StageInv, RttOfOnePing
<1>5. CASE GetsVersion \/ GetsPong \/ Wades \/ ReadsMessage
  <2>1. /\ ~lost /\ wire # <<>> /\ wire' = Tail(wire)
        /\ UNCHANGED <<pingSeq, pinged, ticking, expected>>
    BY <1>5 DEF GetsVersion, GetsPong, Wades, ReadsMessage, Awaits
  <2>2. RttOfOnePing' /\ rtt' \in [ping: 0..PingBound, answered: 0..PingBound]
    <3>1. CASE rtt' = rtt
      BY <3>1 DEF PingInv, RttOfOnePing, TypeOK
    <3>2. CASE Handles(Head(wire))
      BY <2>1, <3>2, HandlesKeeps
    <3>3. rtt' = rtt \/ Handles(Head(wire))
      BY <1>5 DEF GetsVersion, GetsPong, Wades, ReadsMessage, Handles
    <3> QED
      BY <3>1, <3>2, <3>3
  <2>3. StageInv' /\ stage # "sendPing" /\ stage' # "sendPing"
    <3>1. StageInv'
      BY <1>5, <1>8 DEF Next, ClientSteps, Negotiate
    <3>2. stage # "sendPing" /\ stage' # "sendPing"
      BY <1>5 DEF GetsVersion, GetsPong, Wades, ReadsMessage, Awaits, Fails
    <3> QED
      BY <3>1, <3>2
  <2>4. Sent' = Sent
    BY <2>1, <2>3 DEF Sent
  <2>5. /\ wire' \in Seq(Msgs) /\ Len(wire') <= WireCap
        /\ \E f, g \in Nat \ {0}: PongsOf(f, g)'
    BY <2>1, <2>4, TakesKeeps
  <2> QED
    BY <2>1, <2>2, <2>3, <2>5 DEF TypeOK, PingInv, StageInv
<1>6. CASE StepFails \/ StepTimesOut \/ GoesDown \/ Breaks
  <2>1. StageInv' /\ lost' = TRUE
    BY <1>6, <1>8 DEF Next, ClientSteps, GridSteps, StepFails, StepTimesOut, GoesDown, Breaks, Fails
  <2>2. UNCHANGED <<pingSeq, pinged, rtt, expected, wire>>
    BY <1>6 DEF StepFails, StepTimesOut, GoesDown, Breaks
  <2> QED
    BY <2>1, <2>2 DEF TypeOK, PingInv, StageInv, RttOfOnePing
<1>7. CASE GridAnswers \/ GridVolunteers
  <2>1. /\ ~lost /\ Len(wire) < WireCap
        /\ UNCHANGED <<stage, reads, deadline, pingSeq, pinged, rtt, ticking, lost>>
    BY <1>7 DEF GridAnswers, GridVolunteers
  <2>2. GridAnswers \/ \E m \in Plain: wire' = Append(wire, m) /\ expected' = expected
    BY <1>7 DEF GridVolunteers
  <2>3. /\ wire' \in Seq(Msgs) /\ Len(wire') <= WireCap
        /\ expected' \in Seq(1..PingBound) /\ Len(expected') <= Outstanding
        /\ \E f, g \in Nat \ {0}: PongsOf(f, g)'
    BY <2>1, <2>2, WireKeeps
  <2>4. StageInv'
    BY <1>7, <1>8 DEF Next, GridSteps
  <2> QED
    BY <2>1, <2>3, <2>4 DEF TypeOK, PingInv, StageInv, RttOfOnePing
<1> QED
  BY <1>1, <1>2, <1>3, <1>4, <1>5, <1>6, <1>7 DEF Next, ClientSteps, GridSteps, Negotiate

LEMMA PingBegins == Init => TypeOK /\ PingInv
<1> SUFFICES ASSUME Init
             PROVE  TypeOK /\ PingInv
  OBVIOUS
<1>1. SeqMod \in Nat \ {0} /\ Outstanding \in Nat \ {0} /\ Outstanding <= SeqMod
  BY PingAssumption
<1>2. TypeOK
  <2>1. reads \in 0..MaxReads /\ pingSeq \in 0..(SeqMod - 1) /\ pinged \in 0..PingBound
    BY <1>1, PingAssumption DEF Init
  <2>2. rtt \in [ping: 0..PingBound, answered: 0..PingBound]
    BY PingAssumption DEF Init, None
  <2>3. expected \in Seq(1..PingBound) /\ Len(expected) <= Outstanding
    BY <1>1 DEF Init
  <2>4. wire \in Seq(Msgs) /\ Len(wire) <= WireCap
    BY PingAssumption DEF Init
  <2>5. /\ stage \in BringUpStages \cup {"up", "failed", "down"}
        /\ deadline \in BOOLEAN /\ ticking \in BOOLEAN /\ lost \in BOOLEAN
    BY DEF Init, BringUpStages
  <2> QED
    BY <2>1, <2>2, <2>3, <2>4, <2>5 DEF TypeOK
<1>3. 0 % SeqMod = 0
  <2>1. PICK q \in Nat, r \in 0..(SeqMod - 1): 0 = SeqMod * q + r /\ 0 % SeqMod = r
    BY <1>1, Divides
  <2>2. SeqMod * q \in Nat
    BY <1>1
  <2> QED
    BY <1>1, <2>1, <2>2
<1>4. PongsOf(1, 1)
  BY <1>1 DEF Init, PongsOf, IsPong, Sent
<1> QED
  <2>1. pingSeq = pinged % SeqMod
    BY <1>3 DEF Init
  <2>2. StageInv
    BY <1>2 DEF Init, TypeOK, StageInv
  <2>3. RttOfOnePing
    BY DEF Init, None, RttOfOnePing
  <2>4. \E f, g \in Nat \ {0}: PongsOf(f, g)
    BY <1>4
  <2> QED
    BY <1>2, <2>1, <2>2, <2>3, <2>4 DEF PingInv

\* Under the tunnel that carries them the pings go as they do by themselves.
THEOREM BringUpPings == BringUpSpec => Spec
<1>1. BringUpInit => Init
  BY DEF BringUpInit
<1>2. [BringUpNext]_allVars => [Next]_vars
  BY DEF BringUpNext, TunnelSteps, NegotiationSteps, Next, allVars
<1> QED
  BY <1>1, <1>2, PTL DEF BringUpSpec, Spec

THEOREM PingInvariance == Spec => [](TypeOK /\ PingInv)
  BY PingBegins, PingKeeps, PTL DEF Spec

\* The round trip reported is that of one ping, whichever pongs are late and
\* however often the 32 bits of the sequence numbers have wrapped (sendPing and
\* notePong, grid.go), as long as a pong is less than a round late.
THEOREM RttOfOnePingHolds == BringUpSpec => []RttOfOnePing
<1>1. PingInv => RttOfOnePing
  BY DEF PingInv
<1> QED
  BY <1>1, BringUpPings, PingInvariance, PTL
===============================================================================
