--------------------------------- MODULE Tunnel ---------------------------------
(***************************************************************************)
(* The encrypted tunnel: handshakeAny and the messages after it (conn.go,  *)
(* handshake.go, crypto.go, nonce.go), the pairing exchange on top of it   *)
(* (pairing.go), and the other end, a grid server or a frame, as the       *)
(* servers of the tests have it (sdgtest/tunnel.go, fakepeer.go).          *)
(*                                                                         *)
(* One client makes one connection after another; what is the same on each *)
(* is its long-term key.  Cryptography is symbolic: a box names the two    *)
(* keys it was made with, and opens for those two and its own nonce.       *)
(* Between the two there may be a stranger, another device or a relay,     *)
(* that does not keep to the protocol and has one key of its own.          *)
(***************************************************************************)
EXTENDS Naturals, Sequences, FiniteSets

CONSTANTS
  Me,          \* this client's long-term key
  Server,      \* the key grid servers are known by
  Frame,       \* the frame a peer or local connection is for
  Ends,        \* the long-term keys of those who may be at the far end
  Stranger,    \* the key of somebody who may be on the way
  Codes,       \* pairing codes
  CodeOf,      \* the code each of the far ends shows
  Plans,       \* the connections made, one after the other, by mode
  MesgBound    \* bound: messages sent on a connection to a frame

Modes == {"grid", "peer", "pairing", "local"}

ASSUME KeyAssumption ==
  /\ Frame \in Ends /\ Me \notin Ends /\ Stranger \notin Ends \cup {Me}
  /\ (Ends \cup {Me, Stranger}) \cap Nat = {}
ASSUME CodeAssumption == CodeOf \in [Ends -> Codes]
ASSUME PlanAssumption == \A p \in Plans: p \in Seq(Modes) /\ p # <<>>
ASSUME MesgAssumption == MesgBound \in Nat

VARIABLES
  plan,      \* the connections to make
  attempt,   \* the one being made
  accepts,   \* the keys acceptable in WELC; none means any
  typed,     \* the pairing code the user typed, if any
  far,       \* who is at the far end
  conn,      \* conn: serverLongPK, shortPK, shared, ctr, and how far the client is
  tun,       \* Tunnel: the same of the far end
  c2s, s2c,  \* packets on the way
  made,      \* random keys and nonces drawn so far, numbered
  sealed,    \* every box the two ends ever made
  strange    \* somebody on the way has put in a packet, on this connection

tunnelVars == <<plan, attempt, accepts, typed, far, conn, tun, c2s, s2c, made, sealed, strange>>
givenVars == <<plan, attempt, accepts, typed, far>>

mode == plan[attempt]

FreshConn == [pc |-> "tell", remote |-> Me, short |-> 0, shared |-> {}, ctr |-> 0, expected |-> <<>>]
FreshTunnel == [pc |-> "tell", client |-> 0, peer |-> Me, shared |-> {}, ctr |-> 0, next |-> 0,
                props |-> {}]

\* What a caller is prepared to meet: a grid by its pinned keys, if any; a
\* frame by its peer id; in pairing whoever has the code.
MayAccept(m) ==
  CASE m = "grid" -> {{Server}, {}} [] m = "pairing" -> {{}} [] OTHER -> {{Frame}}

TunnelInit ==
  /\ plan \in Plans /\ attempt = 1
  /\ accepts \in MayAccept(mode)
  /\ typed \in (IF \E i \in DOMAIN plan: plan[i] = "pairing" THEN Codes ELSE {"none"})
  /\ far \in Ends
  /\ conn = FreshConn /\ tun = FreshTunnel
  /\ c2s = <<>> /\ s2c = <<>>
  /\ made = 0 /\ sealed = {} /\ strange = FALSE

-------------------------------------------------------------------------------
(* Boxes and packets *)

\* Made with one key of ours and one of theirs; label and number are the nonce.
Box(keys, label, n, plain) == [keys |-> keys, nonce |-> <<label, n>>, plain |-> plain]
NoBox == Box({}, "", 0, <<>>)
Opens(box, keys, label, n) == box.keys = keys /\ box.nonce = <<label, n>>

\* A packet, with the number it carries, its box, and what it says in clear.
Packet(cmd, n, box, clear) == [cmd |-> cmd, n |-> n, box |-> box, clear |-> clear]
Arrived(wire, cmd) == wire # <<>> /\ Head(wire).cmd = cmd

MesgLabel(end) == IF end = "client" THEN "CurveCP-client-M" ELSE "CurveCP-server-M"

Cookie == "cookie"

\* What the VOCH says beyond who is calling: nothing over a relay, where the
\* grid has said it already.
Trailer(m) == CASE m = "grid" -> {"certificate"} [] m = "local" -> {"protocol"} [] OTHER -> {}

-------------------------------------------------------------------------------
(* The client: handshakeAny *)

\* Mutant: the key in WELC is taken as it comes.
Known_Any(key) == TRUE

Known(key) == accepts = {} \/ key \in accepts

\* Mutant: one ephemeral key for the life of the process.
ClientKey_Kept == 1

\* generateEphemeral: never drawn before.
ClientKey == made + 1

TellsOut ==
  /\ conn.pc = "tell"
  /\ conn' = [conn EXCEPT !.pc = "welc"]
  /\ c2s' = Append(c2s, Packet("TELL", 0, NoBox, 0))
  /\ UNCHANGED <<givenVars, strange, tun, s2c, made, sealed>>

\* Shows that we hold the other half of the ephemeral key.
HeloBox(remote) == Box({ClientKey, remote}, "CurveCP-client-H", conn.ctr, <<"zeros">>)

\* WELC names the other end; HELO answers it with an ephemeral key.
GetsWelc ==
  /\ conn.pc = "welc" /\ Arrived(s2c, "WELC")
  /\ LET remote == Head(s2c).clear
     IN /\ Known(remote)
        /\ conn' = [conn EXCEPT !.pc = "cook", !.remote = remote, !.short = ClientKey, !.ctr = @ + 1]
        /\ c2s' = Append(c2s, Packet("HELO", conn.ctr, HeloBox(remote), ClientKey))
        /\ sealed' = sealed \cup {HeloBox(remote)}
  /\ s2c' = Tail(s2c) /\ made' = made + 1
  /\ UNCHANGED <<givenVars, strange, tun>>

\* Mutant: whatever comes as a COOK is taken.
OpensCook_Any(p) == TRUE

OpensCook(p) == Opens(p.box, {conn.short, conn.remote}, "CurveCPK", p.n)

\* The box in the VOCH that binds the ephemeral key to the long-term one; its
\* nonce is drawn at random.
Voucher == Box({Me, conn.remote}, "CurveCPV", made + 1, <<"vouch", conn.short>>)

VochBox(shared) ==
  Box(shared, "CurveCP-client-I", conn.ctr, <<"voch", Me, Voucher, Trailer(mode)>>)

\* COOK brings the other ephemeral key; VOCH says who we are and, in a box of
\* its own, that the ephemeral key of this connection is ours.
GetsCook ==
  /\ conn.pc = "cook" /\ Arrived(s2c, "COOK")
  /\ OpensCook(Head(s2c))
  /\ LET cook == Head(s2c).box.plain
         shared == {conn.short, cook[2]}
     IN /\ conn' = [conn EXCEPT !.pc = "redy", !.shared = shared, !.ctr = @ + 1]
        /\ c2s' = Append(c2s, Packet("VOCH", conn.ctr, VochBox(shared), cook[3]))
        /\ sealed' = sealed \cup {Voucher, VochBox(shared)}
  /\ s2c' = Tail(s2c) /\ made' = made + 1
  /\ UNCHANGED <<givenVars, strange, tun>>

TunnelUp == IF mode = "pairing" THEN "challenge" ELSE "up"

\* Mutant: whatever comes as a REDY is taken.
OpensRedy_Any(p) == TRUE

OpensRedy(p) == Opens(p.box, conn.shared, "CurveCP-server-R", p.n)

\* Mutant: the messages are counted from nought again.
GetsRedy_Recounts ==
  /\ conn.pc = "redy" /\ Arrived(s2c, "REDY") /\ OpensRedy(Head(s2c))
  /\ conn' = [conn EXCEPT !.pc = TunnelUp, !.ctr = 0]
  /\ s2c' = Tail(s2c)
  /\ UNCHANGED <<givenVars, strange, tun, c2s, made, sealed>>

\* Only who opened the VOCH can have made the REDY.
GetsRedy ==
  /\ conn.pc = "redy" /\ Arrived(s2c, "REDY") /\ OpensRedy(Head(s2c))
  /\ conn' = [conn EXCEPT !.pc = TunnelUp]
  /\ s2c' = Tail(s2c)
  /\ UNCHANGED <<givenVars, strange, tun, c2s, made, sealed>>

-------------------------------------------------------------------------------
(* The far end's side of the handshake *)

Tells ==
  /\ tun.pc = "tell" /\ Arrived(c2s, "TELL")
  /\ tun' = [tun EXCEPT !.pc = "helo"]
  /\ s2c' = Append(s2c, Packet("WELC", 0, NoBox, far))
  /\ c2s' = Tail(c2s)
  /\ UNCHANGED <<givenVars, strange, conn, made, sealed>>

\* A number lower than one seen before is refused; the far end counts for itself.
Counts(p) == p.n >= tun.next

OpensHelo(p) ==
  /\ Opens(p.box, {p.clear, far}, "CurveCP-client-H", p.n)
  /\ p.box.plain = <<"zeros">>

\* The other ephemeral key, and a cookie to send back; the nonce is drawn too.
CookBox(client) == Box({client, far}, "CurveCPK", made + 1, <<"cook", made + 1, Cookie>>)

Cooks ==
  /\ tun.pc = "helo" /\ Arrived(c2s, "HELO")
  /\ LET helo == Head(c2s)
     IN /\ Counts(helo) /\ OpensHelo(helo)
        /\ tun' = [tun EXCEPT !.pc = "voch", !.client = helo.clear, !.next = helo.n + 1,
                              !.shared = {helo.clear, made + 1}]
        /\ s2c' = Append(s2c, Packet("COOK", made + 1, CookBox(helo.clear), 0))
        /\ sealed' = sealed \cup {CookBox(helo.clear)}
  /\ c2s' = Tail(c2s) /\ made' = made + 1
  /\ UNCHANGED <<givenVars, strange, conn>>

\* The holder of the long-term key says that the ephemeral key is its own.
Vouches(vouch, long) ==
  /\ Opens(vouch, {long, far}, "CurveCPV", vouch.nonce[2])
  /\ vouch.plain = <<"vouch", tun.client>>

\* The trailer has what this kind of connection needs and, over a relay, nothing.
Suits(props, m) ==
  CASE m = "grid" -> "certificate" \in props [] m = "local" -> "protocol" \in props
    [] OTHER -> props = {}

OpensVoch(p) == Opens(p.box, tun.shared, "CurveCP-client-I", p.n) /\ p.clear = Cookie

RedyBox == Box(tun.shared, "CurveCP-server-R", tun.ctr, <<"ready">>)

Readies ==
  /\ tun.pc = "voch" /\ Arrived(c2s, "VOCH")
  /\ LET p == Head(c2s)
         voch == p.box.plain
     IN /\ Counts(p) /\ OpensVoch(p)
        /\ Vouches(voch[3], voch[2]) /\ Suits(voch[4], mode)
        /\ tun' = [tun EXCEPT !.pc = TunnelUp, !.peer = voch[2], !.props = voch[4],
                              !.next = p.n + 1, !.ctr = @ + 1]
        /\ s2c' = Append(s2c, Packet("REDY", tun.ctr, RedyBox, 0))
        /\ sealed' = sealed \cup {RedyBox}
  /\ c2s' = Tail(c2s)
  /\ UNCHANGED <<givenVars, strange, conn, made>>

-------------------------------------------------------------------------------
(* Messages *)

\* sendMESG and Send: one counter for each end and for all it seals.
MesgBox(shared, end, n, data) == Box(shared, MesgLabel(end), n, <<"mesg", data>>)

ClientSends(data) ==
  LET box == MesgBox(conn.shared, "client", conn.ctr, data)
  IN c2s' = Append(c2s, Packet("MESG", conn.ctr, box, 0)) /\ sealed' = sealed \cup {box}

FarSends(data) ==
  LET box == MesgBox(tun.shared, "server", tun.ctr, data)
  IN s2c' = Append(s2c, Packet("MESG", tun.ctr, box, 0)) /\ sealed' = sealed \cup {box}

\* recvMESG takes the number from the packet; Recv also compares it.
ClientReads ==
  /\ Arrived(s2c, "MESG") /\ Opens(Head(s2c).box, conn.shared, MesgLabel("server"), Head(s2c).n)
  /\ s2c' = Tail(s2c)

FarReads ==
  /\ Arrived(c2s, "MESG") /\ Counts(Head(c2s))
  /\ Opens(Head(c2s).box, tun.shared, MesgLabel("client"), Head(c2s).n)
  /\ c2s' = Tail(c2s)

Data(wire) == Head(wire).box.plain[2]

\* A connection to a frame in use (in detail in Peer); the far end echoes.
UsesTunnel ==
  /\ conn.pc = "up" /\ mode # "grid" /\ conn.ctr < 2 + MesgBound
  /\ conn' = [conn EXCEPT !.ctr = @ + 1]
  /\ ClientSends(<<"data", conn.ctr>>)
  /\ UNCHANGED <<givenVars, strange, tun, s2c, made>>

ReadsTunnel ==
  /\ conn.pc = "up" /\ mode # "grid"
  /\ ClientReads
  /\ UNCHANGED <<givenVars, strange, conn, tun, c2s, made, sealed>>

Echoes ==
  /\ tun.pc = "up" /\ FarReads
  /\ tun' = [tun EXCEPT !.next = Head(c2s).n + 1, !.ctr = @ + 1]
  /\ FarSends(Data(c2s))
  /\ UNCHANGED <<givenVars, strange, conn, made>>

-------------------------------------------------------------------------------
(* Pairing.  A point on the curve is the set of scalars it was multiplied    *)
(* with, over a base that comes from the session key.                        *)

Point(scalars, session) == [by |-> scalars, over |-> session]
Times(scalar, point) == [point EXCEPT !.by = @ \cup {scalar}]
Hash(point, secret) == <<point, secret>>

\* Mutant: the code does not enter the key stream.
KeyStream_NoCode(code, client, device) == <<client, device>>

\* What masks the device's scalar comes from the code and both identities.
KeyStream(code, client, device) == <<code, client, device>>

\* Taking off another mask than was put on leaves a scalar nobody knows.
Unmask(y, stream) == IF y.stream = stream THEN y.scalar ELSE "other"

\* X = x * P, where P comes from the masked scalar.
DeviceX == Point({"x", "s"}, tun.shared)

DeviceY == [stream |-> KeyStream(CodeOf[far], tun.peer, far), scalar |-> "s"]

Challenges ==
  /\ tun.pc = "challenge"
  /\ tun' = [tun EXCEPT !.pc = "response", !.ctr = @ + 1]
  /\ FarSends(<<"challenge", DeviceX, DeviceY>>)
  /\ UNCHANGED <<givenVars, strange, conn, c2s, made>>

\* pairingResponse: the point and the hash to send, and the hash the device must
\* answer with.
Response(x, y) ==
  LET mask == Unmask(y, KeyStream(typed, Me, conn.remote))
      respX == Point({"r", mask}, conn.shared)
      secret == Times("r", x)
  IN [x |-> respX, y |-> Hash(x, secret), expected |-> Hash(respX, secret)]

Responds ==
  /\ conn.pc = "challenge" /\ ClientReads
  /\ LET challenge == Data(s2c)
         resp == Response(challenge[2], challenge[3])
     IN /\ challenge[1] = "challenge"
        /\ conn' = [conn EXCEPT !.pc = "result", !.ctr = @ + 1, !.expected = resp.expected]
        /\ ClientSends(<<"response", resp.x, resp.y>>)
  /\ UNCHANGED <<givenVars, strange, tun, made>>

\* The client's secret is the device's only if both had the same point.
Verified(response) == response[3] = Hash(DeviceX, Times("x", response[2]))

\* The device has the client verified; what it answers may still be wrong.
Verifies ==
  /\ tun.pc = "response" /\ FarReads
  /\ LET response == Data(c2s)
         result == Hash(response[2], Times("x", response[2]))
     IN /\ response[1] = "response" /\ Verified(response)
        /\ \E answer \in {result, <<>>}: FarSends(<<"result", answer>>)
  /\ tun' = [tun EXCEPT !.pc = "verified", !.next = Head(c2s).n + 1, !.ctr = @ + 1]
  /\ UNCHANGED <<givenVars, strange, conn, made>>

\* Mutant: the device's word is taken for it.
Concludes_Uncompared ==
  /\ conn.pc = "result" /\ ClientReads
  /\ conn' = [conn EXCEPT !.pc = IF Data(s2c)[1] = "result" THEN "paired" ELSE "failed"]
  /\ UNCHANGED <<givenVars, strange, tun, c2s, made, sealed>>

Concludes ==
  /\ conn.pc = "result" /\ ClientReads
  /\ conn' = [conn EXCEPT !.pc = IF Data(s2c) = <<"result", conn.expected>> THEN "paired" ELSE "failed"]
  /\ UNCHANGED <<givenVars, strange, tun, c2s, made, sealed>>

-------------------------------------------------------------------------------
(* Somebody on the way: packets are taken off and others put in, of the kind *)
(* that is awaited, with boxes that have been seen before or are made with   *)
(* the stranger's own key.  It reads what is sealed to that key and knows no *)
(* pairing code.                                                             *)

Seen(label) == {b \in sealed: b.nonce[1] = label}

\* Made with its own key, which serves it for long and short, and one of theirs.
Own(key, label, n, plains) == {Box({key, Stranger}, label, n, plain): plain \in plains}

\* What it has read in messages.
Read(kind) ==
  {b.plain[2]: b \in {d \in sealed: Stranger \in d.keys /\ d.plain[1] = "mesg" /\ d.plain[2][1] = kind}}

\* A message passed on, or one made up without the code.
Says(kind, session) ==
  {<<"mesg", data>>: data \in Read(kind) \cup
     CASE kind = "challenge" -> {<<kind, Point({"z"}, session), [stream |-> <<>>, scalar |-> "z"]>>}
       [] kind = "response" ->
            {<<kind, Point({"z"}, session), Hash(c[2], Times("z", c[2]))>>: c \in Read("challenge")}
       [] kind = "result" ->
            {<<kind, <<>>>>} \cup {<<kind, r[3]>>: r \in Read("response")}
              \cup {<<kind, Hash(r[2], Times("z", r[2]))>>: r \in Read("response")}}

ToClient ==
  CASE conn.pc = "welc" -> {Packet("WELC", 0, NoBox, key): key \in Ends \cup {Stranger}}
    [] conn.pc = "cook" ->
         {Packet("COOK", b.nonce[2], b, 0): b \in Seen("CurveCPK") \cup
            Own(conn.short, "CurveCPK", 0, {<<"cook", key, Cookie>>: key \in {Stranger} \cup tun.shared})}
    [] conn.pc = "redy" ->
         {Packet("REDY", b.nonce[2], b, 0): b \in Seen("CurveCP-server-R") \cup
            Own(conn.short, "CurveCP-server-R", 0, {<<"ready">>})}
    [] conn.pc \in {"challenge", "result"} ->
         {Packet("MESG", b.nonce[2], b, 0): b \in Seen(MesgLabel("server")) \cup
            Own(conn.short, MesgLabel("server"), 0, Says(conn.pc, conn.shared))}
    [] OTHER -> {}

\* A voucher seen before, or one for itself.
Vouchers == Seen("CurveCPV") \cup Own(far, "CurveCPV", 0, {<<"vouch", Stranger>>})

\* To be the client, or itself.
Claims == {<<"voch", long, v, Trailer(mode)>>: long \in {Me, Stranger}, v \in Vouchers}

\* The key that the far end drew for this connection.
FarKeys == tun.shared \ {tun.client}

ToFarEnd ==
  CASE tun.pc = "tell" -> {Packet("TELL", 0, NoBox, 0)}
    [] tun.pc = "helo" ->
         {Packet("HELO", 0, b, Stranger): b \in Own(far, "CurveCP-client-H", 0, {<<"zeros">>})}
           \cup {Packet("HELO", b.nonce[2], b, key): b \in Seen("CurveCP-client-H"), key \in 1..made}
    [] tun.pc = "voch" ->
         {Packet("VOCH", b.nonce[2], b, Cookie): b \in Seen("CurveCP-client-I") \cup
            UNION {Own(key, "CurveCP-client-I", tun.next, Claims): key \in FarKeys}}
    [] tun.pc = "response" ->
         {Packet("MESG", b.nonce[2], b, 0): b \in Seen(MesgLabel("client")) \cup
            UNION {Own(key, MesgLabel("client"), tun.next, Says("response", tun.shared)): key \in FarKeys}}
    [] OTHER -> {}

MeddlesWithClient ==
  /\ \E p \in ToClient: s2c' = <<p>>
  /\ strange' = TRUE
  /\ UNCHANGED <<givenVars, conn, tun, c2s, made, sealed>>

MeddlesWithFarEnd ==
  /\ \E p \in ToFarEnd: c2s' = <<p>>
  /\ strange' = TRUE
  /\ UNCHANGED <<givenVars, conn, tun, s2c, made, sealed>>

-------------------------------------------------------------------------------
(* Ends of connections *)

InSetup == {"tell", "welc", "cook", "redy", "challenge", "result"}

\* Mutant: the reads of the handshake have no deadline.
GivesUp_NoDeadline ==
  /\ conn.pc \in InSetup /\ s2c # <<>>
  /\ conn' = [conn EXCEPT !.pc = "failed"]
  /\ UNCHANGED <<givenVars, strange, tun, c2s, s2c, made, sealed>>

\* A packet that is not the one expected, or does not open, a key that is not
\* wanted, an error of the socket, the step timeout: the client closes.
GivesUp ==
  /\ conn.pc \in InSetup
  /\ conn' = [conn EXCEPT !.pc = "failed"]
  /\ UNCHANGED <<givenVars, strange, tun, c2s, s2c, made, sealed>>

Closes ==
  /\ conn.pc = "up" /\ mode # "grid"
  /\ conn' = [conn EXCEPT !.pc = "closed"]
  /\ UNCHANGED <<givenVars, strange, tun, c2s, s2c, made, sealed>>

\* The far end finds fault with what it read, or the link breaks; what it sent
\* may be lost with it.
HangsUp ==
  /\ tun.pc # "closed"
  /\ tun' = [tun EXCEPT !.pc = "closed"]
  /\ s2c' \in {s2c, <<>>} /\ c2s' = <<>>
  /\ UNCHANGED <<givenVars, strange, conn, made, sealed>>

\* The next connection, with whoever is there then.
GoesOn ==
  /\ conn.pc \in {"paired", "failed", "closed"} /\ attempt < Len(plan)
  /\ attempt' = attempt + 1
  /\ accepts' \in MayAccept(plan[attempt + 1])
  /\ far' \in Ends
  /\ conn' = FreshConn /\ tun' = FreshTunnel
  /\ c2s' = <<>> /\ s2c' = <<>>
  /\ strange' = FALSE
  /\ UNCHANGED <<plan, typed, made, sealed>>

Handshakes == TellsOut \/ GetsWelc \/ GetsCook \/ GetsRedy \/ Responds \/ Concludes
FarEnd == Tells \/ Cooks \/ Readies \/ Echoes \/ Challenges \/ Verifies \/ HangsUp

TunnelNext == Handshakes \/ GivesUp \/ UsesTunnel \/ ReadsTunnel \/ Closes \/ GoesOn \/ FarEnd
              \/ MeddlesWithClient \/ MeddlesWithFarEnd

-------------------------------------------------------------------------------
(* Properties *)

\* No nonce is used twice with one pair of keys for two different plaintexts,
\* though both ends seal with the same session key, HELO and COOK share a pair
\* too, every connection counts from nought, and the long-term keys of the vouch
\* last for all connections (nonce.go, conn.nextCtr).
NonceOnce ==
  \A b, d \in sealed: b.keys = d.keys /\ b.nonce = d.nonce => b = d

Counted(p) == p.cmd # "TELL"

\* The counter of the client goes up over HELO, VOCH and every message, in the
\* order of the wire, as long as nobody meddles with it: the far end "drops
\* packets that violate this, silently" (sdgtest/tunnel.go:127-129).
CountersRise ==
  ~strange => \A i \in DOMAIN c2s: Counted(c2s[i]) =>
    /\ c2s[i].n >= tun.next
    /\ \A j \in DOMAIN c2s: i < j /\ Counted(c2s[j]) => c2s[i].n < c2s[j].n

\* When the client takes the tunnel for established, it is with somebody it meant
\* to reach.  Unless that is the stranger itself, the far end is who the client
\* takes it for, has this connection's session key and no other, and knows this
\* client by its long-term key and the service it wants: nobody sits between, and
\* no answer was for an earlier connection.  And when a far end takes the other
\* side for this client, it is the client on this very connection.
TunnelAgrees ==
  /\ conn.pc \in {"up", "challenge", "result", "paired"} =>
       /\ accepts = {} \/ conn.remote \in accepts
       /\ conn.remote # Stranger =>
            /\ conn.remote = far /\ tun.shared = conn.shared
            /\ tun.peer = Me /\ tun.props = Trailer(mode)
  /\ tun.pc \in {"up", "challenge", "response", "verified"} /\ tun.peer = Me =>
       conn.remote = far /\ tun.shared = conn.shared

\* A client that reports a pairing has one: with the frame whose identity it
\* files, which has verified it under the code the user typed; never with a
\* stranger that only says so or passes on what others say.  And a frame verifies
\* nobody but the client that has its code.
PairedTogether ==
  /\ tun.pc = "verified" => mode = "pairing" /\ tun.peer = Me /\ typed = CodeOf[far]
  /\ conn.pc = "paired" =>
       conn.remote = far /\ typed = CodeOf[far] /\ tun.pc \in {"verified", "closed"}
===============================================================================
