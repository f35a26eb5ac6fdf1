------------------------------ MODULE ReachProof ------------------------------
(***************************************************************************)
(* The safety of Reach.tla for any MaxHold, any lengths of the lookup and  *)
(* whatever the frames answer.  IInv says where the command can be with    *)
(* what in hand; the sockets and the grid do not enter into it (they enter *)
(* into ReachSettles, which stays with TLC).  LookupInv is about the       *)
(* lookup: what the collector knows, for any number of records.            *)
(***************************************************************************)
EXTENDS Reach, FiniteSetTheorems, WellFoundedInduction, TLAPS

\* The state tuples, expanded wherever a step is split into its variables.
USE DEF vars, callVars, linkVars, ctxVars, discVars

Types ==
  /\ way \in Ways
  /\ pc \in {"lookup", "dialLocal", "shakeLocal", "await", "call", "dialRelay", "claim",
             "shakeRelay", "prove", "done", "failed"}
  /\ dial \in {"none", "running", "ok", "error", "taken"}
  /\ closer \in {"none", "dial", "peer", "ended"}
  /\ via \in {"none", "local", "relay"}
  /\ sock \in [Conns -> {"none", "open", "closed"}]
  /\ who \in [{"local", "relay"} -> {Frame, Other, NoOne}]
  /\ steps \in 0..3
  /\ holds \in 0..MaxHold
  /\ watcher \in [Watchers -> {"off", "on", "late"}]

Flags == used \in BOOLEAN /\ ctxEnded \in BOOLEAN /\ localOver \in BOOLEAN

\* Only a command that knows its frame looks for it on the local network, and
\* a connection is returned at the end only.
PlaceInv ==
  /\ pc \in {"lookup", "dialLocal", "shakeLocal"} => way \in {"auto", "local"}
  /\ pc = "prove" => way = "pair"
  /\ via # "none" <=> pc = "done"

\* Once the key in WELC was taken, the far end is acceptable; a connection that
\* was returned leads to the frame.
MetInv ==
  /\ pc = "shakeLocal" /\ steps > 0 => Acceptable("local")
  /\ pc = "shakeRelay" /\ steps > 0 => Acceptable("relay")
  /\ pc = "done" => who[via] = Frame

\* The watcher of the local connection was told to stop before it was returned.
StoppedInv == via = "local" => watcher["local"] # "on"

IInv == Types /\ PlaceInv /\ MetInv /\ StoppedInv

-------------------------------------------------------------------------------
(* What a step may do to the watchers and the sockets *)

LEMMA WatcherFacts ==
  ASSUME Types, NEW w \in Watchers
  PROVE  /\ Watches(w) => watcher' \in [Watchers -> {"off", "on", "late"}]
         /\ Stops(w) => /\ watcher' \in [Watchers -> {"off", "on", "late"}]
                        /\ watcher'[w] # "on"
                        /\ \A v \in Watchers: v # w => watcher'[v] = watcher[v]
BY DEF Types, Watches, Stops, Stopped

LEMMA SocketFacts ==
  ASSUME Types
  PROVE  /\ \A c \in Conns: Opens(c) => sock' \in [Conns -> {"none", "open", "closed"}]
         /\ \A cs: Closes(cs) => /\ sock' \in [Conns -> {"none", "open", "closed"}]
                                 /\ \A c \in Conns: c \notin cs => sock'[c] = sock[c]
BY DEF Types, Opens, Closes

LEMMA InitIInv == Init => IInv
<1> SUFFICES ASSUME Init PROVE IInv
  OBVIOUS
<1>1. Types
  <2>1. sock \in [Conns -> {"none", "open", "closed"}] /\ watcher \in [Watchers -> {"off", "on", "late"}]
        /\ who \in [{"local", "relay"} -> {Frame, Other, NoOne}]
    BY DEF Init
  <2>2. /\ way \in Ways /\ steps \in 0..3 /\ holds \in 0..MaxHold /\ via \in {"none", "local", "relay"}
        /\ closer \in {"none", "dial", "peer", "ended"}
    BY HoldAssumption DEF Init
  <2>3. pc \in {"lookup", "await"} /\ dial \in {"none", "running"}
    BY DEF Init
  <2> QED
    BY <2>1, <2>2, <2>3 DEF Types
<1> QED
  BY <1>1 DEF Init, IInv, PlaceInv, MetInv, StoppedInv, Ways, Conns, Watchers

-------------------------------------------------------------------------------
(* The steps *)

\* The local network.
LEMMA LocalKeeps ==
  ASSUME IInv, Local \/ LookupHears \/ LocalTimesOut
  PROVE  IInv'
<1>1. CASE LookupHears \/ LookupPassesOver \/ LocalTimesOut
  <2>1. Types'
    BY <1>1 DEF IInv, Types, LookupHears, LookupPassesOver, LocalTimesOut
  <2> QED
    BY <1>1, <2>1 DEF IInv, PlaceInv, MetInv, StoppedInv, Acceptable, LookupHears,
                      LookupPassesOver, LocalTimesOut
<1>2. CASE LookupFinds \/ LookupFails \/ ConnectsLocallyFails
  BY <1>2 DEF IInv, Types, PlaceInv, MetInv, StoppedInv, Acceptable, LookupFinds,
              LookupFails, ConnectsLocallyFails, LocalFails
<1>3. CASE ConnectsLocally
  <2>1. Types'
    BY <1>3, SocketFacts, WatcherFacts DEF IInv, Types, ConnectsLocally, Conns, Watchers
  <2> QED
    BY <1>3, <2>1 DEF IInv, PlaceInv, MetInv, StoppedInv, ConnectsLocally
<1>4. CASE Shakes("local")
  BY <1>4 DEF IInv, Types, PlaceInv, MetInv, StoppedInv, Acceptable, Shakes
<1>5. CASE LocalUp
  <2>1. Types' /\ StoppedInv'
    BY <1>5, WatcherFacts DEF IInv, Types, StoppedInv, LocalUp, Watchers
  <2>2. PlaceInv' /\ MetInv'
    BY <1>5 DEF IInv, PlaceInv, MetInv, Acceptable, LocalUp
  <2> QED
    BY <2>1, <2>2 DEF IInv
<1>6. CASE ShakeLocalFails
  <2>1. Types' /\ via = "none"
    BY <1>6, SocketFacts, WatcherFacts
       DEF IInv, Types, PlaceInv, ShakeLocalFails, LocalFails, Watchers
  <2> QED
    BY <1>6, <2>1 DEF IInv, PlaceInv, MetInv, StoppedInv, ShakeLocalFails, LocalFails
<1> QED
  BY <1>1, <1>2, <1>3, <1>4, <1>5, <1>6 DEF Local

\* The grid, the claim of a tunnel and the handshake through it.
LEMMA RelayKeeps ==
  ASSUME IInv, Relay \/ GridAssigns \/ GridFailsUs
  PROVE  IInv'
<1>1. CASE TakesGrid \/ GridAssigns \/ Holds
  <2>1. holds' \in 0..MaxHold
    BY <1>1, HoldAssumption DEF IInv, Types, TakesGrid, GridAssigns, Holds
  <2>2. Types'
    BY <1>1, <2>1 DEF IInv, Types, TakesGrid, GridAssigns, Holds
  <2> QED
    BY <1>1, <2>2 DEF IInv, PlaceInv, MetInv, StoppedInv, Acceptable, TakesGrid, GridAssigns, Holds
<1>2. CASE GridFailsUs
  <2>1. Types'
    BY <1>2, SocketFacts DEF IInv, Types, GridFailsUs
  <2> QED
    BY <1>2, <2>1 DEF IInv, PlaceInv, MetInv, StoppedInv, GridFailsUs
<1>3. CASE ConnectsToRelay
  <2>1. Types'
    BY <1>3, SocketFacts, WatcherFacts DEF IInv, Types, ConnectsToRelay, Conns, Watchers
  <2> QED
    BY <1>3, <2>1 DEF IInv, PlaceInv, MetInv, StoppedInv, ConnectsToRelay
<1>4. CASE ClaimFails \/ ShakeRelayFails \/ ProvesNot
  <2>1. Types'
    BY <1>4, SocketFacts, WatcherFacts
       DEF IInv, Types, ClaimFails, ShakeRelayFails, ProvesNot, Watchers
  <2> QED
    BY <1>4, <2>1 DEF IInv, PlaceInv, MetInv, StoppedInv, ClaimFails, ShakeRelayFails, ProvesNot
<1>5. CASE Claims
  <2>1. watcher' \in [Watchers -> {"off", "on", "late"}]
    BY <1>5 DEF IInv, Types, Claims, Stopped, Watchers
  <2>2. Types'
    BY <1>5, <2>1 DEF IInv, Types, Claims
  <2> QED
    BY <1>5, <2>2 DEF IInv, PlaceInv, MetInv, StoppedInv, Claims
<1>6. CASE Shakes("relay")
  BY <1>6 DEF IInv, Types, PlaceInv, MetInv, StoppedInv, Acceptable, Shakes
<1>7. CASE RelayUp
  <2>1. Types'
    BY <1>7, WatcherFacts DEF IInv, Types, RelayUp, Watchers
  <2> QED
    BY <1>7, <2>1 DEF IInv, PlaceInv, MetInv, StoppedInv, Acceptable, RelayUp
<1>8. CASE StartsPairing
  <2>1. watcher' \in [Watchers -> {"off", "on", "late"}]
    BY <1>8 DEF IInv, Types, StartsPairing, Stopped, Watchers
  <2>2. Types'
    BY <1>8, <2>1 DEF IInv, Types, StartsPairing
  <2> QED
    BY <1>8, <2>2 DEF IInv, PlaceInv, MetInv, StoppedInv, StartsPairing
<1>9. CASE Proves
  <2>1. Types'
    BY <1>9, SocketFacts, WatcherFacts DEF IInv, Types, Proves, Watchers
  <2> QED
    BY <1>9, <2>1 DEF IInv, PlaceInv, MetInv, StoppedInv, Proves
<1> QED
  BY <1>1, <1>2, <1>3, <1>4, <1>5, <1>6, <1>7, <1>8, <1>9 DEF Relay

\* What goes on in the background, and in the rest of the world.
LEMMA BackgroundKeeps ==
  ASSUME IInv,
         \/ GridDial \/ Closer \/ PeerEnds \/ GridDrops \/ ContextEnds
         \/ \E w \in Watchers: WatcherFires(w) \/ WatcherEnds(w)
  PROVE  IInv'
<1>1. CASE GridFails \/ ContextEnds
  BY <1>1 DEF IInv, Types, PlaceInv, MetInv, StoppedInv, Acceptable, GridFails, ContextEnds
<1>2. CASE GridComesUp \/ Closer \/ PeerEnds \/ GridDrops
  <2>1. Types'
    BY <1>2, SocketFacts DEF IInv, Types, GridComesUp, Closer, PeerEnds, GridDrops, Conns
  <2> QED
    BY <1>2, <2>1 DEF IInv, PlaceInv, MetInv, StoppedInv, Acceptable,
                      GridComesUp, Closer, PeerEnds, GridDrops
<1>3. ASSUME NEW w \in Watchers, WatcherFires(w) \/ WatcherEnds(w)
      PROVE  IInv'
  <2>1. Types' /\ watcher'["local"] \in {watcher["local"], "off"}
    BY <1>3, SocketFacts DEF IInv, Types, WatcherFires, WatcherEnds, Watchers
  <2> QED
    BY <1>3, <2>1 DEF IInv, PlaceInv, MetInv, StoppedInv, Acceptable, WatcherFires, WatcherEnds
<1> QED
  BY <1>1, <1>2, <1>3 DEF GridDial

LEMMA NextIInv == IInv /\ [Next]_vars => IInv'
<1>1. ASSUME IInv, UNCHANGED vars
      PROVE  IInv'
  BY <1>1 DEF IInv, Types, PlaceInv, MetInv, StoppedInv, Acceptable
<1> QED
  BY <1>1, LocalKeeps, RelayKeeps, BackgroundKeeps DEF Next

-------------------------------------------------------------------------------
(* The properties *)

\* The inductive invariant holds throughout.
THEOREM Invariant == Spec => []IInv
BY InitIInv, NextIInv, PTL DEF Spec

\* Whichever way connect (or Grid.Pair) got to a frame, the one at the other end
\* is the one that was asked for.
THEOREM RightFrameHolds == Spec => []RightFrame
<1>1. IInv => RightFrame
  BY DEF IInv, MetInv, RightFrame
<1> QED
  BY <1>1, Invariant, PTL

\* A connection that connect has returned is closed by its user, its far end or
\* the command's context, or by a watchCtx goroutine that was stopped and has
\* yet to notice.
THEOREM CallerKeepsItHolds == Spec => CallerKeepsIt
<1>1. ASSUME IInv, Next, NEW c \in {"local", "relay"},
             via = c, sock[c] = "open", sock'[c] = "closed",
             ~used', ~ctxEnded
      PROVE  \E w \in Watchers: Watched(w) = c /\ watcher[w] = "late"
  <2>1. pc = "done" /\ c \in Conns /\ sock'[c] # sock[c]
    BY <1>1 DEF IInv, PlaceInv, Conns
  <2>2. ~Closes({"grid"}) /\ ~UNCHANGED sock /\ ~Opens("grid")
    BY <1>1, <2>1, SocketFacts DEF IInv, Types, Opens, Conns
  <2>3. PICK w \in Watchers: WatcherFires(w)
    BY <1>1, <2>1, <2>2 DEF Next, Local, Relay, GridDial, LookupHears, LookupPassesOver, LookupFinds,
         LookupFails, ConnectsLocally, ConnectsLocallyFails, Shakes, LocalUp, ShakeLocalFails, LocalTimesOut,
         GridComesUp, GridFails, Closer, TakesGrid, GridAssigns, GridFailsUs, ConnectsToRelay, Holds,
         ClaimFails, Claims, ShakeRelayFails, RelayUp, StartsPairing, Proves, ProvesNot, PeerEnds, GridDrops,
         ContextEnds, WatcherEnds
  <2>4. Watched(w) = c
    BY <2>1, <2>3, SocketFacts, <1>1 DEF IInv, WatcherFires
  <2>5. w = "local" /\ c = "local"
    BY <1>1, <2>3, <2>4 DEF WatcherFires, Over, Watched, Watchers
  <2>6. watcher[w] = "late"
    BY <1>1, <2>3, <2>5 DEF IInv, Types, StoppedInv, WatcherFires
  <2> QED
    BY <2>4, <2>6
<1>2. IInv /\ [Next]_vars =>
        [\A c \in {"local", "relay"}:
           via = c /\ sock[c] = "open" /\ sock'[c] = "closed"
             => used' \/ ctxEnded \/ \E w \in Watchers: Watched(w) = c /\ watcher[w] = "late"]_vars
  BY <1>1
<1> QED
  BY <1>2, Invariant, PTL DEF Spec, CallerKeepsIt

-------------------------------------------------------------------------------
(* The lookup: a fold over the records of a datagram, and so what holds of it  *)
(* needs induction over their number                                           *)

LEMMA NatSetInduction ==
  ASSUME NEW S, 0 \in S, \A n \in Nat: n \in S => n + 1 \in S
  PROVE  Nat \subseteq S
<1> DEFINE R == OpToRel(<, Nat)
           T == Nat \ S
<1> SUFFICES ASSUME T # {} PROVE FALSE
  OBVIOUS
<1>1. IsWellFoundedOn(R, Nat)
  BY NatLessThanWellFounded
<1>2. T \subseteq Nat
  OBVIOUS
<1>3. \A x, y \in Nat: x < y => <<x, y>> \in R
  BY DEF OpToRel
<1> HIDE DEF R, T
<1>4. PICK x \in T: \A y \in T: ~(<<y, x>> \in R)
  BY <1>1, <1>2, WFMin
<1>5. x \in Nat /\ x \notin S
  BY <1>2 DEF T
<1>6. x # 0
  BY <1>5
<1>7. x - 1 \in Nat /\ x - 1 < x /\ x = (x - 1) + 1
  BY <1>5, <1>6
<1>8. x - 1 \notin T
  BY <1>2, <1>3, <1>4, <1>7
<1>9. x - 1 \in S
  BY <1>7, <1>8 DEF T
<1> QED
  BY <1>5, <1>7, <1>9

\* The last position is the greatest.
LEMMA LastOf ==
  ASSUME NEW n \in Nat, NEW t \in SUBSET (1..(n + 1))
  PROVE  /\ n + 1 \in t => Max(t) = n + 1
         /\ \A x: n + 1 \notin t => t \ {x} \in SUBSET (1..n)
         /\ t \ {n + 1} \in SUBSET (1..n)
<1>1. \A i \in 1..(n + 1): i <= n + 1 /\ (i = n + 1 \/ i \in 1..n)
  OBVIOUS
<1>2. ASSUME n + 1 \in t
      PROVE  Max(t) = n + 1
  <2>1. \A y \in t: n + 1 >= y
    BY <1>1
  <2>2. \A x \in t: (\A y \in t: x >= y) => x = n + 1
    BY <1>1, <1>2
  <2> QED
    BY <1>2, <2>1, <2>2 DEF Max
<1> QED
  BY <1>1, <1>2

\* What the collector makes of the records w to n, for every set of positions:
\* the function the fold is defined by.
Gathers(n, w, from, c, f) ==
  f = [t \in SUBSET (1..n) |->
         IF t = {} THEN c ELSE Recorded(f[t \ {Max(t)}], w[Max(t)], from)]

LEMMA WithIs ==
  ASSUME NEW c, NEW p, p.response, NEW n \in Nat, DOMAIN p.records = 1..n
  PROVE  With(c, p) = (CHOOSE f: Gathers(n, p.records, p.from, c, f))[1..n]
<1>1. With(c, p) = (CHOOSE f: f = [t \in SUBSET (DOMAIN p.records) |->
                     IF t = {} THEN c
                     ELSE Recorded(f[t \ {Max(t)}], p.records[Max(t)], p.from)])[DOMAIN p.records]
  BY Zenon DEF With, FoldLeft, MapThenFoldSet
<1> QED
  BY <1>1, Zenon DEF Gathers

LEMMA GathersExist ==
  ASSUME NEW w, NEW from, NEW c, NEW n \in Nat
  PROVE  \E f: Gathers(n, w, from, c, f)
<1> DEFINE S == {k \in Nat: \E f: Gathers(k, w, from, c, f)}
<1>1. 0 \in S
  <2>1. PICK f: f = [t \in SUBSET (1..0) |-> c]
    OBVIOUS
  <2>2. \A t \in SUBSET (1..0): t = {}
    BY SMT
  <2>3. f = [t \in SUBSET (1..0) |->
               IF t = {} THEN c ELSE Recorded(f[t \ {Max(t)}], w[Max(t)], from)]
    BY <2>1, <2>2, Zenon
  <2> QED
    BY <2>3, Zenon DEF Gathers
<1>2. ASSUME NEW k \in Nat, k \in S
      PROVE  k + 1 \in S
  <2>1. PICK f: Gathers(k, w, from, c, f)
    BY <1>2
  <2>2. f = [t \in SUBSET (1..k) |->
               IF t = {} THEN c ELSE Recorded(f[t \ {Max(t)}], w[Max(t)], from)]
    BY <2>1 DEF Gathers
  <2> PICK T: T = SUBSET (1..(k + 1))
    OBVIOUS
  <2> PICK g: g = [t \in T |-> IF k + 1 \in t THEN Recorded(f[t \ {k + 1}], w[k + 1], from) ELSE f[t]]
    OBVIOUS
  <2>3. \A t \in SUBSET (1..k): t \in T /\ k + 1 \notin t
    BY SMT
  <2>4. \A t \in SUBSET (1..k): g[t] = f[t]
    BY <2>3
  <2>5. ASSUME NEW t \in T
        PROVE  g[t] = IF t = {} THEN c ELSE Recorded(g[t \ {Max(t)}], w[Max(t)], from)
    <3>1. CASE k + 1 \in t
      <4>1. Max(t) = k + 1 /\ t \ {k + 1} \in SUBSET (1..k) /\ t # {}
        BY <3>1, LastOf
      <4>2. g[t] = Recorded(f[t \ {k + 1}], w[k + 1], from) /\ g[t \ {k + 1}] = f[t \ {k + 1}]
        BY <2>4, <3>1, <4>1
      <4> QED
        BY <4>1, <4>2
    <3>2. CASE k + 1 \notin t
      <4>1. t \in SUBSET (1..k) /\ t \ {Max(t)} \in SUBSET (1..k)
        <5>1. t \ {k + 1} = t
          BY <3>2
        <5> QED
          BY <3>2, <5>1, LastOf
      <4>2. g[t] = f[t] /\ g[t \ {Max(t)}] = f[t \ {Max(t)}]
        BY <2>4, <4>1
      <4>3. f[t] = IF t = {} THEN c ELSE Recorded(f[t \ {Max(t)}], w[Max(t)], from)
        BY <2>2, <4>1, Zenon
      <4> QED
        BY <4>2, <4>3, Zenon
    <3> QED
      BY <3>1, <3>2
  <2>6. g = [t \in T |-> g[t]]
    OBVIOUS
  <2>7. Gathers(k + 1, w, from, c, g)
    BY <2>5, <2>6, Zenon DEF Gathers
  <2> QED
    BY <2>7
<1> HIDE DEF S
<1>3. n \in S
  BY <1>1, <1>2, NatSetInduction
<1> QED
  BY <1>3 DEF S

-------------------------------------------------------------------------------
(* What the collector knows *)

Instance == [host: Devices \cup {NoOne}, from: Devices \cup {NoOne}]
Collector == [instances: [Devices -> Instance], addrs: [Devices -> Seq(Address)],
              emitted: SUBSET Devices]

\* Where an instance is, it was its own device that said so, and the addresses
\* of a host are that host's.
Known(c) ==
  /\ c \in Collector
  /\ \A d \in Devices: c.instances[d].host # NoOne =>
       c.instances[d].host = d /\ c.instances[d].from = d
  /\ \A d \in Devices: \A i \in DOMAIN c.addrs[d]: c.addrs[d][i].of = d

\* The records a device sends in a response.
RecordsOf(d) == {Ptr(e, TRUE) : e \in Devices} \cup {Ptr(e, FALSE) : e \in Devices}
                \cup {Srv(d, TRUE), Srv(d, FALSE)} \cup {Addr(d, n) : n \in 0..2}

LookupInv ==
  /\ packets \in Seq(Datagrams) /\ Len(packets) <= PacketCap
  /\ found \in Seq(Address)
  /\ Known(collector) /\ Frame \notin collector.emitted
  /\ LookupIsTrue

LEMMA DeviceFacts == /\ Frame \in Devices /\ NoOne \notin Devices
                     /\ \A d \in Devices: Ranks[d] \subseteq 0..2
BY DevicesAssumption, DiscoveryAssumption DEF Devices

LEMMA ResponsesTold ==
  ASSUME NEW p \in Datagrams, p.response
  PROVE  p.from \in Devices /\ p.records \in Seq(RecordsOf(p.from))
<1>1. ASSUME NEW d \in Devices, NEW w \in Answers(d)
      PROVE  w \in Seq(RecordsOf(d))
  <2> PICK T: T = RecordsOf(d)
    OBVIOUS
  <2>1. /\ Ptr(d, TRUE) \in T /\ Ptr(d, FALSE) \in T /\ Srv(d, TRUE) \in T /\ Srv(d, FALSE) \in T
        /\ Addrs(d) \subseteq T
    BY DeviceFacts DEF RecordsOf, Addrs
  <2>2. \A a, b \in T: <<a>> \in Seq(T) /\ <<a, b>> \in Seq(T) /\ <<>> \in Seq(T)
    OBVIOUS
  <2>3. \A u, v \in Seq(T): u \o v \in Seq(T)
    OBVIOUS
  <2>4. <<Ptr(d, TRUE), Srv(d, TRUE)>> \in Seq(T)
    BY <2>1, <2>2
  <2>5. ASSUME NEW addrs \in {<<>>} \cup (Addrs(d) \X Addrs(d))
        PROVE  <<Ptr(d, TRUE), Srv(d, TRUE)>> \o addrs \in Seq(T)
    <3>1. addrs = <<>> \/ \E a, b \in Addrs(d): addrs = <<a, b>>
      OBVIOUS
    <3>2. addrs \in Seq(T)
      BY <2>1, <2>2, <3>1
    <3> QED
      BY <2>3, <2>4, <3>2
  <2>6. {<<Ptr(d, TRUE)>>, <<Srv(d, TRUE)>>, <<Ptr(d, FALSE), Srv(d, FALSE)>>} \subseteq Seq(T)
    BY <2>1, <2>2
  <2>7. \A a \in Addrs(d): <<a>> \in Seq(T)
    BY <2>1, <2>2
  <2> QED
    BY <2>5, <2>6, <2>7, Zenon DEF Answers
<1>2. ASSUME NEW d \in Devices, NEW e \in Devices
      PROVE  <<Ptr(e, TRUE)>> \in Seq(RecordsOf(d))
  <2> PICK T: T = RecordsOf(d)
    OBVIOUS
  <2>1. Ptr(e, TRUE) \in T
    BY Zenon DEF RecordsOf
  <2>2. \A a \in T: <<a>> \in Seq(T)
    OBVIOUS
  <2> QED
    BY <2>1, <2>2, Zenon
<1>3. CASE p \in Told
  <2>1. PICK d \in Devices: p \in [response: {TRUE}, from: {d}, records: Answers(d)]
    BY <1>3, Zenon DEF Told
  <2>2. p.from = d /\ p.records \in Answers(d)
    BY <2>1
  <2> QED
    BY <1>1, <2>2
<1>4. CASE p \in Mentioned
  <2>1. PICK e \in Devices: p.from \in Devices /\ p.records = <<Ptr(e, TRUE)>>
    BY <1>4 DEF Mentioned
  <2> QED
    BY <1>2, <2>1
<1>5. p \notin Asked
  BY DEF Asked
<1> QED
  BY <1>3, <1>4, <1>5 DEF Datagrams

LEMMA RecordKeeps ==
  ASSUME NEW d \in Devices, NEW r \in RecordsOf(d), NEW c, Known(c)
  PROVE  Known(Recorded(c, r, d)) /\ Recorded(c, r, d).emitted = c.emitted
<1>1. /\ c \in Collector
      /\ c = [instances |-> c.instances, addrs |-> c.addrs, emitted |-> c.emitted]
      /\ c.instances \in [Devices -> Instance] /\ c.addrs \in [Devices -> Seq(Address)]
  BY DEF Known, Collector
<1>2. ASSUME NEW e \in Devices, NEW ours \in BOOLEAN, r = Ptr(e, ours)
      PROVE  Known(Recorded(c, r, d)) /\ Recorded(c, r, d).emitted = c.emitted
  <2>1. r.type = "PTR" /\ r.name = e
    BY <1>2 DEF Ptr
  <2>2. Recorded(c, r, d) = IF r.ours /\ c.instances[e] = NoInstance
                            THEN [c EXCEPT !.instances[e].from = d] ELSE c
    BY <2>1 DEF Recorded
  <2>3. CASE c.instances[e] = NoInstance
    <3> PICK x: x = [c EXCEPT !.instances[e].from = d]
      OBVIOUS
    <3>1. /\ x.addrs = c.addrs /\ x.emitted = c.emitted /\ DOMAIN x.instances = Devices
          /\ x = [instances |-> x.instances, addrs |-> x.addrs, emitted |-> x.emitted]
          /\ x.instances = [c.instances EXCEPT ![e] = [@ EXCEPT !.from = d]]
      BY <1>1
    <3>2. [c.instances[e] EXCEPT !.from = d] = [host |-> NoOne, from |-> d]
      BY <2>3 DEF NoInstance
    <3>3. x.instances \in [Devices -> Instance] /\ x.instances[e].host = NoOne
      BY <1>1, <3>1, <3>2 DEF Instance
    <3>4. x \in Collector
      BY <1>1, <3>1, <3>3 DEF Collector
    <3>5. \A a \in Devices: a # e => x.instances[a] = c.instances[a]
      BY <1>1, <3>1
    <3>6. Known(x)
      BY <3>1, <3>3, <3>4, <3>5 DEF Known
    <3> QED
      BY <2>2, <3>1, <3>6
  <2> QED
    BY <2>2, <2>3
<1>3. ASSUME NEW ours \in BOOLEAN, r = Srv(d, ours)
      PROVE  Known(Recorded(c, r, d)) /\ Recorded(c, r, d).emitted = c.emitted
  <2>1. r.type = "SRV" /\ r.name = d /\ r.target = d
    BY <1>3 DEF Srv
  <2>2. Recorded(c, r, d) = IF r.ours THEN [c EXCEPT !.instances[d] = [host |-> d, from |-> d]] ELSE c
    BY <2>1 DEF Recorded
  <2> PICK x: x = [c EXCEPT !.instances[d] = [host |-> d, from |-> d]]
    OBVIOUS
  <2>3. /\ x.addrs = c.addrs /\ x.emitted = c.emitted
        /\ x = [instances |-> x.instances, addrs |-> x.addrs, emitted |-> x.emitted]
        /\ x.instances = [c.instances EXCEPT ![d] = [host |-> d, from |-> d]]
    BY <1>1
  <2>4. x.instances \in [Devices -> Instance]
    BY <1>1, <2>3 DEF Instance
  <2>5. x.instances[d].host = d /\ x.instances[d].from = d
    BY <1>1, <2>3
  <2>6. \A a \in Devices: a # d => x.instances[a] = c.instances[a]
    BY <1>1, <2>3
  <2>7. x \in Collector
    BY <1>1, <2>3, <2>4 DEF Collector
  <2>8. Known(x)
    BY <2>3, <2>5, <2>6, <2>7 DEF Known
  <2> QED
    BY <2>2, <2>3, <2>8
<1>4. ASSUME NEW n \in 0..2, r = Addr(d, n)
      PROVE  Known(Recorded(c, r, d)) /\ Recorded(c, r, d).emitted = c.emitted
  <2>1. r.type = "A" /\ r.name = d /\ r.addr = [of |-> d, rank |-> n]
    BY <1>4 DEF Addr
  <2> PICK a: a = [of |-> d, rank |-> n]
    OBVIOUS
  <2>2. a \in Address /\ a.of = d
    BY DEF Address
  <2>3. Recorded(c, r, d) = IF a \in ToSet(c.addrs[d]) THEN c ELSE [c EXCEPT !.addrs[d] = Append(@, a)]
    BY <2>1 DEF Recorded
  <2> PICK x: x = [c EXCEPT !.addrs[d] = Append(@, a)]
    OBVIOUS
  <2>4. /\ x.instances = c.instances /\ x.emitted = c.emitted
        /\ x = [instances |-> x.instances, addrs |-> x.addrs, emitted |-> x.emitted]
        /\ x.addrs = [c.addrs EXCEPT ![d] = Append(c.addrs[d], a)]
    BY <1>1
  <2> PICK w: w = c.addrs[d]
    OBVIOUS
  <2>5. /\ w \in Seq(Address) /\ Append(w, a) \in Seq(Address)
        /\ \A i \in DOMAIN w: w[i].of = d
    BY <1>1, <2>2 DEF Known
  <2>6. \A i \in DOMAIN Append(w, a): (i \in DOMAIN w /\ Append(w, a)[i] = w[i]) \/ Append(w, a)[i] = a
    BY <2>2, <2>5
  <2>7. x.addrs \in [Devices -> Seq(Address)] /\ x.addrs[d] = Append(w, a)
    BY <1>1, <2>4, <2>5
  <2>8. \A e \in Devices: e # d => x.addrs[e] = c.addrs[e]
    BY <1>1, <2>4
  <2>9. x \in Collector
    BY <1>1, <2>4, <2>7 DEF Collector
  <2>10. \A e \in Devices: \A i \in DOMAIN x.addrs[e]: x.addrs[e][i].of = e
    BY <2>2, <2>5, <2>6, <2>7, <2>8 DEF Known
  <2>11. Known(x)
    BY <2>4, <2>9, <2>10 DEF Known
  <2> QED
    BY <2>3, <2>4, <2>11
<1> QED
  BY <1>2, <1>3, <1>4 DEF RecordsOf

AllFrom(d, n, w) == \A i \in 1..n: w[i] \in RecordsOf(d)

\* One record after the other.
LEMMA RecordsKeep ==
  ASSUME NEW d \in Devices, NEW n \in Nat, NEW w, AllFrom(d, n, w),
         NEW c, Known(c), NEW f, Gathers(n, w, d, c, f)
  PROVE  Known(f[1..n]) /\ f[1..n].emitted = c.emitted
<1>0. f = [t \in SUBSET (1..n) |-> IF t = {} THEN c ELSE Recorded(f[t \ {Max(t)}], w[Max(t)], d)]
  BY DEF Gathers
<1>1. ASSUME NEW k \in Nat, k < n
      PROVE  f[1..(k + 1)] = Recorded(f[1..k], w[k + 1], d)
  <2>1. /\ 1..(k + 1) \in SUBSET (1..n) /\ 1..(k + 1) \in SUBSET (1..(k + 1))
        /\ k + 1 \in 1..(k + 1) /\ (1..(k + 1)) \ {k + 1} = 1..k
    BY <1>1, SMT
  <2>2. Max(1..(k + 1)) = k + 1 /\ 1..(k + 1) # {}
    BY <2>1, LastOf
  <2> QED
    BY <1>0, <2>1, <2>2, Zenon
<1>2. {} \in SUBSET (1..n) /\ 1..0 = {}
  OBVIOUS
<1>3. f[1..0] = c
  BY <1>0, <1>2, Zenon
<1> DEFINE S == {k \in Nat: k <= n => Known(f[1..k]) /\ f[1..k].emitted = c.emitted}
<1>4. 0 \in S
  BY <1>3
<1>5. ASSUME NEW k \in Nat, k \in S
      PROVE  k + 1 \in S
  <2>1. ASSUME k + 1 <= n
        PROVE  Known(f[1..(k + 1)]) /\ f[1..(k + 1)].emitted = c.emitted
    <3>1. k < n /\ k <= n /\ k + 1 \in 1..n
      BY <2>1
    <3>2. Known(f[1..k]) /\ f[1..k].emitted = c.emitted
      BY <1>5, <3>1
    <3>3. f[1..(k + 1)] = Recorded(f[1..k], w[k + 1], d) /\ w[k + 1] \in RecordsOf(d)
      BY <1>1, <3>1 DEF AllFrom
    <3> QED
      BY <3>2, <3>3, RecordKeeps
  <2> QED
    BY <2>1
<1> HIDE DEF S
<1>6. n \in S
  BY <1>4, <1>5, NatSetInduction
<1> QED
  BY <1>6 DEF S

\* Whatever comes in a datagram, in whatever order.
LEMMA WithKeeps ==
  ASSUME NEW p \in Datagrams, NEW c, Known(c)
  PROVE  Known(With(c, p)) /\ With(c, p).emitted = c.emitted
<1>1. CASE ~p.response
  BY <1>1 DEF With
<1>2. CASE p.response
  <2>1. p.from \in Devices /\ p.records \in Seq(RecordsOf(p.from))
    BY <1>2, ResponsesTold
  <2>2. PICK n \in Nat: DOMAIN p.records = 1..n /\ \A i \in 1..n: p.records[i] \in RecordsOf(p.from)
    BY <2>1
  <2>3. PICK f: f = CHOOSE g: Gathers(n, p.records, p.from, c, g)
    OBVIOUS
  <2>4. Gathers(n, p.records, p.from, c, f)
    BY <2>3, GathersExist
  <2>5. With(c, p) = f[1..n]
    <3>1. DOMAIN p.records = 1..n
      BY <2>2
    <3>2. With(c, p) = (CHOOSE g: Gathers(n, p.records, p.from, c, g))[1..n]
      BY <1>2, <3>1, WithIs
    <3> QED
      BY <2>3, <3>2
  <2>6. PICK w, d: w = p.records /\ d = p.from
    OBVIOUS
  <2>7. d \in Devices /\ Gathers(n, w, d, c, f)
    BY <2>1, <2>4, <2>6
  <2>8. AllFrom(d, n, w)
    BY <2>2, <2>6 DEF AllFrom
  <2>9. Known(f[1..n]) /\ f[1..n].emitted = c.emitted
    BY <2>7, <2>8, RecordsKeep
  <2> QED
    BY <2>5, <2>9
<1> QED
  BY <1>1, <1>2

-------------------------------------------------------------------------------
(* The service that is found *)

LEMMA ListOf ==
  ASSUME NEW S, IsFiniteSet(S)
  PROVE  SetToSeq(S) \in Seq(S) /\ (S # {} => SetToSeq(S) # <<>>)
<1> DEFINE n == Cardinality(S)
<1>1. n \in Nat /\ IsFiniteSet(1..n) /\ Cardinality(1..n) = n /\ (S # {} => n # 0)
  <2>1. n \in Nat /\ (S # {} => n # 0)
    BY FS_CardinalityType, FS_EmptySet
  <2> HIDE DEF n
  <2> QED
    BY <2>1, FS_Interval
<1>2. ExistsBijection(1..n, S)
  BY <1>1, FS_SameCardinalityBij
<1>3. \E f \in [1..n -> S]: IsInjective(f)
  BY <1>2 DEF ExistsBijection, Bijection, Injection, IsInjective
<1>4. SetToSeq(S) \in [1..n -> S]
  BY <1>3 DEF SetToSeq
<1> HIDE DEF n
<1>5. SetToSeq(S) \in Seq(S) /\ Len(SetToSeq(S)) = n
  BY <1>1, <1>4
<1> QED
  BY <1>1, <1>5

\* The best rank first.
LEMMA BuiltIs ==
  ASSUME NEW c, Known(c), NEW d \in Devices, c.instances[d].host # NoOne
  PROVE  /\ Built(c, d) \in Seq(Address) /\ Built(c, d) # <<>>
         /\ \A i \in DOMAIN Built(c, d): Built(c, d)[i].of = d /\ Built(c, d)[1].rank <= Built(c, d)[i].rank
<1>1. c.instances[d].host = d /\ c.instances[d].from = d
  BY DEF Known
<1>2. PICK w: w = c.addrs[d]
  OBVIOUS
<1>3. w \in Seq(Address) /\ \A i \in DOMAIN w: w[i].of = d
  BY <1>2 DEF Known, Collector
<1>4. CASE w = <<>>
  <2>1. Built(c, d) = <<[of |-> d, rank |-> 0]>>
    BY <1>1, <1>2, <1>4 DEF Built
  <2>2. PICK a: a = [of |-> d, rank |-> 0]
    OBVIOUS
  <2>3. a.of = d /\ a.rank = 0
    BY <2>2
  <2>4. Built(c, d) = <<a>> /\ a \in Address
    BY <2>1, <2>2 DEF Address
  <2> QED
    BY <2>3, <2>4
<1>5. CASE w # <<>>
  <2> DEFINE Of(n) == {a \in ToSet(w): a.rank = n}
  <2>1. Built(c, d) = SetToSeq(Of(0)) \o SetToSeq(Of(1)) \o SetToSeq(Of(2))
    <3>1. Built(c, d) = ByRank(w)
      BY <1>1, <1>2, <1>5, Zenon DEF Built
    <3>2. ByRank(w) = SetToSeq(Of(0)) \o SetToSeq(Of(1)) \o SetToSeq(Of(2))
      BY Zenon DEF ByRank
    <3> QED
      BY <3>1, <3>2, Zenon
  <2>2. ToSet(w) \subseteq Address /\ \A a \in ToSet(w): a.of = d /\ a.rank \in 0..2
    <3>1. ASSUME NEW i \in DOMAIN w PROVE w[i] \in Address /\ w[i].of = d
      BY <1>3
    <3>2. \A a \in Address: a.rank \in 0..2
      BY DEF Address
    <3> QED
      BY <3>1, <3>2 DEF ToSet
  <2>3. IsFiniteSet(ToSet(w)) /\ w[1] \in ToSet(w)
    <3>1. PICK n \in Nat: DOMAIN w = 1..n /\ n # 0
      BY <1>3, <1>5
    <3>2. IsFiniteSet(1..n) /\ 1 \in 1..n
      BY <3>1, FS_Interval
    <3>3. w \in Surjection(1..n, ToSet(w))
      BY <1>3, <3>1 DEF Surjection, ToSet
    <3>4. IsFiniteSet(ToSet(w))
      BY <3>2, <3>3, FS_Surjection
    <3> QED
      BY <3>1, <3>2, <3>4 DEF ToSet
  <2>4. ASSUME NEW n \in 0..2
        PROVE  /\ SetToSeq(Of(n)) \in Seq(Of(n))
               /\ Of(n) # {} => SetToSeq(Of(n)) # <<>>
               /\ \A a \in Of(n): a.of = d /\ a.rank = n
    <3>1. IsFiniteSet(Of(n))
      BY <2>3, FS_Subset
    <3> QED
      BY <2>2, <3>1, ListOf
  <2>5. w[1] \in Of(0) \/ w[1] \in Of(1) \/ w[1] \in Of(2)
    BY <2>2, <2>3
  <2>6. PICK u0, u1, u2: /\ u0 = SetToSeq(Of(0)) /\ u1 = SetToSeq(Of(1)) /\ u2 = SetToSeq(Of(2))
    OBVIOUS
  <2>7. PICK A0, A1, A2: A0 = Of(0) /\ A1 = Of(1) /\ A2 = Of(2)
    OBVIOUS
  <2>8. /\ u0 \in Seq(A0) /\ u1 \in Seq(A1) /\ u2 \in Seq(A2)
        /\ u0 # <<>> \/ u1 # <<>> \/ u2 # <<>>
        /\ \A a \in A0: a.of = d /\ a.rank = 0
        /\ \A a \in A1: a.of = d /\ a.rank = 1
        /\ \A a \in A2: a.of = d /\ a.rank = 2
    BY <2>4, <2>5, <2>6, <2>7
  <2>9. A0 \subseteq Address /\ A1 \subseteq Address /\ A2 \subseteq Address
    BY <2>2, <2>7
  <2>10. PICK v: v = u0 \o u1 \o u2
    OBVIOUS
  <2>11. v \in Seq(Address)
    <3> HIDE DEF Of
    <3>1. u0 \in Seq(Address) /\ u1 \in Seq(Address) /\ u2 \in Seq(Address)
      BY <2>8, <2>9
    <3> QED
      BY <2>10, <3>1
  <2>12. /\ v # <<>>
         /\ \A i \in DOMAIN v: v[i].of = d /\ v[i].rank \in 0..2
         /\ \A i \in DOMAIN v: v[1].rank <= v[i].rank
    <3> HIDE DEF Of
    <3>1. PICK k \in Nat, m \in Nat, n \in Nat: k = Len(u0) /\ m = Len(u1) /\ n = Len(u2)
      BY <2>8
    <3>2. /\ DOMAIN v = 1..(k + m + n) /\ k + m + n \in Nat
          /\ \A i \in 1..k: v[i] = u0[i] /\ u0[i] \in A0
          /\ \A i \in (k + 1)..(k + m): v[i] = u1[i - k] /\ u1[i - k] \in A1
          /\ \A i \in (k + m + 1)..(k + m + n): v[i] = u2[i - k - m] /\ u2[i - k - m] \in A2
      BY <2>8, <2>10, <3>1
    <3>3. k + m + n >= 1
      BY <2>8, <3>1
    <3>4. ASSUME NEW i \in DOMAIN v
          PROVE  i \in 1..k \/ i \in (k + 1)..(k + m) \/ i \in (k + m + 1)..(k + m + n)
      <4>1. i \in 1..(k + m + n) /\ k \in Nat /\ m \in Nat /\ n \in Nat
        BY <3>1, <3>2
      <4> QED
        BY <4>1
    <3>6. \A i \in 1..k: v[i].of = d /\ v[i].rank = 0
      BY <2>8, <3>2
    <3>7. \A i \in (k + 1)..(k + m): v[i].of = d /\ v[i].rank = 1
      BY <2>8, <3>2
    <3>8. \A i \in (k + m + 1)..(k + m + n): v[i].of = d /\ v[i].rank = 2
      BY <2>8, <3>2
    <3>9. CASE k > 0
      <4>1. v[1].rank = 0
        BY <3>1, <3>6, <3>9
      <4> QED
        BY <3>1, <3>2, <3>3, <3>4, <3>6, <3>7, <3>8, <4>1
    <3>10. CASE k = 0 /\ m > 0
      <4>1. 1 \in (k + 1)..(k + m) /\ 1..k = {}
        BY <3>1, <3>10
      <4>2. v[1].rank = 1
        BY <3>7, <4>1
      <4> QED
        BY <3>1, <3>2, <3>3, <3>4, <3>7, <3>8, <4>1, <4>2
    <3>11. CASE k = 0 /\ m = 0
      <4>1. 1 \in (k + m + 1)..(k + m + n) /\ 1..k = {} /\ (k + 1)..(k + m) = {}
        BY <3>1, <3>3, <3>11
      <4>2. v[1].rank = 2
        BY <3>8, <4>1
      <4> QED
        BY <3>1, <3>2, <3>3, <3>4, <3>8, <4>1, <4>2
    <3>12. k > 0 \/ (k = 0 /\ m > 0) \/ (k = 0 /\ m = 0)
      BY <3>1
    <3> QED
      BY <3>9, <3>10, <3>11, <3>12
  <2> QED
    BY <2>1, <2>6, <2>10, <2>12, <2>11
<1> QED
  BY <1>4, <1>5

-------------------------------------------------------------------------------
(* The invariant of the lookup *)

LEMMA NothingKnown == Known(EmptyCollector) /\ EmptyCollector.emitted = {}
                      /\ EmptyCollector.instances[Frame].host = NoOne
<1> PICK x, a, b: /\ x = EmptyCollector /\ a = [d \in Devices |-> NoInstance]
                  /\ b = [d \in Devices |-> <<>>]
  OBVIOUS
<1>1. x.instances = a /\ x.addrs = b /\ x.emitted = {} /\ x = [instances |-> a, addrs |-> b, emitted |-> {}]
  BY DEF EmptyCollector
<1>2. NoInstance \in Instance /\ NoInstance.host = NoOne /\ <<>> \in Seq(Address) /\ DOMAIN <<>> = {}
  BY DEF NoInstance, Instance
<1>3. a \in [Devices -> Instance] /\ b \in [Devices -> Seq(Address)]
  BY <1>2
<1>4. x \in Collector
  BY <1>1, <1>3 DEF Collector
<1>5. Known(x)
  BY <1>1, <1>2, <1>4 DEF Known
<1> QED
  BY <1>1, <1>2, <1>5, DeviceFacts

LEMMA InitLookup == Init => LookupInv
BY NothingKnown, DiscoveryAssumption DEF Init, DiscInit, LookupInv, LookupIsTrue

LEMMA NextLookup == LookupInv /\ [Next]_vars => LookupInv'
<1> SUFFICES ASSUME LookupInv, [Next]_vars PROVE LookupInv'
  OBVIOUS
<1>1. ASSUME UNCHANGED discVars, pc' = "dialLocal" => pc = "dialLocal"
      PROVE  LookupInv'
  BY <1>1 DEF LookupInv, LookupIsTrue
<1>2. CASE LookupHears
  <2>1. packets' \in Seq(Datagrams) /\ Len(packets') <= PacketCap
    BY <1>2, DiscoveryAssumption DEF LookupHears, Hears, LookupInv
  <2> QED
    BY <1>2, <2>1 DEF LookupHears, Hears, LookupInv, LookupIsTrue
<1>3. ASSUME LookupPassesOver \/ LookupFinds
      PROVE  /\ Head(packets) \in Datagrams /\ Tail(packets) \in Seq(Datagrams)
             /\ Len(Tail(packets)) <= PacketCap
             /\ Known(With(collector, Head(packets)))
             /\ With(collector, Head(packets)).emitted = collector.emitted
  <2>1. packets \in Seq(Datagrams) /\ packets # <<>> /\ Known(collector)
    BY <1>3 DEF LookupPassesOver, LookupFinds, PassesOver, Finds, LookupInv
  <2>2. /\ Head(packets) \in Datagrams /\ Tail(packets) \in Seq(Datagrams)
        /\ Len(Tail(packets)) <= PacketCap
    BY <2>1, DiscoveryAssumption DEF LookupInv
  <2> QED
    BY <2>1, <2>2, WithKeeps
<1>4. CASE LookupPassesOver
  <2>1. PICK c: c = With(collector, Head(packets))
    OBVIOUS
  <2>2. Known(c) /\ c.emitted = collector.emitted
    BY <1>3, <1>4, <2>1
  <2>3. /\ Frame \notin Completed(c) /\ collector' = [c EXCEPT !.emitted = @ \cup Completed(c)]
        /\ packets' = Tail(packets) /\ UNCHANGED <<found, pc>>
    BY <1>4, <2>1 DEF LookupPassesOver, PassesOver
  <2>4. Frame \notin c.emitted /\ Frame \in Devices
    BY <2>2, DeviceFacts DEF LookupInv
  <2>5. c.instances[Frame].host = NoOne
    BY <2>3, <2>4 DEF Completed
  <2>6. /\ collector'.instances = c.instances /\ collector'.addrs = c.addrs
        /\ collector'.emitted = c.emitted \cup Completed(c)
        /\ collector' = [instances |-> c.instances, addrs |-> c.addrs, emitted |-> c.emitted \cup Completed(c)]
    BY <2>2, <2>3 DEF Known, Collector
  <2>7. Completed(c) \subseteq Devices
    BY DEF Completed
  <2>8. collector' \in Collector
    BY <2>2, <2>6, <2>7 DEF Known, Collector
  <2>9. Known(collector')
    BY <2>2, <2>6, <2>8 DEF Known
  <2> QED
    BY <1>3, <1>4, <2>3, <2>4, <2>5, <2>6, <2>9 DEF LookupInv, LookupIsTrue
<1>5. CASE LookupFinds
  <2>1. PICK c: c = With(collector, Head(packets))
    OBVIOUS
  <2>2. Known(c)
    BY <1>3, <1>5, <2>1
  <2>3. Frame \in Completed(c) /\ found' = Built(c, Frame) /\ packets' = <<>> /\ collector' = EmptyCollector
    BY <1>5, <2>1 DEF LookupFinds, Finds, StopsLooking
  <2>4. Frame \in Devices /\ c.instances[Frame].host # NoOne
    BY <2>3, DeviceFacts DEF Completed
  <2>5. /\ found' \in Seq(Address) /\ found' # <<>>
        /\ \A i \in DOMAIN found': found'[i].of = Frame /\ found'[1].rank <= found'[i].rank
    BY <2>2, <2>3, <2>4, BuiltIs
  <2> QED
    BY <2>3, <2>5, NothingKnown, DiscoveryAssumption DEF LookupInv, LookupIsTrue
<1>6. CASE LookupFails
  <2>1. packets' = <<>> /\ collector' = EmptyCollector /\ UNCHANGED found /\ pc' # "dialLocal"
    BY <1>6 DEF LookupFails, FindsNothing, StopsLooking, LocalFails
  <2> QED
    BY <2>1, NothingKnown, DiscoveryAssumption DEF LookupInv, LookupIsTrue
<1>7. CASE ConnectsLocally \/ ConnectsLocallyFails \/ LocalTimesOut \/ LocalUp \/ ShakeLocalFails
           \/ Shakes("local") \/ Relay \/ GridAssigns \/ GridFailsUs
  <2>1. UNCHANGED discVars /\ (pc' = "dialLocal" => pc = "dialLocal")
    BY <1>7 DEF ConnectsLocally, ConnectsLocallyFails, LocalTimesOut, LocalUp, ShakeLocalFails, LocalFails,
         Shakes, Relay, TakesGrid, ConnectsToRelay, Holds, ClaimFails, Claims, ShakeRelayFails, RelayUp,
         StartsPairing, Proves, ProvesNot, GridAssigns, GridFailsUs
  <2> QED
    BY <1>1, <2>1
<1>8. CASE \/ GridDial \/ Closer \/ PeerEnds \/ GridDrops \/ ContextEnds \/ UNCHANGED vars
           \/ \E w \in Watchers: WatcherFires(w) \/ WatcherEnds(w)
  <2>1. UNCHANGED discVars /\ UNCHANGED pc
    BY <1>8 DEF GridDial, GridComesUp, GridFails, Closer, PeerEnds, GridDrops, ContextEnds,
         WatcherFires, WatcherEnds
  <2> QED
    BY <1>1, <2>1
<1> QED
  BY <1>2, <1>4, <1>5, <1>6, <1>7, <1>8 DEF Next, Local

\* Whatever the order and division of the records, and whoever else speaks of
\* the frame: a lookup that succeeds has an address, and the addresses are the
\* frame's, the most promising one first (Lookup, browse, the collector).
THEOREM LookupIsTrueHolds == Spec => []LookupIsTrue
<1>1. LookupInv => LookupIsTrue
  BY DEF LookupInv
<1> QED
  BY <1>1, InitLookup, NextLookup, PTL DEF Spec

LEMMA NextFlags == Flags /\ [Next]_vars => Flags'
<1> SUFFICES ASSUME Flags, [Next]_vars PROVE Flags'
  OBVIOUS
<1>1. used' \in {used, TRUE} /\ ctxEnded' \in {ctxEnded, TRUE} /\ localOver' \in {localOver, TRUE}
  <2>1. CASE Local \/ LookupHears \/ LocalTimesOut
    BY <2>1 DEF Local, LookupHears, LookupPassesOver, LookupFinds, LookupFails, ConnectsLocally,
         ConnectsLocallyFails, Shakes, LocalUp, ShakeLocalFails, LocalTimesOut
  <2>2. CASE Relay \/ GridAssigns \/ GridFailsUs
    BY <2>2 DEF Relay, TakesGrid, ConnectsToRelay, Holds, ClaimFails, Claims, Shakes, ShakeRelayFails,
         RelayUp, StartsPairing, Proves, ProvesNot, GridAssigns, GridFailsUs
  <2>3. CASE \/ GridDial \/ Closer \/ PeerEnds \/ GridDrops \/ ContextEnds \/ UNCHANGED vars
             \/ \E w \in Watchers: WatcherFires(w) \/ WatcherEnds(w)
    BY <2>3 DEF GridDial, GridComesUp, GridFails, Closer, PeerEnds, GridDrops, ContextEnds,
         WatcherFires, WatcherEnds
  <2> QED
    BY <2>1, <2>2, <2>3 DEF Next
<1> QED
  BY <1>1, Zenon DEF Flags

\* Everything the command and its lookup hold keeps its type, the queue of
\* datagrams its capacity, and the relay is not waited for beyond maxHoldFrames.
THEOREM TypeCorrect == Spec => []TypeOK
<1>1. IInv /\ Flags /\ LookupInv => TypeOK
  <2> SUFFICES ASSUME IInv, Flags, LookupInv PROVE TypeOK
    OBVIOUS
  <2>1. /\ collector.instances \in [Devices -> [host: Devices \cup {NoOne}, from: Devices \cup {NoOne}]]
        /\ collector.addrs \in [Devices -> Seq(Address)] /\ collector.emitted \subseteq Devices
    BY DEF LookupInv, Known, Collector, Instance
  <2> QED
    BY <2>1, Zenon DEF IInv, Types, Flags, LookupInv, LookupIsTrue, TypeOK
<1>2. Init => Flags
  BY Zenon DEF Init, Flags
<1> QED
  BY <1>1, <1>2, Invariant, NextFlags, InitLookup, NextLookup, PTL DEF Spec
===============================================================================
