------------------------------- MODULE Discovery -------------------------------
(***************************************************************************)
(* Looking for a frame on the local network: Lookup and browse             *)
(* (internal/mdns/mdns.go), which take datagrams off a bounded queue until *)
(* the frame is found or the window closes, and the collector              *)
(* (collect.go), which puts the records in them together in whatever order *)
(* they come.  Reach runs the lookup; everybody in the multicast group is  *)
(* external.  A device stands for its instance name and its host name, and *)
(* an address is that of a device, with its rank (addrRank).  Repeating    *)
(* the query changes nothing here: answers may come at any time.           *)
(***************************************************************************)
EXTENDS Naturals, SequencesExt

CONSTANTS Frame,      \* the frame asked for, or the one that shows the code
          Other,      \* anybody else
          NoOne,
          Ranks,      \* of the addresses each device tells
          PacketCap   \* capacity of packets

ASSUME DevicesAssumption == Frame # Other /\ NoOne \notin {Frame, Other}
ASSUME DiscoveryAssumption == Ranks \in [{Frame, Other} -> SUBSET (0..2)] /\ PacketCap \in Nat \ {0}

Devices == {Frame, Other}

VARIABLES
  packets,    \* the queue from readInto to browse
  collector,  \* instances, addresses by host, and the instances emitted
  found       \* the service Lookup returned: its addresses, best first

discVars == <<packets, collector, found>>

Address == [of: Devices, rank: 0..2]

NoInstance == [host |-> NoOne, from |-> NoOne]

EmptyCollector == [instances |-> [d \in Devices |-> NoInstance],
                   addrs |-> [d \in Devices |-> <<>>],
                   emitted |-> {}]

DiscInit == packets = <<>> /\ collector = EmptyCollector /\ found = <<>>

-------------------------------------------------------------------------------
(* Datagrams in the group *)

Ptr(d, ours) == [type |-> "PTR", ours |-> ours, name |-> d]
Srv(d, ours) == [type |-> "SRV", ours |-> ours, name |-> d, target |-> d]
Addr(d, rank) == [type |-> "A", name |-> d, addr |-> [of |-> d, rank |-> rank]]

Addrs(d) == {Addr(d, n) : n \in Ranks[d]}

\* An answer in one piece, or in several; and what the device has besides.
Answers(d) ==
  {<<Ptr(d, TRUE), Srv(d, TRUE)>> \o addrs : addrs \in {<<>>} \cup (Addrs(d) \X Addrs(d))}
  \cup {<<Ptr(d, TRUE)>>, <<Srv(d, TRUE)>>, <<Ptr(d, FALSE), Srv(d, FALSE)>>}
  \cup {<<a>> : a \in Addrs(d)}

\* Anybody may mention an instance, or list it as known in a query.
Told == UNION {[response: {TRUE}, from: {d}, records: Answers(d)] : d \in Devices}
Mentioned == [response: {TRUE}, from: Devices, records: {<<Ptr(d, TRUE)>> : d \in Devices}]
Asked == [response: {FALSE}, from: Devices, records: {<<Ptr(d, TRUE), Srv(d, TRUE)>> : d \in Devices}]

Datagrams == Told \cup Mentioned \cup Asked

-------------------------------------------------------------------------------
(* The collector *)

\* Mutant: an instance keeps the address of whoever mentioned it first.
Recorded_FirstFrom(c, r, from) ==
  CASE r.type = "PTR" ->
         IF r.ours /\ c.instances[r.name] = NoInstance
         THEN [c EXCEPT !.instances[r.name].from = from] ELSE c
    [] r.type = "SRV" ->
         IF ~r.ours THEN c
         ELSE [c EXCEPT !.instances[r.name] =
                 [host |-> r.target, from |-> IF @ = NoInstance THEN from ELSE @.from]]
    [] r.type = "A" ->
         IF r.addr \in ToSet(c.addrs[r.name]) THEN c ELSE [c EXCEPT !.addrs[r.name] = Append(@, r.addr)]

\* A PTR makes an instance known, an SRV says where it is, and its sender is
\* the address to fall back on.  Other services are passed over.
Recorded(c, r, from) ==
  CASE r.type = "PTR" ->
         IF r.ours /\ c.instances[r.name] = NoInstance
         THEN [c EXCEPT !.instances[r.name].from = from] ELSE c
    [] r.type = "SRV" ->
         IF r.ours THEN [c EXCEPT !.instances[r.name] = [host |-> r.target, from |-> from]] ELSE c
    [] r.type = "A" ->
         IF r.addr \in ToSet(c.addrs[r.name]) THEN c ELSE [c EXCEPT !.addrs[r.name] = Append(@, r.addr)]

\* Only a response advertises anything.
With(c, p) ==
  IF p.response THEN FoldLeft(LAMBDA got, r: Recorded(got, r, p.from), c, p.records) ELSE c

\* The instances that have what they need and were not reported before.
Completed(c) == {d \in Devices \ c.emitted : c.instances[d].host # NoOne}

\* A stable sort; an address comes once, and a device has one of each rank.
ByRank(addrs) ==
  LET Of(n) == SetToSeq({a \in ToSet(addrs): a.rank = n}) IN Of(0) \o Of(1) \o Of(2)

\* The addresses of the host, or the one the SRV came from.
Built(c, d) ==
  LET known == c.addrs[c.instances[d].host] IN
    IF known = <<>> THEN <<[of |-> c.instances[d].from, rank |-> 0]>> ELSE ByRank(known)

-------------------------------------------------------------------------------
(* Lookup and browse *)

\* readInto.  A datagram that finds the queue full is dropped.
Hears ==
  /\ Len(packets) < PacketCap
  /\ \E p \in Datagrams: packets' = Append(packets, p)
  /\ UNCHANGED <<collector, found>>

\* What completes in a datagram is emitted, and none of it is wanted.
PassesOver ==
  /\ packets # <<>>
  /\ LET c == With(collector, Head(packets)) IN
       /\ Frame \notin Completed(c)
       /\ collector' = [c EXCEPT !.emitted = @ \cup Completed(c)]
  /\ packets' = Tail(packets)
  /\ UNCHANGED found

\* browse returns; its queue and its collector are gone.
StopsLooking == packets' = <<>> /\ collector' = EmptyCollector

Finds ==
  /\ packets # <<>>
  /\ LET c == With(collector, Head(packets)) IN
       Frame \in Completed(c) /\ found' = Built(c, Frame)
  /\ StopsLooking

FindsNothing == StopsLooking /\ UNCHANGED found
===============================================================================
