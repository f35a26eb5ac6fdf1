--------------------------------- MODULE Reach ---------------------------------
(***************************************************************************)
(* How a command gets to a frame: connect (cmd/unframeo/main.go), which    *)
(* looks on the local network while the grid is dialled in the background, *)
(* and Grid.Connect and Grid.Pair (internal/sdg/grid.go), which have the   *)
(* grid assign a relay, claim a tunnel there (forward.go) and run the      *)
(* handshake to the far end (conn.go).  The grid connection itself is      *)
(* DialRace and Grid; a connection to the frame, once up, is Peer.         *)
(***************************************************************************)
EXTENDS Discovery

CONSTANT MaxHold      \* maxHoldFrames

ASSUME HoldAssumption == MaxHold \in Nat

Ways == {"auto", "server", "local", "relay", "pair"}
Conns == {"grid", "local", "relay"}
Watchers == {"local", "claim", "tunnel", "pairing"}

VARIABLES
  way,        \* -net; "server" is auto with -server given, "pair" the command
  pc,         \* where the command is
  dial,       \* the dial of the grid, and the channel its result is left in
  closer,     \* the goroutine left behind to close the grid connection
  via,        \* the connection returned, "none" before
  used,       \* the caller, or the far end, is through with it
  sock,       \* the sockets
  who,        \* who is at the far end
  steps,      \* packets of the handshake that have come back: WELC, COOK, REDY
  holds,      \* "still trying" frames from the relay
  ctxEnded,   \* the command is interrupted or out of time
  localOver,  \* the context of the local connection has ended
  watcher     \* the watcher of each watchCtx

callVars == <<way, closer, via, used>>
linkVars == <<who, steps, holds>>
ctxVars == <<ctxEnded, localOver>>
vars == <<callVars, pc, dial, sock, linkVars, ctxVars, watcher, discVars>>

\* The types; hold frames are counted to MaxHold and no further.
TypeOK ==
  /\ way \in Ways
  /\ pc \in {"lookup", "dialLocal", "shakeLocal", "await", "call", "dialRelay", "claim",
             "shakeRelay", "prove", "done", "failed"}
  /\ dial \in {"none", "running", "ok", "error", "taken"}
  /\ closer \in {"none", "dial", "peer", "ended"}
  /\ via \in {"none", "local", "relay"}
  /\ used \in BOOLEAN
  /\ sock \in [Conns -> {"none", "open", "closed"}]
  /\ who \in [{"local", "relay"} -> {Frame, Other, NoOne}]
  /\ steps \in 0..3
  /\ holds \in 0..MaxHold
  /\ ctxEnded \in BOOLEAN /\ localOver \in BOOLEAN
  /\ watcher \in [Watchers -> {"off", "on", "late"}]
  /\ packets \in Seq(Datagrams) /\ Len(packets) <= PacketCap
  /\ collector.instances \in [Devices -> [host: Devices \cup {NoOne}, from: Devices \cup {NoOne}]]
  /\ collector.addrs \in [Devices -> Seq(Address)]
  /\ collector.emitted \subseteq Devices
  /\ found \in Seq(Address) /\ (pc = "dialLocal" => found # <<>>)

\* Where there is no background dial, the grid is dialled in its place: the
\* command waits for it all the same.
Init ==
  /\ way \in Ways
  /\ pc = IF way \in {"auto", "local"} THEN "lookup" ELSE "await"
  /\ dial = IF way = "local" THEN "none" ELSE "running"
  /\ closer = "none" /\ via = "none" /\ used = FALSE
  /\ sock = [c \in Conns |-> "none"]
  /\ who = [c \in {"local", "relay"} |-> NoOne]
  /\ steps = 0 /\ holds = 0
  /\ ctxEnded = FALSE /\ localOver = FALSE
  /\ watcher = [w \in Watchers |-> "off"]
  /\ DiscInit

-------------------------------------------------------------------------------
(* Sockets and watchers *)

Opens(c) == sock' = [sock EXCEPT ![c] = "open"]

\* Closing what was never opened, or is closed, does nothing.
Closes(cs) == sock' = [c \in Conns |-> IF c \in cs /\ sock[c] = "open" THEN "closed" ELSE sock[c]]

Watches(w) == watcher' = [watcher EXCEPT ![w] = "on"]

\* A watcher that has yet to reach its select finds out there that it was
\* stopped, and may find its context ended as well.
Stopped(w) == IF watcher[w] = "on" THEN {"off", "late"} ELSE {watcher[w]}
Stops(w) == \E s \in Stopped(w): watcher' = [watcher EXCEPT ![w] = s]

Watched(w) == IF w = "local" THEN "local" ELSE "relay"
Over(w) == ctxEnded \/ (w = "local" /\ localOver)

WatcherFires(w) ==
  /\ watcher[w] # "off"
  /\ Over(w)
  /\ Closes({Watched(w)})
  /\ watcher' = [watcher EXCEPT ![w] = "off"]
  /\ UNCHANGED <<callVars, pc, dial, linkVars, ctxVars, discVars>>

WatcherEnds(w) ==
  /\ watcher[w] = "late"
  /\ watcher' = [watcher EXCEPT ![w] = "off"]
  /\ UNCHANGED <<callVars, pc, dial, sock, linkVars, ctxVars, discVars>>

-------------------------------------------------------------------------------
(* connect: the local network *)

\* Every local failure falls back to the relay, unless that is ruled out.
LocalFails == pc' = IF way = "local" THEN "failed" ELSE "await"

LookupHears ==
  /\ pc = "lookup" /\ Hears
  /\ UNCHANGED <<callVars, pc, dial, sock, linkVars, ctxVars, watcher>>

LookupPassesOver ==
  /\ pc = "lookup" /\ PassesOver
  /\ UNCHANGED <<callVars, pc, dial, sock, linkVars, ctxVars, watcher>>

LookupFinds ==
  /\ pc = "lookup" /\ Finds
  /\ pc' = "dialLocal"
  /\ UNCHANGED <<callVars, dial, sock, linkVars, ctxVars, watcher>>

\* No interface to ask on, the window is over, or the command interrupted.
LookupFails ==
  /\ pc = "lookup" /\ FindsNothing
  /\ LocalFails
  /\ UNCHANGED <<callVars, dial, sock, linkVars, ctxVars, watcher>>

\* An address may be somebody else's by now, or a name have been usurped.
ConnectsLocally ==
  /\ pc = "dialLocal"
  /\ Opens("local") /\ Watches("local")
  /\ \E d \in {Frame, Other}: who' = [who EXCEPT !["local"] = d]
  /\ pc' = "shakeLocal" /\ steps' = 0
  /\ UNCHANGED <<callVars, dial, holds, ctxVars, discVars>>

ConnectsLocallyFails ==
  /\ pc = "dialLocal"
  /\ LocalFails
  /\ localOver' = TRUE
  /\ UNCHANGED <<callVars, dial, sock, linkVars, ctxEnded, watcher, discVars>>

\* localDialTimeout.
LocalTimesOut ==
  /\ pc \in {"dialLocal", "shakeLocal"}
  /\ ~localOver
  /\ localOver' = TRUE
  /\ UNCHANGED <<callVars, pc, dial, sock, linkVars, ctxEnded, watcher, discVars>>

\* Mutant: cancelDial runs, and nobody stops the watcher before.
LocalUp_CancelsFirst ==
  /\ pc = "shakeLocal" /\ steps = 3
  /\ pc' = "done" /\ via' = "local"
  /\ localOver' = TRUE
  /\ closer' = IF way = "auto" THEN "dial" ELSE "none"
  /\ UNCHANGED <<way, used, dial, sock, linkVars, ctxEnded, watcher, discVars>>

\* The frame is there.  The grid, dialled for nothing, is left to closeGrid.
LocalUp ==
  /\ pc = "shakeLocal" /\ steps = 3
  /\ pc' = "done" /\ via' = "local"
  /\ Stops("local") /\ localOver' = TRUE
  /\ closer' = IF way = "auto" THEN "dial" ELSE "none"
  /\ UNCHANGED <<way, used, dial, sock, linkVars, ctxEnded, discVars>>

ShakeLocalFails ==
  /\ pc = "shakeLocal" /\ steps < 3
  /\ Closes({"local"}) /\ Stops("local") /\ localOver' = TRUE
  /\ LocalFails
  /\ UNCHANGED <<callVars, dial, linkVars, ctxEnded, discVars>>

-------------------------------------------------------------------------------
(* The handshake, to the frame itself or through the relay *)

\* Mutant: the key in WELC is taken as it comes.
Acceptable_Any(c) == TRUE

\* Only the frame asked for will do; a pairing is there to learn who it is.
Acceptable(c) == way = "pair" \/ who[c] = Frame

\* The packet waited for comes back and, but for the last, is answered.  What
\* has come may be read after the socket was closed, but nothing written.
Shakes(c) ==
  /\ pc = (IF c = "local" THEN "shakeLocal" ELSE "shakeRelay")
  /\ steps < 3
  /\ steps = 0 => Acceptable(c)
  /\ steps < 2 => sock[c] = "open"
  /\ steps' = steps + 1
  /\ UNCHANGED <<callVars, pc, dial, sock, who, holds, ctxVars, watcher, discVars>>

-------------------------------------------------------------------------------
(* The grid *)

GridComesUp ==
  /\ dial = "running"
  /\ dial' = "ok" /\ Opens("grid")
  /\ UNCHANGED <<callVars, pc, linkVars, ctxVars, watcher, discVars>>

GridFails ==
  /\ dial = "running"
  /\ dial' = "error"
  /\ UNCHANGED <<callVars, pc, sock, linkVars, ctxVars, watcher, discVars>>

\* closeGrid, and the goroutine that keeps the grid for as long as the peer.
Closer ==
  /\ \/ closer = "dial" /\ dial \in {"ok", "error"} /\ dial' = "taken"
     \/ closer = "peer" /\ used /\ UNCHANGED dial
  /\ Closes({"grid"})
  /\ closer' = "ended"
  /\ UNCHANGED <<way, pc, via, used, linkVars, ctxVars, watcher, discVars>>

TakesGrid ==
  /\ pc = "await" /\ dial \in {"ok", "error"}
  /\ dial' = "taken"
  /\ pc' = IF dial = "ok" THEN "call" ELSE "failed"
  /\ UNCHANGED <<callVars, sock, linkVars, ctxVars, watcher, discVars>>

-------------------------------------------------------------------------------
(* Grid.Connect and Grid.Pair *)

\* The grid names a relay.
GridAssigns ==
  /\ pc = "call"
  /\ pc' = "dialRelay"
  /\ UNCHANGED <<callVars, dial, sock, linkVars, ctxVars, watcher, discVars>>

\* The grid refuses or goes away, the context ends; or the relay cannot be
\* reached.  connect, like cmdPair, closes the grid.
GridFailsUs ==
  /\ pc \in {"call", "dialRelay"}
  /\ pc' = "failed"
  /\ Closes({"grid"})
  /\ UNCHANGED <<callVars, dial, linkVars, ctxVars, watcher, discVars>>

ConnectsToRelay ==
  /\ pc = "dialRelay"
  /\ Opens("relay") /\ Watches("claim")
  /\ pc' = "claim"
  /\ UNCHANGED <<callVars, dial, linkVars, ctxVars, discVars>>

\* Mutant: the relay may go on trying.
Holds_Uncounted ==
  /\ pc = "claim"
  /\ holds' = (holds + 1) % (MaxHold + 1)
  /\ UNCHANGED <<callVars, pc, dial, sock, who, steps, ctxVars, watcher, discVars>>

\* The relay is still trying; after MaxHold such frames it is given up.
Holds ==
  /\ pc = "claim" /\ holds < MaxHold
  /\ holds' = holds + 1
  /\ UNCHANGED <<callVars, pc, dial, sock, who, steps, ctxVars, watcher, discVars>>

\* An error from the relay, a hold too many, or no frame within the step
\* timeout; or the context has ended by the time the tunnel is there.
ClaimFails ==
  /\ pc = "claim"
  /\ pc' = "failed"
  /\ Closes({"relay", "grid"}) /\ Stops("claim")
  /\ UNCHANGED <<callVars, dial, linkVars, ctxVars, discVars>>

\* The tunnel is there; dialForwarded's watcher makes room for another.
Claims ==
  /\ pc = "claim" /\ ~ctxEnded
  /\ pc' = "shakeRelay" /\ steps' = 0
  /\ \E d \in {Frame, Other}: who' = [who EXCEPT !["relay"] = d]
  /\ \E s \in Stopped("claim"): watcher' = [watcher EXCEPT !["claim"] = s, !["tunnel"] = "on"]
  /\ UNCHANGED <<callVars, dial, sock, holds, ctxVars, discVars>>

ShakeRelayFails ==
  /\ pc = "shakeRelay" /\ steps < 3
  /\ pc' = "failed"
  /\ Closes({"relay", "grid"}) /\ Stops("tunnel")
  /\ UNCHANGED <<callVars, dial, linkVars, ctxVars, discVars>>

RelayUp ==
  /\ pc = "shakeRelay" /\ steps = 3 /\ way # "pair"
  /\ pc' = "done" /\ via' = "relay"
  /\ Stops("tunnel") /\ closer' = "peer"
  /\ UNCHANGED <<way, used, dial, sock, linkVars, ctxVars, discVars>>

StartsPairing ==
  /\ pc = "shakeRelay" /\ steps = 3 /\ way = "pair"
  /\ pc' = "prove"
  /\ \E s \in Stopped("tunnel"): watcher' = [watcher EXCEPT !["tunnel"] = s, !["pairing"] = "on"]
  /\ UNCHANGED <<callVars, dial, sock, linkVars, ctxVars, discVars>>

\* The result matches what only the code, and both keys, lead to.
Proves ==
  /\ pc = "prove" /\ who["relay"] = Frame
  /\ pc' = "done" /\ via' = "relay" /\ used' = TRUE
  /\ Closes({"relay", "grid"}) /\ Stops("pairing")
  /\ UNCHANGED <<way, closer, dial, linkVars, ctxVars, discVars>>

ProvesNot ==
  /\ pc = "prove"
  /\ pc' = "failed"
  /\ Closes({"relay", "grid"}) /\ Stops("pairing")
  /\ UNCHANGED <<callVars, dial, linkVars, ctxVars, discVars>>

-------------------------------------------------------------------------------
(* The rest of the world *)

\* The command closes its client, or the connection ends by itself.
PeerEnds ==
  /\ pc = "done" /\ ~used
  /\ used' = TRUE
  /\ Closes({via})
  /\ UNCHANGED <<way, closer, via, pc, dial, linkVars, ctxVars, watcher, discVars>>

GridDrops ==
  /\ sock["grid"] = "open"
  /\ Closes({"grid"})
  /\ UNCHANGED <<callVars, pc, dial, linkVars, ctxVars, watcher, discVars>>

ContextEnds ==
  /\ ~ctxEnded
  /\ ctxEnded' = TRUE
  /\ UNCHANGED <<callVars, pc, dial, sock, linkVars, localOver, watcher, discVars>>

Local == \/ LookupPassesOver \/ LookupFinds \/ LookupFails \/ ConnectsLocally \/ ConnectsLocallyFails
         \/ Shakes("local") \/ LocalUp \/ ShakeLocalFails

Relay == \/ TakesGrid \/ ConnectsToRelay \/ Holds \/ ClaimFails \/ Claims
         \/ Shakes("relay") \/ ShakeRelayFails \/ RelayUp \/ StartsPairing \/ Proves \/ ProvesNot

GridDial == GridComesUp \/ GridFails

Next == \/ Local \/ Relay \/ GridDial \/ Closer
        \/ GridAssigns \/ GridFailsUs
        \/ \E w \in Watchers: WatcherFires(w) \/ WatcherEnds(w)
        \/ LookupHears \/ LocalTimesOut \/ PeerEnds \/ GridDrops \/ ContextEnds

Spec == Init /\ [][Next]_vars

\* The lookup has its window, a dial its timeout and every read and write of a
\* connection being set up the step timeout; the dial of the grid ends
\* (DialRace), and goroutines run.  A call waits for the grid as long as the
\* caller does, so nothing is assumed of it, nor of anybody else.
FairSpec == /\ Spec
            /\ WF_vars(LookupFails) /\ WF_vars(Local) /\ WF_vars(Relay) /\ WF_vars(GridDial) /\ WF_vars(Closer)
            /\ \A w \in Watchers: WF_vars(WatcherFires(w) \/ WatcherEnds(w))

-------------------------------------------------------------------------------
(* Properties *)

\* Whatever the order and division of the records, whoever else mentions the
\* frame or queries for it and whatever is dropped: a lookup that succeeds has
\* somewhere to connect to, which belongs to the frame, the most promising
\* address first; and it goes on only while no SRV of the frame got through.
LookupIsTrue ==
  /\ pc = "dialLocal" => found # <<>>
  /\ \A i \in DOMAIN found: found[i].of = Frame /\ found[1].rank <= found[i].rank
  /\ collector.instances[Frame].host = NoOne

\* Whichever way won, the frame at the other end is the one that was asked for,
\* though names are matched without their last digit, addresses may be stale
\* and a relay may join the wrong two; and a pairing is with whoever showed the
\* code.
RightFrame == pc = "done" => who[via] = Frame

\* A connection that was handed to the caller is closed by the caller, by its
\* far end or on account of the command's own context: the contexts of setting
\* it up are over for it (but for a watcher still on its way to its select).
CallerKeepsIt ==
  [][\A c \in {"local", "relay"}:
       via = c /\ sock[c] = "open" /\ sock'[c] = "closed"
         => used' \/ ctxEnded \/ \E w \in Watchers: Watched(w) = c /\ watcher[w] = "late"]_vars

\* Unless the grid never answers the call, the command gets its connection or
\* an error, with no help from its own timeout; and of all that was opened on
\* the way only the connection in use, and the grid with it, stays open.
ReachSettles ==
  <>[](pc # "call") =>
    <>[](/\ pc \in {"done", "failed"} /\ dial # "running"
         /\ \A c \in Conns: sock[c] = "open" => /\ ~used
                                                /\ c = via \/ (c = "grid" /\ via = "relay"))
===============================================================================
