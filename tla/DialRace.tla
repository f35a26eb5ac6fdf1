------------------------------- MODULE DialRace -------------------------------
(***************************************************************************)
(* sdg.Dial (internal/sdg/grid.go): one goroutine per grid server connects *)
(* and brings a connection up; the first to finish wins, the others are    *)
(* cancelled, and those that finish all the same are closed.  Each         *)
(* connection has a watcher (watchCtx, internal/sdg/conn.go) that closes   *)
(* the socket when the race is cancelled, until it is told to stop.        *)
(***************************************************************************)
EXTENDS Naturals, FiniteSets, Sequences

CONSTANTS Servers,    \* the servers given to Dial
          NoServer    \* Dial has no winner

ASSUME ServersAssumption == /\ IsFiniteSet(Servers) /\ Servers # {}
                            /\ NoServer \notin Servers

N == Cardinality(Servers)

VARIABLES
  dpc,         \* Dial: "racing", "returned" with a grid, or "failed"
  received,    \* how many results Dial has taken
  winner,      \* the server whose connection Dial returned
  ctxEnded,    \* the context given to Dial has ended
  cancelled,   \* raceCtx is cancelled, by that context or by Dial
  left,        \* how many results closeLateWinners still waits for
  results,     \* the results channel; it has room for all
  rpc,         \* where each server's goroutine is
  result,      \* what dialOne returns for each server
  sock,        \* each server's socket
  watcher,     \* each socket's watcher
  killedBy     \* the watcher state in which a watcher closed the socket

dialVars == <<dpc, received, winner, ctxEnded, left>>
racerVars == <<rpc, result>>
vars == <<dialVars, cancelled, results, racerVars, sock, watcher, killedBy>>

\* The types; every server reports once, so the results channel has room.
TypeOK ==
  /\ dpc \in {"racing", "returned", "failed"}
  /\ received \in 0..N
  /\ winner \in Servers \cup {NoServer}
  /\ ctxEnded \in BOOLEAN /\ cancelled \in BOOLEAN
  /\ left \in 0..N
  /\ results \in Seq(Servers) /\ Len(results) <= N
  /\ rpc \in [Servers -> {"connect", "setup", "stop", "report", "end"}]
  /\ result \in [Servers -> {"none", "up", "error"}]
  /\ sock \in [Servers -> {"none", "open", "closed"}]
  /\ watcher \in [Servers -> {"none", "new", "parked", "late", "firing", "lateFiring", "ended"}]
  /\ killedBy \in [Servers -> {"none", "firing", "lateFiring"}]

Init ==
  /\ dpc = "racing" /\ received = 0 /\ winner = NoServer /\ left = 0
  /\ ctxEnded = FALSE /\ cancelled = FALSE
  /\ results = <<>>
  /\ rpc = [s \in Servers |-> "connect"] /\ result = [s \in Servers |-> "none"]
  /\ sock = [s \in Servers |-> "none"]
  /\ watcher = [s \in Servers |-> "none"] /\ killedBy = [s \in Servers |-> "none"]

-------------------------------------------------------------------------------
(* dialOne, and the goroutine that reports its result *)

Connects(s) ==
  /\ rpc[s] = "connect"
  /\ ~cancelled
  /\ sock' = [sock EXCEPT ![s] = "open"]
  /\ watcher' = [watcher EXCEPT ![s] = "new"]
  /\ rpc' = [rpc EXCEPT ![s] = "setup"]
  /\ UNCHANGED <<dialVars, cancelled, results, result, killedBy>>

ConnectFails(s) ==
  /\ rpc[s] = "connect"
  /\ rpc' = [rpc EXCEPT ![s] = "report"]
  /\ result' = [result EXCEPT ![s] = "error"]
  /\ UNCHANGED <<dialVars, cancelled, results, sock, watcher, killedBy>>

\* The handshake, the protocol version and the first pong are through; the
\* last of them may have been read before the watcher closed the socket.
ComesUp(s) ==
  /\ rpc[s] = "setup"
  /\ rpc' = [rpc EXCEPT ![s] = "stop"]
  /\ result' = [result EXCEPT ![s] = "up"]
  /\ UNCHANGED <<dialVars, cancelled, results, sock, watcher, killedBy>>

\* A step fails, or takes longer than the step timeout.
SetupFails(s) ==
  /\ rpc[s] = "setup"
  /\ sock' = [sock EXCEPT ![s] = "closed"]
  /\ rpc' = [rpc EXCEPT ![s] = "stop"]
  /\ result' = [result EXCEPT ![s] = "error"]
  /\ UNCHANGED <<dialVars, cancelled, results, watcher, killedBy>>

\* Mutant: dialOne returns without stopping its watcher.
StopsWatcher_Forgotten(s) ==
  /\ rpc[s] = "stop"
  /\ rpc' = [rpc EXCEPT ![s] = "report"]
  /\ UNCHANGED <<dialVars, cancelled, results, result, sock, watcher, killedBy>>

\* The deferred stop.  A watcher that waits in its select leaves it at once;
\* one that has not got there yet finds out when it does.
StopsWatcher(s) ==
  /\ rpc[s] = "stop"
  /\ rpc' = [rpc EXCEPT ![s] = "report"]
  /\ watcher' = [watcher EXCEPT ![s] = CASE @ = "new" -> "late"
                                         [] @ = "parked" -> "ended"
                                         [] OTHER -> @]
  /\ UNCHANGED <<dialVars, cancelled, results, result, sock, killedBy>>

Reports(s) ==
  /\ rpc[s] = "report"
  /\ results' = Append(results, s)
  /\ rpc' = [rpc EXCEPT ![s] = "end"]
  /\ UNCHANGED <<dialVars, cancelled, result, sock, watcher, killedBy>>

Racer(s) == \/ Connects(s) \/ ConnectFails(s) \/ ComesUp(s) \/ SetupFails(s)
            \/ StopsWatcher(s) \/ Reports(s)

-------------------------------------------------------------------------------
(* watchCtx's goroutine *)

WatcherUnchanged == UNCHANGED <<dialVars, cancelled, results, racerVars>>

\* Its select is entered: with one case ready that case is taken, with both
\* either, with none it waits.
WatcherSelects(s) ==
  /\ \/ /\ watcher[s] = "new"
        /\ watcher' = [watcher EXCEPT ![s] = IF cancelled THEN "firing" ELSE "parked"]
     \/ /\ watcher[s] = "late"
        /\ watcher' = [watcher EXCEPT ![s] = "ended"]
     \/ /\ watcher[s] = "late"
        /\ cancelled
        /\ watcher' = [watcher EXCEPT ![s] = "lateFiring"]
  /\ UNCHANGED <<sock, killedBy>> /\ WatcherUnchanged

WatcherCloses(s) ==
  /\ watcher[s] \in {"firing", "lateFiring"}
  /\ IF sock[s] = "open"
       THEN /\ sock' = [sock EXCEPT ![s] = "closed"]
            /\ killedBy' = [killedBy EXCEPT ![s] = watcher[s]]
       ELSE UNCHANGED <<sock, killedBy>>
  /\ watcher' = [watcher EXCEPT ![s] = "ended"]
  /\ WatcherUnchanged

Watcher(s) == WatcherSelects(s) \/ WatcherCloses(s)

\* Cancelling raceCtx takes every waiting watcher out of its select.
Cancel ==
  /\ cancelled' = TRUE
  /\ watcher' = [s \in Servers |-> IF watcher[s] = "parked" THEN "firing" ELSE watcher[s]]

-------------------------------------------------------------------------------
(* Dial and closeLateWinners *)

TakesResult == results # <<>> /\ results' = Tail(results)

\* Mutant: the first failure ends the race.
DialTakesError_GivesUp ==
  /\ dpc = "racing"
  /\ TakesResult
  /\ result[Head(results)] = "error"
  /\ received' = received + 1
  /\ dpc' = "failed" /\ Cancel
  /\ UNCHANGED <<winner, ctxEnded, left, racerVars, sock, killedBy>>

\* Another server may still do; after the last, Dial fails and its deferred
\* cancel runs.
DialTakesError ==
  /\ dpc = "racing"
  /\ TakesResult
  /\ result[Head(results)] = "error"
  /\ received' = received + 1
  /\ IF received + 1 = N
       THEN dpc' = "failed" /\ Cancel
       ELSE UNCHANGED <<dpc, cancelled, watcher>>
  /\ UNCHANGED <<winner, ctxEnded, left, racerVars, sock, killedBy>>

\* Mutant: closeLateWinners waits for one result too few.
DialTakesWinner_OneShort ==
  /\ dpc = "racing"
  /\ TakesResult
  /\ result[Head(results)] = "up"
  /\ winner' = Head(results)
  /\ received' = received + 1
  /\ left' = IF N - received > 2 THEN N - received - 2 ELSE 0
  /\ dpc' = "returned" /\ Cancel
  /\ UNCHANGED <<ctxEnded, racerVars, sock, killedBy>>

\* The winner: cancel, leave the other results to closeLateWinners, return.
DialTakesWinner ==
  /\ dpc = "racing"
  /\ TakesResult
  /\ result[Head(results)] = "up"
  /\ winner' = Head(results)
  /\ received' = received + 1
  /\ left' = N - received - 1
  /\ dpc' = "returned" /\ Cancel
  /\ UNCHANGED <<ctxEnded, racerVars, sock, killedBy>>

ClosesLate ==
  /\ left > 0
  /\ TakesResult
  /\ left' = left - 1
  /\ sock' = IF result[Head(results)] = "up" THEN [sock EXCEPT ![Head(results)] = "closed"]
             ELSE sock
  /\ UNCHANGED <<dpc, received, winner, ctxEnded, cancelled, racerVars, watcher, killedBy>>

Dial == DialTakesError \/ DialTakesWinner \/ ClosesLate

ContextEnds ==
  /\ ~ctxEnded
  /\ ctxEnded' = TRUE
  /\ Cancel
  /\ UNCHANGED <<dpc, received, winner, left, results, racerVars, sock, killedBy>>

Next == \/ \E s \in Servers: Racer(s) \/ Watcher(s)
        \/ Dial \/ ContextEnds

Spec == Init /\ [][Next]_vars

\* Every goroutine runs.  Connecting is bounded by the dialler's timeout and
\* each step after it by the step timeout, so every racer gets somewhere.
FairSpec == Spec /\ WF_vars(Dial) /\ \A s \in Servers: WF_vars(Racer(s)) /\ WF_vars(Watcher(s))

-------------------------------------------------------------------------------
(* Properties *)

\* Dial fails only after every server has; a winner is a connection that came up.
FailsOnlyIfAllFail ==
  /\ dpc = "failed" => \A s \in Servers: result[s] = "error"
  /\ dpc = "returned" => result[winner] = "up"

\* The connection Dial returns is not closed under its user by the
\* cancellation that ends the race, so long as its watcher had begun to wait
\* by the time dialOne returned and the caller's context has not ended.
WinnerOutlivesRace ==
  dpc = "returned" /\ ~ctxEnded => killedBy[winner] # "firing"

\* Dial always answers, every server's goroutine and the one that waits for
\* the late results end, and no connection but the winner's survives: whoever
\* finishes late is closed, by its own failure, its watcher or closeLateWinners.
RaceSettles ==
  <>[](/\ dpc # "racing" /\ left = 0
       /\ \A s \in Servers: rpc[s] = "end" /\ (sock[s] = "open" => s = winner))

\* "The returned function stops the watcher" (conn.go:276): what the watcher
\* does afterwards does not touch the connection Dial has returned.
StoppedWatcherIsHarmless ==
  dpc = "returned" /\ ~ctxEnded => killedBy[winner] = "none"
===============================================================================
