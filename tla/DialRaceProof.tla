--------------------------- MODULE DialRaceProof ---------------------------
(***************************************************************************)
(* The safety properties of DialRace.tla, for any finite set of servers.   *)
(* IInv is the inductive invariant: TypeOK, every server in the results    *)
(* channel once and after its goroutine has ended (OnceInv), the results   *)
(* Dial has counted are those of different servers (CountInv), what the    *)
(* decision rested on stays true (DecidedInv), and a watcher fires only    *)
(* when it may (WatcherInv).                                               *)
(***************************************************************************)
EXTENDS DialRace, FiniteSetTheorems, TLAPS

\* The state tuples, expanded wherever a step is split into its variables.
USE DEF vars, dialVars, racerVars

\* The servers whose result Dial has taken.
Taken == {s \in Servers: rpc[s] = "end" /\ \A i \in 1..Len(results): results[i] # s}

OnceInv ==
  /\ \A i \in 1..Len(results): rpc[results[i]] = "end"
  /\ \A i, j \in 1..Len(results): results[i] = results[j] => i = j

CountInv ==
  dpc = "racing" => /\ received = Cardinality(Taken)
                    /\ \A s \in Taken: result[s] = "error"

DecidedInv ==
  /\ left > 0 => dpc = "returned"
  /\ dpc = "failed" => \A s \in Servers: rpc[s] = "end" /\ result[s] = "error"
  /\ dpc = "returned" => winner \in Servers /\ rpc[winner] = "end" /\ result[winner] = "up"

WatcherInv ==
  /\ dpc = "racing" /\ ~ctxEnded => ~cancelled
  /\ ~cancelled => \A s \in Servers: /\ watcher[s] \notin {"firing", "lateFiring"}
                                     /\ killedBy[s] = "none"
  /\ \A s \in Servers: rpc[s] = "connect" => watcher[s] = "none"
  /\ \A s \in Servers: rpc[s] \in {"report", "end"} => watcher[s] \notin {"new", "parked"}
  /\ dpc = "returned" /\ ~ctxEnded => watcher[winner] # "firing" /\ killedBy[winner] # "firing"

IInv == TypeOK /\ OnceInv /\ CountInv /\ DecidedInv /\ WatcherInv

LEMMA ServerCount == N \in Nat \ {0} /\ IsFiniteSet(Servers)
BY ServersAssumption, FS_CardinalityType, FS_EmptySet DEF N

\* The invariant holds at the start.
LEMMA InitIInv == Init => IInv
<1> SUFFICES ASSUME Init PROVE IInv
  OBVIOUS
<1>1. TypeOK
  <2>1. results \in Seq(Servers) /\ Len(results) = 0
    BY DEF Init
  <2>2. 0 \in 0..N /\ Len(results) <= N
    BY <2>1, ServerCount
  <2> QED
    BY <2>1, <2>2 DEF Init, TypeOK
<1>4. 1..Len(results) = {}
  BY DEF Init
<1>5. OnceInv
  BY <1>4 DEF OnceInv
<1>6. DecidedInv /\ WatcherInv
  BY DEF Init, DecidedInv, WatcherInv
<1>2. Taken = {}
  BY DEF Init, Taken
<1>3. CountInv
  BY <1>2, FS_EmptySet DEF Init, CountInv
<1> QED
  BY <1>1, <1>3, <1>5, <1>6 DEF IInv

\* A sequence of servers without repetition is no longer than there are servers.
LEMMA NoRepeatsShort ==
  ASSUME NEW r \in Seq(Servers), \A i, j \in 1..Len(r): r[i] = r[j] => i = j
  PROVE  Len(r) <= N
<1>1. r \in Injection(1..Len(r), Servers)
  BY DEF Injection, IsInjective
<1>2. Cardinality(1..Len(r)) <= N
  BY <1>1, ServerCount, FS_Injection DEF N
<1>3. Cardinality(1..Len(r)) = Len(r)
  BY FS_Interval
<1> QED
  BY <1>2, <1>3

\* A goroutine that reports adds its server, which was not there, and Dial has
\* taken no more than before.
LEMMA ReportsStep ==
  ASSUME IInv, NEW s \in Servers, Reports(s)
  PROVE  IInv'
<1> USE DEF Reports
<1>1. results' \in Seq(Servers) /\ Len(results') = Len(results) + 1
  BY DEF IInv, TypeOK
<1>2. \A i \in 1..Len(results): results'[i] = results[i]
  BY DEF IInv, TypeOK
<1>3. results'[Len(results) + 1] = s /\ Len(results) \in Nat
  BY DEF IInv, TypeOK
<1>4. \A i \in 1..Len(results): results[i] # s
  BY DEF IInv, OnceInv
<1>5. rpc' = [rpc EXCEPT ![s] = "end"] /\ rpc \in [Servers -> {"connect", "setup", "stop", "report", "end"}]
  BY DEF IInv, TypeOK
<1>6. OnceInv'
  <2>1. \A i \in 1..Len(results): results[i] \in Servers
    BY DEF IInv, TypeOK
  <2>2. \A i \in 1..Len(results'): rpc'[results'[i]] = "end"
    BY <2>1, <1>1, <1>2, <1>3, <1>5 DEF IInv, OnceInv
  <2>3. \A i, j \in 1..Len(results'): results'[i] = results'[j] => i = j
    BY <1>1, <1>2, <1>3, <1>4 DEF IInv, OnceInv
  <2> QED
    BY <2>2, <2>3 DEF OnceInv
<1>7. TypeOK'
  <2>1. Len(results') <= N'
    BY <1>1, <1>6, NoRepeatsShort DEF OnceInv, N
  <2> QED
    BY <2>1, <1>1 DEF IInv, TypeOK, N
<1>8. Taken' = Taken
  BY <1>1, <1>2, <1>3, <1>4, <1>5 DEF Taken
<1>9. CountInv'
  BY <1>8 DEF IInv, CountInv, Taken
<1>10. DecidedInv' /\ WatcherInv'
  BY DEF IInv, TypeOK, DecidedInv, WatcherInv
<1> QED
  BY <1>6, <1>7, <1>9, <1>10 DEF IInv

\* What taking a result off the channel does to it.
LEMMA TakeFacts ==
  ASSUME IInv, TakesResult, UNCHANGED rpc
  PROVE  /\ Head(results) \in Servers /\ rpc[Head(results)] = "end"
         /\ results' \in Seq(Servers) /\ Len(results') <= N /\ N' = N
         /\ OnceInv'
         /\ Head(results) \notin Taken
         /\ Taken' = Taken \cup {Head(results)}
<1> USE DEF TakesResult
<1>1. /\ Head(results) \in Servers /\ Head(results) = results[1]
      /\ results' \in Seq(Servers) /\ Len(results') = Len(results) - 1
      /\ Len(results) \in Nat \ {0} /\ Len(results) <= N
      /\ \A i \in 1..Len(results'): results'[i] = results[i + 1]
  BY DEF IInv, TypeOK
<1>2. rpc[Head(results)] = "end" /\ Head(results) \notin Taken
  BY <1>1 DEF IInv, OnceInv, Taken
<1>3. OnceInv'
  BY <1>1 DEF IInv, OnceInv
<1>4. \A i \in 1..Len(results'): results'[i] # results[1]
  BY <1>1 DEF IInv, OnceInv
<1>5. \A s \in Servers: s # results[1] =>
        ((\A i \in 1..Len(results'): results'[i] # s) <=> (\A i \in 1..Len(results): results[i] # s))
  <2> SUFFICES ASSUME NEW s \in Servers, s # results[1],
                      NEW i \in 1..Len(results), results[i] = s
               PROVE  \E j \in 1..Len(results'): results'[j] = s
    BY <1>1
  <2>1. i - 1 \in 1..Len(results') /\ (i - 1) + 1 = i
    BY <1>1
  <2> QED
    BY <2>1, <1>1
<1>6. Taken' = Taken \cup {Head(results)}
  BY <1>1, <1>2, <1>4, <1>5 DEF Taken
<1> QED
  BY <1>1, <1>2, <1>3, <1>6, ServerCount DEF N

\* There is one more result to count than Dial has counted.
LEMMA TakeCounts ==
  ASSUME IInv, TakesResult, UNCHANGED rpc, dpc = "racing"
  PROVE  /\ received \in Nat /\ received + 1 <= N
         /\ Cardinality(Taken') = received + 1
         /\ received + 1 = N => Taken' = Servers
<1>1. IsFiniteSet(Taken) /\ received = Cardinality(Taken)
  BY ServerCount, FS_Subset DEF IInv, CountInv, Taken
<1>2. Cardinality(Taken') = received + 1
  BY <1>1, TakeFacts, FS_AddElement
<1>3. Taken' \in SUBSET Servers
  BY TakeFacts DEF Taken
<1>4. Cardinality(Taken') <= N /\ (Cardinality(Taken') = N => Taken' = Servers)
  BY <1>3, ServerCount, FS_Subset DEF N
<1> QED
  BY <1>2, <1>4 DEF IInv, TypeOK

LEMMA ErrorStep ==
  ASSUME IInv, DialTakesError
  PROVE  IInv'
<1> USE DEF DialTakesError
<1>1. TakesResult /\ UNCHANGED rpc /\ UNCHANGED result /\ dpc = "racing"
  OBVIOUS
<1>2. TypeOK'
  <2>1. received' \in 0..N' /\ left' \in 0..N' /\ N' = N
    BY <1>1, TakeFacts, TakeCounts DEF IInv, TypeOK
  <2>2. watcher' \in [Servers -> {"none", "new", "parked", "late", "firing", "lateFiring", "ended"}]
    BY DEF IInv, TypeOK, Cancel
  <2>3. dpc' \in {"racing", "returned", "failed"} /\ cancelled' \in BOOLEAN
    BY DEF IInv, TypeOK, Cancel
  <2> QED
    BY <1>1, <2>1, <2>2, <2>3, TakeFacts DEF IInv, TypeOK
<1>3. \A s \in Taken': result'[s] = "error"
  BY <1>1, TakeFacts DEF IInv, CountInv
<1>4. CountInv'
  BY <1>1, <1>3, TakeCounts DEF CountInv
<1>5. DecidedInv'
  <2> ~(left' > 0)
    BY DEF IInv, DecidedInv
  <2>1. CASE received + 1 = N
    <3>1. \A s \in Servers: rpc'[s] = "end" /\ result'[s] = "error"
      BY <2>1, <1>1, <1>3, TakeCounts DEF Taken
    <3> QED
      BY <3>1, <2>1 DEF DecidedInv
  <2>2. CASE received + 1 # N
    BY <2>2 DEF DecidedInv
  <2> QED
    BY <2>1, <2>2
<1>6. WatcherInv'
  BY DEF IInv, TypeOK, WatcherInv, Cancel
<1> QED
  BY <1>1, <1>2, <1>4, <1>5, <1>6, TakeFacts DEF IInv

LEMMA WinnerStep ==
  ASSUME IInv, DialTakesWinner
  PROVE  IInv'
<1> USE DEF DialTakesWinner
<1>1. TakesResult /\ UNCHANGED rpc /\ UNCHANGED result /\ dpc = "racing"
  OBVIOUS
<1>2. TypeOK'
  BY <1>1, TakeFacts, TakeCounts, ServerCount DEF IInv, TypeOK, Cancel
<1>3. CountInv' /\ DecidedInv'
  BY <1>1, TakeFacts DEF CountInv, DecidedInv
<1>4. WatcherInv'
  BY <1>1, TakeFacts DEF IInv, TypeOK, WatcherInv, Cancel
<1> QED
  BY <1>1, <1>2, <1>3, <1>4, TakeFacts DEF IInv

LEMMA LateStep ==
  ASSUME IInv, ClosesLate
  PROVE  IInv'
<1> USE DEF ClosesLate
<1>1. TakesResult /\ UNCHANGED rpc /\ dpc = "returned"
  BY DEF IInv, DecidedInv
<1>2. TypeOK'
  BY <1>1, TakeFacts, ServerCount DEF IInv, TypeOK
<1>3. CountInv' /\ DecidedInv' /\ WatcherInv'
  BY <1>1 DEF IInv, TypeOK, CountInv, DecidedInv, WatcherInv
<1> QED
  BY <1>1, <1>2, <1>3, TakeFacts DEF IInv

\* A goroutine that has not reported yet counts for nothing.
LEMMA RacerStep ==
  ASSUME IInv, NEW s \in Servers,
         Connects(s) \/ ConnectFails(s) \/ ComesUp(s) \/ SetupFails(s) \/ StopsWatcher(s)
  PROVE  IInv'
<1> USE DEF Connects, ConnectFails, ComesUp, SetupFails, StopsWatcher
<1>1. TypeOK'
  BY DEF IInv, TypeOK, N
<1>2. /\ rpc[s] # "end" /\ rpc'[s] # "end"
      /\ \A r \in Servers: r # s => rpc'[r] = rpc[r] /\ result'[r] = result[r]
      /\ UNCHANGED <<dialVars, cancelled, results>>
  BY DEF IInv, TypeOK
<1>3. OnceInv'
  BY <1>2 DEF IInv, TypeOK, OnceInv
<1>4. Taken' = Taken /\ s \notin Taken
  BY <1>2 DEF Taken
<1>5. CountInv'
  BY <1>2, <1>4 DEF IInv, CountInv, Taken
<1>6. DecidedInv'
  BY <1>2 DEF IInv, DecidedInv
<1>7. WatcherInv'
  <2>1. dpc = "returned" => winner # s
    BY <1>2 DEF IInv, DecidedInv
  <2>2. ASSUME Connects(s) PROVE WatcherInv'
    BY <2>1, <2>2, <1>2 DEF IInv, TypeOK, WatcherInv
  <2>3. ASSUME ConnectFails(s) PROVE WatcherInv'
    BY <2>1, <2>3, <1>2 DEF IInv, TypeOK, WatcherInv
  <2>4. ASSUME ComesUp(s) \/ SetupFails(s) PROVE WatcherInv'
    BY <2>1, <2>4, <1>2 DEF IInv, TypeOK, WatcherInv
  <2>5. ASSUME StopsWatcher(s) PROVE WatcherInv'
    <3>1. watcher'[s] \notin {"new", "parked"}
          /\ (watcher'[s] \in {"firing", "lateFiring"} => watcher[s] = watcher'[s])
      BY <2>5 DEF IInv, TypeOK
    <3>2. \A r \in Servers: r # s => watcher'[r] = watcher[r]
      BY <2>5 DEF IInv, TypeOK
    <3>3. UNCHANGED killedBy /\ rpc'[s] = "report"
      BY <2>5 DEF IInv, TypeOK
    <3> QED
      BY <2>1, <3>1, <3>2, <3>3, <1>2 DEF IInv, DecidedInv, WatcherInv
  <2> QED
    BY <2>2, <2>3, <2>4, <2>5
<1> QED
  BY <1>1, <1>3, <1>5, <1>6, <1>7 DEF IInv

LEMMA WatcherStep ==
  ASSUME IInv, NEW s \in Servers, Watcher(s)
  PROVE  IInv'
<1> USE DEF Watcher, WatcherSelects, WatcherCloses, WatcherUnchanged
<1>1. TypeOK'
  BY DEF IInv, TypeOK, N
<1>4. UNCHANGED <<dialVars, cancelled, results, racerVars>>
  OBVIOUS
<1>2. OnceInv' /\ CountInv' /\ DecidedInv'
  BY <1>4 DEF IInv, OnceInv, CountInv, DecidedInv, Taken
<1>3. WatcherInv'
  <2>1. dpc = "returned" => winner \in Servers /\ rpc[winner] = "end"
    BY DEF IInv, DecidedInv
  <2>2. CASE WatcherSelects(s)
    BY <2>1, <2>2 DEF IInv, TypeOK, WatcherInv
  <2>3. CASE WatcherCloses(s)
    BY <2>1, <2>3 DEF IInv, TypeOK, WatcherInv
  <2> QED
    BY <2>2, <2>3
<1> QED
  BY <1>1, <1>2, <1>3 DEF IInv

LEMMA ContextStep ==
  ASSUME IInv, ContextEnds
  PROVE  IInv'
<1> USE DEF ContextEnds, Cancel
<1>1. TypeOK'
  BY DEF IInv, TypeOK, N
<1>2. OnceInv' /\ CountInv' /\ DecidedInv'
  BY DEF IInv, OnceInv, CountInv, DecidedInv, Taken
<1>3. WatcherInv'
  BY DEF IInv, TypeOK, WatcherInv
<1> QED
  BY <1>1, <1>2, <1>3 DEF IInv

\* Every step keeps the invariant.
LEMMA InductionStep == IInv /\ [Next]_vars => IInv'
<1> SUFFICES ASSUME IInv, [Next]_vars PROVE IInv'
  OBVIOUS
<1>1. ASSUME NEW s \in Servers, Racer(s) PROVE IInv'
  BY <1>1, RacerStep, ReportsStep DEF Racer
<1>2. ASSUME NEW s \in Servers, Watcher(s) PROVE IInv'
  BY <1>2, WatcherStep
<1>3. CASE Dial
  BY <1>3, ErrorStep, WinnerStep, LateStep DEF Dial
<1>4. CASE ContextEnds
  BY <1>4, ContextStep
<1>5. CASE UNCHANGED vars
  <2>1. TypeOK'
    BY <1>5 DEF IInv, TypeOK, N
  <2>2. OnceInv' /\ CountInv' /\ DecidedInv' /\ WatcherInv'
    BY <1>5 DEF IInv, OnceInv, CountInv, DecidedInv, WatcherInv, Taken
  <2> QED
    BY <2>1, <2>2 DEF IInv
<1> QED
  BY <1>1, <1>2, <1>3, <1>4, <1>5 DEF Next

\* The strengthening holds of every race.
THEOREM Invariant == Spec => []IInv
<1>1. IInv /\ [Next]_vars => IInv'
  BY InductionStep
<1> QED
  BY <1>1, InitIInv, PTL DEF Spec

\* The types: no result finds the channel full, so no goroutine is left behind
\* in Dial's results channel, however many servers there are.
THEOREM TypeCorrect == Spec => []TypeOK
<1>1. IInv => TypeOK
  BY DEF IInv
<1> QED
  BY <1>1, Invariant, PTL

\* Dial fails only after every server has, and returns a connection that came
\* up.
THEOREM FailsOnlyIfAllFailHolds == Spec => []FailsOnlyIfAllFail
<1>1. IInv => FailsOnlyIfAllFail
  BY DEF IInv, DecidedInv, FailsOnlyIfAllFail
<1> QED
  BY <1>1, Invariant, PTL

\* A watcher that had begun to wait by the time dialOne returned never closes
\* the connection Dial returned, unless the caller's own context has ended.
THEOREM WinnerOutlivesRaceHolds == Spec => []WinnerOutlivesRace
<1>1. IInv => WinnerOutlivesRace
  BY DEF IInv, WatcherInv, WinnerOutlivesRace
<1> QED
  BY <1>1, Invariant, PTL
=============================================================================
