------------------------------ MODULE GridProof ------------------------------
(***************************************************************************)
(* The safety properties of Grid.tla, for any number of callers, ids and   *)
(* messages.  IInv is the inductive invariant: TypeOK, one id per call     *)
(* (IdsInv), one owner per channel (OwnerInv) and a cause before anyone is *)
(* woken (CauseInv).                                                       *)
(***************************************************************************)
EXTENDS Grid, SequenceTheorems, TLAPS

\* The state tuples, expanded wherever a step is split into its variables.
USE DEF vars, callVars, tableVars, chanVars, downVars, readVars, netVars

\* The types hold at the start.
LEMMA InitTypeOK == Init => TypeOK
BY BoundAssumption, NoCallAssumption DEF Init, TypeOK, Ids, Messages, Threads

\* What a message of type "reply" is made of (control.PeerReply).
LEMMA MessageFacts ==
  /\ \A m \in Replies: m \in Messages /\ m.type = "reply" /\ m.id \in Ids /\ m.for \in Calls
  /\ \A m \in Messages: m.type = "reply" => m \in Replies
BY DEF Messages, Replies

\* Every step keeps the types.
LEMMA TypeStep == TypeOK /\ [Next]_vars => TypeOK'
<1> SUFFICES ASSUME TypeOK, [Next]_vars PROVE TypeOK'
  OBVIOUS
<1> USE DEF TypeOK, Goes, Returns
<1>1. ASSUME NEW c \in Calls, TurnAway(c) PROVE TypeOK'
  BY <1>1 DEF TurnAway
<1>2. ASSUME NEW c \in Calls, Register(c) PROVE TypeOK'
  BY <1>2, BoundAssumption DEF Register, Ids
<1>3. ASSUME NEW c \in Calls, SendRequest(c) PROVE TypeOK'
  BY <1>3 DEF SendRequest, Written
<1>4. ASSUME NEW c \in Calls, SendRequestFails(c) PROVE TypeOK'
  BY <1>4 DEF SendRequestFails, WriteBroken
<1>5. ASSUME NEW c \in Calls, Forget(c) PROVE TypeOK'
  BY <1>5 DEF Forget
<1>6. ASSUME NEW c \in Calls, TakeReply(c) PROVE TypeOK'
  BY <1>6 DEF TakeReply
<1>7. ASSUME NEW c \in Calls, SeeClosed(c) PROVE TypeOK'
  BY <1>7 DEF SeeClosed
<1>8. ASSUME NEW c \in Calls, SeeContextEnd(c) PROVE TypeOK'
  BY <1>8 DEF SeeContextEnd
<1>9. ASSUME NEW c \in Calls, ReportCause(c) PROVE TypeOK'
  BY <1>9 DEF ReportCause
<1>10. ASSUME NEW c \in Calls, ContextEnds(c) PROVE TypeOK'
  BY <1>10 DEF ContextEnds
<1>11. ASSUME ReadFails PROVE TypeOK'
  BY <1>11 DEF ReadFails, Reader, Threads
<1>12. ASSUME NEW w \in Calls \cup Threads, TakeSendMu(w) PROVE TypeOK'
  BY <1>12 DEF TakeSendMu
<1>13. ASSUME ReadReply PROVE TypeOK'
  <2>1. PICK m \in Replies:
          /\ Reads(m)
          /\ pending' = [pending EXCEPT ![m.id] = NoCall]
          /\ held' = pending[m.id]
          /\ IF pending[m.id] = NoCall
               THEN Reader("run", "run") /\ reply' = NoCall
               ELSE Reader("run", "deliver") /\ reply' = m.for
    BY <1>13 DEF ReadReply
  <2>2. m.id \in Ids /\ m.for \in Calls
    BY MessageFacts
  <2>3. inbox' \in Seq(Messages) /\ UNCHANGED <<linkUp, sent, requests>>
    BY <2>1 DEF Reads
  <2>4. /\ pending' \in [Ids -> Calls \cup {NoCall}]
        /\ held' \in Calls \cup {NoCall} /\ reply' \in Calls \cup {NoCall}
    BY <2>1, <2>2
  <2>5. tpc' \in [Threads -> {"run", "deliver", "close", "send", "shutdown", "end"}]
    BY <2>1 DEF Reader, Threads
  <2>6. tpc'["reader"] \in {"deliver", "close"} => held' # NoCall
    BY <2>1 DEF Reader, Threads
  <2> QED BY <1>13, <2>3, <2>4, <2>5, <2>6 DEF ReadReply
<1>14. ASSUME Deliver PROVE TypeOK'
  BY <1>14 DEF Deliver, Reader, Threads
<1>15. ASSUME CloseDelivered PROVE TypeOK'
  BY <1>15, NoCallAssumption DEF CloseDelivered, Reader, Threads
<1>16. ASSUME ReadCall PROVE TypeOK'
  BY <1>16 DEF ReadCall, Reads, Reader, Threads
<1>17. ASSUME Refuse \/ RefuseFails PROVE TypeOK'
  BY <1>17 DEF Refuse, RefuseFails, Written, WriteBroken, Reader, Threads
<1>18. ASSUME PingStops \/ PingTicks \/ Ping \/ PingFails PROVE TypeOK'
  BY <1>18 DEF PingStops, PingTicks, Ping, PingFails, Written, WriteBroken, Pinger, Threads
<1>19. ASSUME NEW t \in Threads, ThreadShutsDown(t) \/ LeaveShutdown(t) PROVE TypeOK'
  BY <1>19 DEF ThreadShutsDown, LeaveShutdown, BeginShutdown, Threads
<1>20. ASSUME Close PROVE TypeOK'
  BY <1>20 DEF Close, BeginShutdown
<1>21. ASSUME ShutdownBody PROVE TypeOK'
  BY <1>21 DEF ShutdownBody, WakeWaiter, CloseDone, CloseSocket
<1>22. ASSUME GridReplies \/ GridCalls PROVE TypeOK'
  <2>1. PICK m \in Messages: GridSends(m)
    BY <1>22, MessageFacts DEF GridReplies, GridCalls, Messages, Replies
  <2>2. inbox' \in Seq(Messages) /\ sent' \in 0..MsgBound
    BY <2>1, BoundAssumption DEF GridSends
  <2> QED BY <2>1, <2>2 DEF GridSends
<1>23. ASSUME LinkDrops PROVE TypeOK'
  BY <1>23 DEF LinkDrops
<1>24. ASSUME UNCHANGED vars PROVE TypeOK'
  BY <1>24
<1> QED
  BY <1>1, <1>2, <1>3, <1>4, <1>5, <1>6, <1>7, <1>8, <1>9, <1>10, <1>11, <1>12, <1>13,
     <1>14, <1>15, <1>16, <1>17, <1>18, <1>19, <1>20, <1>21, <1>22, <1>23, <1>24
  DEF Next, Call, ReadLoop, PingLoop, Threads

\* TypeOK holds of every reachable state, whatever the constants.
THEOREM TypeCorrect == Spec => []TypeOK
<1>1. Init => TypeOK
  BY InitTypeOK
<1>2. TypeOK /\ [Next]_vars => TypeOK'
  BY TypeStep
<1> QED BY <1>1, <1>2, PTL DEF Spec

-------------------------------------------------------------------------------
(* An id belongs to one call for good. *)

\* A call keeps its id, and stays registered, in every step.
Stable == \A c \in Calls: Registered(c) => Registered(c)' /\ id'[c] = id[c]

\* A call keeps the id it registered with (Grid.call: id is assigned once).
LEMMA CallsStable == ASSUME TypeOK, CauseInv, [Next]_vars PROVE Stable
<1> USE DEF TypeOK, CauseInv, Goes, Returns, Stable, Registered
<1>1. ASSUME NEW c \in Calls, TurnAway(c) \/ Register(c) \/ ContextEnds(c) PROVE Stable
  BY <1>1 DEF TurnAway, Register, ContextEnds
<1>2. ASSUME NEW c \in Calls, Call(c) \/ SendRequest(c) PROVE Stable
  BY <1>2 DEF Call, TakeSendMu, SendRequest, SendRequestFails, Forget, TakeReply, SeeClosed,
              SeeContextEnd, ReportCause
<1>3. ASSUME UNCHANGED <<cpc, id, outcome>> PROVE Stable
  BY <1>3
<1>4. ASSUME ReadLoop \/ PingLoop \/ Refuse \/ Ping \/ Close \/ ShutdownBody \/ GridReplies \/ GridCalls
               \/ LinkDrops \/ UNCHANGED vars
      PROVE UNCHANGED <<cpc, id, outcome>>
  BY <1>4 DEF ReadLoop, TakeSendMu, PingLoop, Close, ShutdownBody, GridReplies, GridCalls, LinkDrops,
     GridSends, ReadFails, ReadReply, Deliver, CloseDelivered, ReadCall, Refuse, RefuseFails,
     PingStops, PingTicks, Ping, PingFails, Pinger, ThreadShutsDown, LeaveShutdown, BeginShutdown,
     WakeWaiter,
     CloseDone, CloseSocket
<1> QED BY <1>1, <1>2, <1>3, <1>4 DEF Next

\* The parts of IdsInv, named for the proof.
IdsDiffer ==
  /\ \A c \in Calls: Registered(c) => id[c] < nextID
  /\ \A c, d \in Calls: Registered(c) /\ Registered(d) /\ id[c] = id[d] => c = d
RequestsKnown == \A r \in requests: Registered(r.call) /\ id[r.call] = r.id
InboxKnown ==
  \A k \in 1..Len(inbox):
    inbox[k] \in Replies => Registered(inbox[k].for) /\ id[inbox[k].for] = inbox[k].id

\* IdsInv is the conjunction of its three parts.
LEMMA IdsParts == IdsInv <=> IdsDiffer /\ RequestsKnown /\ InboxKnown
BY DEF IdsInv, IdsDiffer, RequestsKnown, InboxKnown

\* Who takes an id, sends a request or a reply; nobody else touches these.
LEMMA IdsUntouched ==
  ASSUME TypeOK, [Next]_vars
  PROVE  /\ \/ \E c \in Calls: TurnAway(c) \/ Register(c) \/ Call(c) \/ SendRequest(c)
            \/ UNCHANGED <<cpc, id, outcome, nextID, requests>>
         /\ \/ UNCHANGED inbox
            \/ inbox # <<>> /\ inbox' = Tail(inbox) /\ UNCHANGED <<cpc, id, outcome>>
            \/ GridReplies
            \/ GridCalls
<1>1. ASSUME NEW c \in Calls, TurnAway(c) \/ Register(c) \/ Call(c) \/ SendRequest(c)
      PROVE  UNCHANGED inbox
  BY <1>1 DEF TurnAway, Register, Call, TakeSendMu, SendRequest, SendRequestFails, Forget, TakeReply,
     SeeClosed, SeeContextEnd, ReportCause
<1>2. ASSUME ReadReply \/ ReadCall
      PROVE  /\ inbox # <<>> /\ inbox' = Tail(inbox)
             /\ UNCHANGED <<cpc, id, outcome, nextID, requests>>
  BY <1>2 DEF ReadReply, ReadCall, Reads
<1>3. ASSUME GridReplies \/ GridCalls PROVE UNCHANGED <<cpc, id, outcome, nextID, requests>>
  BY <1>3 DEF GridReplies, GridCalls, GridSends
<1>4. ASSUME \/ \E c \in Calls: ContextEnds(c)
             \/ ReadFails \/ Deliver \/ CloseDelivered \/ TakeSendMu("reader") \/ RefuseFails
             \/ ThreadShutsDown("reader") \/ LeaveShutdown("reader")
             \/ PingLoop \/ Refuse \/ Ping \/ Close \/ ShutdownBody \/ LinkDrops \/ UNCHANGED vars
      PROVE UNCHANGED <<cpc, id, outcome, nextID, requests, inbox>>
  BY <1>4 DEF ContextEnds, TakeSendMu, PingLoop, Close, ShutdownBody, LinkDrops, ReadFails, Deliver,
     CloseDelivered, Refuse, RefuseFails, PingStops, PingTicks, Ping, PingFails, Pinger,
     ThreadShutsDown, LeaveShutdown,
     BeginShutdown, WakeWaiter, CloseDone, CloseSocket
<1> QED BY <1>1, <1>2, <1>3, <1>4 DEF Next, ReadLoop

\* Every step keeps an id with one call.
LEMMA IdsStep ==
  ASSUME TypeOK, TypeOK', CauseInv, IdsInv, [Next]_vars PROVE IdsInv'
<1>0. Stable
  BY CallsStable
<1>a. IdsDiffer /\ RequestsKnown /\ InboxKnown
  BY IdsParts
<1>1. IdsDiffer'
  <2>1. ASSUME NEW c \in Calls, Register(c) PROVE IdsDiffer'
    BY <1>a, <2>1, BoundAssumption DEF IdsDiffer, Register, Registered, TypeOK, Ids
  <2>2. ASSUME NEW c \in Calls, TurnAway(c) \/ Call(c) \/ SendRequest(c) PROVE IdsDiffer'
    <3>1. UNCHANGED <<id, nextID>>
      BY <2>2 DEF TurnAway, Call, TakeSendMu, SendRequest, SendRequestFails, Forget, TakeReply,
         SeeClosed, SeeContextEnd, ReportCause, Goes
    <3>2. \A d \in Calls: Registered(d)' => Registered(d)
      BY <2>2 DEF TurnAway, Call, TakeSendMu, SendRequest, SendRequestFails, Forget, TakeReply,
         SeeClosed, SeeContextEnd, ReportCause, Goes, Returns, TypeOK, CauseInv, Registered
    <3> QED BY <1>a, <3>1, <3>2 DEF IdsDiffer
  <2>3. ASSUME UNCHANGED <<cpc, id, outcome, nextID>> PROVE IdsDiffer'
    BY <1>a, <2>3 DEF IdsDiffer, Registered
  <2> QED BY <2>1, <2>2, <2>3, IdsUntouched
<1>2. RequestsKnown'
  <2>1. ASSUME NEW c \in Calls, SendRequest(c) PROVE RequestsKnown'
    <3>1. Registered(c)
      BY <2>1 DEF SendRequest, CauseInv, Registered
    <3>2. \A r \in requests': r \in requests \/ (r.call = c /\ r.id = id[c])
      BY <2>1 DEF SendRequest
    <3>3. \A r \in requests: r.call \in Calls
      BY DEF TypeOK
    <3> QED BY <1>0, <1>a, <3>1, <3>2, <3>3 DEF RequestsKnown, Stable
  <2>2. ASSUME UNCHANGED requests PROVE RequestsKnown'
    BY <1>0, <1>a, <2>2 DEF RequestsKnown, Stable, TypeOK
  <2>3. ASSUME NEW c \in Calls, TurnAway(c) \/ Register(c) \/ Call(c)
        PROVE UNCHANGED requests
    BY <2>3 DEF TurnAway, Register, Call, TakeSendMu, SendRequestFails, Forget, TakeReply, SeeClosed,
       SeeContextEnd, ReportCause
  <2> QED BY <2>1, <2>2, <2>3, IdsUntouched
<1>3. InboxKnown'
  <2>1. ASSUME UNCHANGED inbox PROVE InboxKnown'
    BY <1>0, <1>a, <2>1, MessageFacts DEF InboxKnown, Stable
  <2>2. ASSUME inbox # <<>>, inbox' = Tail(inbox), UNCHANGED <<cpc, id, outcome>>
        PROVE InboxKnown'
    <3>1. Len(inbox) \in Nat /\ Len(inbox') = Len(inbox) - 1
      BY <2>2 DEF TypeOK
    <3>2. \A k \in 1..Len(inbox'): k + 1 \in 1..Len(inbox) /\ inbox'[k] = inbox[k + 1]
      <4>1. inbox \in Seq(Messages)
        BY DEF TypeOK
      <4>2. \A k \in 1..Len(Tail(inbox)): Tail(inbox)[k] = inbox[k + 1]
        BY <2>2, <4>1, HeadTailProperties, Zenon
      <4>3. \A k \in 1..(Len(inbox) - 1): k + 1 \in 1..Len(inbox)
        BY <3>1
      <4> QED BY <2>2, <3>1, <4>2, <4>3, Zenon
    <3> QED BY <1>a, <2>2, <3>2 DEF InboxKnown, Registered
  <2>3. ASSUME NEW m \in Messages, GridSends(m),
               m \in Replies => Registered(m.for) /\ id[m.for] = m.id
        PROVE InboxKnown'
    <3>1. \A k \in 1..Len(inbox'):
            \/ k \in 1..Len(inbox) /\ inbox'[k] = inbox[k]
            \/ inbox'[k] = m
      <4>1. inbox \in Seq(Messages) /\ inbox' = Append(inbox, m)
        BY <2>3 DEF GridSends, TypeOK
      <4>2. Len(inbox) \in Nat /\ Len(inbox') = Len(inbox) + 1
        BY <4>1
      <4>3. \A k \in 1..Len(inbox): inbox'[k] = inbox[k]
        BY <4>1
      <4>4. inbox'[Len(inbox) + 1] = m
        BY <4>1
      <4> QED BY <4>2, <4>3, <4>4
    <3> QED BY <1>0, <1>a, <2>3, <3>1, MessageFacts DEF InboxKnown, Stable
  <2>4. ASSUME GridReplies PROVE InboxKnown'
    <3>1. PICK r \in requests: GridSends([type |-> "reply", id |-> r.id, for |-> r.call])
      BY <2>4 DEF GridReplies
    <3>2. r.id \in Ids /\ r.call \in Calls /\ Registered(r.call) /\ id[r.call] = r.id
      BY <1>a DEF RequestsKnown, TypeOK
    <3> QED BY <2>3, <3>1, <3>2 DEF Messages, Replies
  <2>5. ASSUME GridCalls PROVE InboxKnown'
    BY <2>3, <2>5 DEF GridCalls, Messages, Replies
  <2> QED BY <2>1, <2>2, <2>4, <2>5, IdsUntouched
<1> QED BY <1>1, <1>2, <1>3 DEF IdsInv, IdsDiffer, RequestsKnown, InboxKnown

-------------------------------------------------------------------------------
(* One owner per channel, and a cause before anyone is woken. *)

\* Every step hands a channel on, or keeps it, with one owner.
LEMMA OwnerStep ==
  ASSUME IInv, TypeOK', IdsInv', [Next]_vars PROVE OwnerInv'
<1> USE NoCallAssumption DEF IInv, TypeOK, IdsInv, OwnerInv, CauseInv, WokenReportCause,
   Registered, Goes, Returns
<1>1. ASSUME NEW c \in Calls, TurnAway(c) PROVE OwnerInv'
  BY <1>1 DEF TurnAway
<1>2. ASSUME NEW c \in Calls, Register(c) PROVE OwnerInv'
  BY <1>2 DEF Register
<1>3. ASSUME NEW c \in Calls, SendRequest(c) PROVE OwnerInv'
  BY <1>3 DEF SendRequest
<1>4. ASSUME NEW c \in Calls, SendRequestFails(c) PROVE OwnerInv'
  BY <1>4 DEF SendRequestFails
<1>5. ASSUME NEW c \in Calls, Forget(c) PROVE OwnerInv'
  BY <1>5 DEF Forget
<1>6. ASSUME NEW c \in Calls, TakeReply(c) PROVE OwnerInv'
  BY <1>6 DEF TakeReply
<1>7. ASSUME NEW c \in Calls, SeeClosed(c) PROVE OwnerInv'
  BY <1>7 DEF SeeClosed, Done
<1>8. ASSUME NEW c \in Calls, SeeContextEnd(c) PROVE OwnerInv'
  BY <1>8 DEF SeeContextEnd
<1>9. ASSUME NEW c \in Calls, ReportCause(c) PROVE OwnerInv'
  BY <1>9 DEF ReportCause
<1>10. ASSUME NEW c \in Calls, ContextEnds(c) PROVE OwnerInv'
  BY <1>10 DEF ContextEnds
<1>11. ASSUME ReadFails PROVE OwnerInv'
  BY <1>11 DEF ReadFails, Reader, Threads
<1>12. ASSUME NEW w \in Calls \cup Threads, TakeSendMu(w) PROVE OwnerInv'
  BY <1>12 DEF TakeSendMu
<1>13. ASSUME ReadReply PROVE OwnerInv'
  <2>1. PICK m \in Replies:
          /\ Reads(m)
          /\ pending' = [pending EXCEPT ![m.id] = NoCall]
          /\ held' = pending[m.id]
          /\ IF pending[m.id] = NoCall
               THEN Reader("run", "run") /\ reply' = NoCall
               ELSE Reader("run", "deliver") /\ reply' = m.for
    BY <1>13 DEF ReadReply
  <2>2. m \in Replies /\ m.id \in Ids /\ m.for \in Calls
    BY MessageFacts
  <2>3. Registered(m.for) /\ id[m.for] = m.id
    <3>1. 1 \in 1..Len(inbox) /\ inbox[1] = m
      BY <2>1 DEF Reads
    <3> QED BY <2>2, <3>1
  <2>4. /\ UNCHANGED <<nextID, callVars, chanVars, downVars>>
        /\ tpc["reader"] = "run"
    BY <1>13, <2>1 DEF ReadReply, Reader
  <2>5. pending[m.id] # NoCall => pending[m.id] = m.for
    BY <2>2, <2>3
  <2>6. CASE pending[m.id] = NoCall
    BY <2>1, <2>2, <2>4, <2>6 DEF Reader, Threads
  <2>7. CASE pending[m.id] # NoCall
    BY <2>1, <2>2, <2>3, <2>4, <2>5, <2>7 DEF Reader, Threads
  <2> QED BY <2>6, <2>7
<1>14. ASSUME Deliver PROVE OwnerInv'
  BY <1>14 DEF Deliver, Reader, Threads
<1>15. ASSUME CloseDelivered PROVE OwnerInv'
  BY <1>15 DEF CloseDelivered, Reader, Threads
<1>16. ASSUME ReadCall PROVE OwnerInv'
  BY <1>16 DEF ReadCall, Reads, Reader, Threads
<1>17. ASSUME Refuse \/ RefuseFails PROVE OwnerInv'
  BY <1>17 DEF Refuse, RefuseFails, Reader, Threads
<1>18. ASSUME PingStops \/ PingTicks \/ Ping \/ PingFails PROVE OwnerInv'
  BY <1>18 DEF PingStops, PingTicks, Ping, PingFails, Pinger, Threads
<1>19. ASSUME NEW t \in Threads, LeaveShutdown(t) PROVE OwnerInv'
  BY <1>19 DEF LeaveShutdown, Threads
<1>20. ASSUME NEW cause \in {"nil", "reader", "pinger"}, BeginShutdown(cause) PROVE OwnerInv'
  BY <1>20 DEF BeginShutdown
<1>21. ASSUME NEW c \in Calls, WakeWaiter(c) PROVE OwnerInv'
  BY <1>21 DEF WakeWaiter
<1>22. ASSUME CloseDone \/ CloseSocket PROVE OwnerInv'
  BY <1>22 DEF CloseDone, CloseSocket
<1>23. ASSUME GridReplies \/ GridCalls PROVE OwnerInv'
  <2>1. UNCHANGED <<callVars, tableVars, chanVars, downVars, readVars, tpc>>
    BY <1>23 DEF GridReplies, GridCalls, GridSends
  <2> QED BY <2>1
<1>24. ASSUME LinkDrops PROVE OwnerInv'
  BY <1>24 DEF LinkDrops
<1>25. ASSUME UNCHANGED vars PROVE OwnerInv'
  BY <1>25 DEF vars
<1> QED
  BY <1>1, <1>2, <1>3, <1>4, <1>5, <1>6, <1>7, <1>8, <1>9, <1>10, <1>11, <1>12, <1>13, <1>14,
     <1>15, <1>16, <1>17, <1>18, <1>19, <1>20, <1>21, <1>22, <1>23, <1>24, <1>25
  DEF Next, Call, ReadLoop, PingLoop, ShutdownBody, ThreadShutsDown, Close, Threads

\* Every step keeps the cause ahead of those it wakes.
LEMMA CauseStep ==
  ASSUME IInv, TypeOK', IdsInv', [Next]_vars PROVE CauseInv'
<1> USE NoCallAssumption DEF IInv, TypeOK, IdsInv, OwnerInv, CauseInv, WokenReportCause,
   Registered, Goes, Returns
<1>1. ASSUME NEW c \in Calls, TurnAway(c) PROVE CauseInv'
  BY <1>1 DEF TurnAway
<1>2. ASSUME NEW c \in Calls, Register(c) PROVE CauseInv'
  BY <1>2 DEF Register
<1>3. ASSUME NEW c \in Calls, SendRequest(c) PROVE CauseInv'
  BY <1>3 DEF SendRequest
<1>4. ASSUME NEW c \in Calls, SendRequestFails(c) PROVE CauseInv'
  BY <1>4 DEF SendRequestFails
<1>5. ASSUME NEW c \in Calls, Forget(c) PROVE CauseInv'
  BY <1>5 DEF Forget
<1>6. ASSUME NEW c \in Calls, TakeReply(c) PROVE CauseInv'
  BY <1>6 DEF TakeReply
<1>7. ASSUME NEW c \in Calls, SeeClosed(c) PROVE CauseInv'
  BY <1>7 DEF SeeClosed, Done
<1>8. ASSUME NEW c \in Calls, SeeContextEnd(c) PROVE CauseInv'
  BY <1>8 DEF SeeContextEnd
<1>9. ASSUME NEW c \in Calls, ReportCause(c) PROVE CauseInv'
  BY <1>9 DEF ReportCause
<1>10. ASSUME NEW c \in Calls, ContextEnds(c) PROVE CauseInv'
  BY <1>10 DEF ContextEnds
<1>11. ASSUME ReadFails PROVE CauseInv'
  BY <1>11 DEF ReadFails, Reader, Threads
<1>12. ASSUME NEW w \in Calls \cup Threads, TakeSendMu(w) PROVE CauseInv'
  BY <1>12 DEF TakeSendMu
<1>13. ASSUME ReadReply PROVE CauseInv'
  BY <1>13 DEF ReadReply, Reads, Reader, Threads
<1>14. ASSUME Deliver PROVE CauseInv'
  BY <1>14 DEF Deliver, Reader, Threads
<1>15. ASSUME CloseDelivered PROVE CauseInv'
  BY <1>15 DEF CloseDelivered, Reader, Threads
<1>16. ASSUME ReadCall PROVE CauseInv'
  BY <1>16 DEF ReadCall, Reads, Reader, Threads
<1>17. ASSUME Refuse \/ RefuseFails PROVE CauseInv'
  BY <1>17 DEF Refuse, RefuseFails, Reader, Threads
<1>18. ASSUME PingStops \/ PingTicks \/ Ping \/ PingFails PROVE CauseInv'
  BY <1>18 DEF PingStops, PingTicks, Ping, PingFails, Pinger, Threads
<1>19. ASSUME NEW t \in Threads, LeaveShutdown(t) PROVE CauseInv'
  BY <1>19 DEF LeaveShutdown, Threads
<1>20. ASSUME NEW cause \in {"nil", "reader", "pinger"}, BeginShutdown(cause) PROVE CauseInv'
  BY <1>20 DEF BeginShutdown
<1>21. ASSUME NEW c \in Calls, WakeWaiter(c) PROVE CauseInv'
  BY <1>21 DEF WakeWaiter
<1>22. ASSUME CloseDone \/ CloseSocket PROVE CauseInv'
  BY <1>22 DEF CloseDone, CloseSocket
<1>23. ASSUME GridReplies \/ GridCalls PROVE CauseInv'
  <2>1. UNCHANGED <<callVars, tableVars, chanVars, downVars, readVars, tpc>>
    BY <1>23 DEF GridReplies, GridCalls, GridSends
  <2> QED BY <2>1
<1>24. ASSUME LinkDrops PROVE CauseInv'
  BY <1>24 DEF LinkDrops
<1>25. ASSUME UNCHANGED vars PROVE CauseInv'
  BY <1>25 DEF vars
<1> QED
  BY <1>1, <1>2, <1>3, <1>4, <1>5, <1>6, <1>7, <1>8, <1>9, <1>10, <1>11, <1>12, <1>13, <1>14,
     <1>15, <1>16, <1>17, <1>18, <1>19, <1>20, <1>21, <1>22, <1>23, <1>24, <1>25
  DEF Next, Call, ReadLoop, PingLoop, ShutdownBody, ThreadShutsDown, Close, Threads


-------------------------------------------------------------------------------

\* The invariant holds of a fresh connection.
LEMMA InitIInv == Init => IInv
<1> SUFFICES ASSUME Init PROVE IInv
  OBVIOUS
<1>1. \A c \in Calls: ~Registered(c)
  BY DEF Init, Registered
<1>2. IdsInv
  BY <1>1 DEF Init, IdsInv
<1>3. OwnerInv /\ CauseInv
  BY <1>1, NoCallAssumption DEF Init, OwnerInv, CauseInv, WokenReportCause, Threads
<1> QED BY <1>2, <1>3, InitTypeOK DEF IInv

\* The invariant is inductive.
LEMMA IInvStep == IInv /\ [Next]_vars => IInv'
BY TypeStep, IdsStep, OwnerStep, CauseStep DEF IInv

\* Ids, owners of channels and the cause agree in every reachable state of a
\* grid connection, whatever the constants.
THEOREM Invariant == Spec => []IInv
<1> QED BY InitIInv, IInvStep, PTL DEF Spec

\* A call that returns a reply returns the grid's answer to its own request.
THEOREM OwnReplyHolds == Spec => []OwnReply
<1>1. IInv => OwnReply
  BY DEF IInv, OwnerInv, OwnReply
<1> QED BY <1>1, Invariant, PTL

\* No channel is closed twice, and deliver never writes to a closed or full one.
THEOREM ChannelsSafeHolds == Spec => []ChannelsSafe
<1>1. IInv => ChannelsSafe
  BY DEF IInv, OwnerInv, ChannelsSafe
<1> QED BY <1>1, Invariant, PTL

\* A call woken by the end of the connection reports the cause Err reports.
THEOREM WokenReportCauseHolds == Spec => []WokenReportCause
<1>1. IInv => WokenReportCause
  BY DEF IInv, CauseInv
<1> QED BY <1>1, Invariant, PTL

\* A call that has returned has left the table.
THEOREM TableForgetsHolds == Spec => []TableForgets
<1>1. IInv => TableForgets
  BY NoCallAssumption DEF IInv, OwnerInv, TableForgets
<1> QED BY <1>1, Invariant, PTL

-------------------------------------------------------------------------------
(* The connection implements the abstract service (CallService.tla), as far  *)
(* as safety goes: every step is one of the service, or changes nothing it   *)
(* shows.                                                                    *)

Asked == {r.call: r \in requests}

\* Replies are to requests the grid has received, wherever they are by now.
AskedInv ==
  /\ \A k \in 1..Len(inbox): inbox[k] \in Replies => inbox[k].for \in Asked
  /\ reply # NoCall => reply \in Asked
  /\ \A c \in Calls: buf[c] # NoCall => buf[c] \in Asked

\* The grid gets requests and forgets none.
LEMMA AskedGrows ==
  ASSUME TypeOK, [Next]_vars
  PROVE  Asked \subseteq Asked'
<1>1. ASSUME NEW c \in Calls, SendRequest(c) PROVE requests \subseteq requests'
  BY <1>1 DEF SendRequest
<1>2. ASSUME ~(\E c \in Calls: SendRequest(c)) PROVE UNCHANGED requests
  <2>1. ASSUME NEW c \in Calls, TurnAway(c) \/ Register(c) \/ Call(c) \/ ContextEnds(c)
        PROVE  UNCHANGED requests
    BY <2>1 DEF TurnAway, Register, Call, TakeSendMu, SendRequestFails, Forget, TakeReply, SeeClosed,
       SeeContextEnd, ReportCause, ContextEnds
  <2>2. ASSUME \/ ReadLoop \/ PingLoop \/ Refuse \/ Ping \/ Close \/ ShutdownBody \/ GridReplies \/ GridCalls
               \/ LinkDrops \/ UNCHANGED vars
        PROVE  UNCHANGED requests
    BY <2>2 DEF ReadLoop, TakeSendMu, ReadFails, ReadReply, Reads, Deliver, CloseDelivered, ReadCall,
       Refuse, RefuseFails, ThreadShutsDown, LeaveShutdown, BeginShutdown, PingLoop, PingStops,
       PingTicks, Ping, PingFails, Pinger, Close,
       ShutdownBody, WakeWaiter, CloseDone, CloseSocket, GridReplies, GridCalls, GridSends, LinkDrops
  <2> QED
    BY <1>2, <2>1, <2>2 DEF Next
<1> QED
  BY <1>1, <1>2 DEF Asked

\* What the reader hands on, and what a call finds, was asked for.
LEMMA AskedStep ==
  ASSUME IInv, AskedInv, [Next]_vars
  PROVE  AskedInv'
<1> USE DEF IInv
<1>0. Asked \subseteq Asked'
  BY AskedGrows
<1>1. \A k \in 1..Len(inbox'): inbox'[k] \in Replies => inbox'[k].for \in Asked'
  <2>1. CASE UNCHANGED inbox
    BY <1>0, <2>1 DEF AskedInv
  <2>2. CASE inbox # <<>> /\ inbox' = Tail(inbox)
    <3>1. inbox \in Seq(Messages)
      BY DEF TypeOK
    <3>2. Len(inbox) \in Nat /\ Len(inbox') = Len(inbox) - 1
      BY <2>2, <3>1
    <3>3. \A k \in 1..(Len(inbox) - 1): k + 1 \in 1..Len(inbox)
      BY <3>2
    <3>4. \A k \in 1..Len(inbox'): inbox'[k] = inbox[k + 1]
      BY <2>2, <3>1, HeadTailProperties, Zenon
    <3> QED
      BY <1>0, <3>2, <3>3, <3>4 DEF AskedInv
  <2>3. ASSUME NEW m \in Messages, GridSends(m), m \in Replies => m.for \in Asked
        PROVE  \A k \in 1..Len(inbox'): inbox'[k] \in Replies => inbox'[k].for \in Asked'
    <3>1. inbox \in Seq(Messages) /\ inbox' = Append(inbox, m)
      BY <2>3 DEF GridSends, TypeOK
    <3>2. \A k \in 1..Len(inbox'): (k \in 1..Len(inbox) /\ inbox'[k] = inbox[k]) \/ inbox'[k] = m
      <4>1. Len(inbox) \in Nat /\ Len(inbox') = Len(inbox) + 1
        BY <3>1
      <4>2. \A k \in 1..Len(inbox): inbox'[k] = inbox[k]
        BY <3>1
      <4>3. inbox'[Len(inbox) + 1] = m
        BY <3>1
      <4> QED
        BY <4>1, <4>2, <4>3
    <3> QED
      BY <1>0, <2>3, <3>2 DEF AskedInv
  <2>4. CASE GridReplies
    <3>1. PICK r \in requests: GridSends([type |-> "reply", id |-> r.id, for |-> r.call])
      BY <2>4 DEF GridReplies
    <3>2. r.id \in Ids /\ r.call \in Calls /\ r.call \in Asked
      BY DEF Asked, TypeOK
    <3> QED
      BY <2>3, <3>1, <3>2 DEF Messages, Replies
  <2>5. CASE GridCalls
    BY <2>3, <2>5 DEF GridCalls, Messages, Replies
  <2> QED
    BY <2>1, <2>2, <2>4, <2>5, IdsUntouched
<1>2. reply' # NoCall => reply' \in Asked'
  <2>1. CASE ReadReply
    <3>1. PICK m \in Replies: Reads(m) /\ reply' \in {m.for, NoCall}
      BY <2>1 DEF ReadReply
    <3>2. 1 \in 1..Len(inbox) /\ inbox[1] = m
      BY <3>1 DEF Reads, TypeOK
    <3> QED
      BY <1>0, <3>1, <3>2 DEF AskedInv
  <2>2. CASE ~ReadReply
    <3>1. UNCHANGED reply \/ reply' = NoCall
      <4>1. ASSUME NEW c \in Calls, TurnAway(c) \/ Register(c) \/ Call(c) \/ SendRequest(c) \/ ContextEnds(c)
            PROVE  UNCHANGED reply
        BY <4>1 DEF TurnAway, Register, Call, TakeSendMu, SendRequest, SendRequestFails, Forget,
           TakeReply,
           SeeClosed, SeeContextEnd, ReportCause, ContextEnds
      <4>2. ASSUME ReadLoop PROVE UNCHANGED reply \/ reply' = NoCall
        BY <2>2, <4>2 DEF ReadLoop, TakeSendMu, ReadFails, Deliver, CloseDelivered, ReadCall,
           Refuse, RefuseFails, ThreadShutsDown, LeaveShutdown, BeginShutdown
      <4>3. ASSUME \/ PingLoop \/ Refuse \/ Ping \/ Close \/ ShutdownBody \/ GridReplies \/ GridCalls
                   \/ LinkDrops \/ UNCHANGED vars
            PROVE  UNCHANGED reply
        BY <4>3 DEF Refuse, ThreadShutsDown, LeaveShutdown, BeginShutdown, PingLoop, PingStops,
           PingTicks, Ping, PingFails, Pinger, Close,
           ShutdownBody, WakeWaiter, CloseDone, CloseSocket, GridReplies, GridCalls, GridSends,
           LinkDrops
      <4> QED
        BY <4>1, <4>2, <4>3 DEF Next
    <3> QED
      BY <1>0, <3>1 DEF AskedInv
  <2> QED
    BY <2>1, <2>2
<1>3. \A c \in Calls: buf'[c] # NoCall => buf'[c] \in Asked'
  <2>1. CASE Deliver
    <3>1. tpc["reader"] = "deliver" /\ buf' = [buf EXCEPT ![held] = reply]
      BY <2>1 DEF Deliver, Reader
    <3> QED
      BY <1>0, <3>1 DEF AskedInv, TypeOK
  <2>2. ASSUME NEW c \in Calls, TakeReply(c)
        PROVE  \A d \in Calls: buf'[d] # NoCall => buf'[d] \in Asked'
    BY <1>0, <2>2 DEF TakeReply, AskedInv, TypeOK
  <2>3. CASE ~Deliver /\ ~(\E c \in Calls: TakeReply(c))
    <3>1. UNCHANGED buf
      <4>1. ASSUME NEW c \in Calls, TurnAway(c) \/ Register(c) \/ (Call(c) /\ ~TakeReply(c)) \/ SendRequest(c) \/ ContextEnds(c)
            PROVE  UNCHANGED buf
        BY <4>1 DEF TurnAway, Register, Call, TakeSendMu, SendRequest, SendRequestFails, Forget,
           SeeClosed, SeeContextEnd, ReportCause, ContextEnds
      <4>2. ASSUME ReadLoop, ~Deliver PROVE UNCHANGED buf
        BY <4>2 DEF ReadLoop, TakeSendMu, ReadFails, ReadReply, CloseDelivered, ReadCall,
           Refuse, RefuseFails, ThreadShutsDown, LeaveShutdown, BeginShutdown
      <4>3. ASSUME \/ PingLoop \/ Refuse \/ Ping \/ Close \/ ShutdownBody \/ GridReplies \/ GridCalls
                   \/ LinkDrops \/ UNCHANGED vars
            PROVE  UNCHANGED buf
        BY <4>3 DEF Refuse, ThreadShutsDown, LeaveShutdown, BeginShutdown, PingLoop, PingStops,
           PingTicks, Ping, PingFails, Pinger, Close,
           ShutdownBody, WakeWaiter, CloseDone, CloseSocket, GridReplies, GridCalls, GridSends,
           LinkDrops
      <4> QED
        BY <2>3, <4>1, <4>2, <4>3 DEF Next
    <3> QED
      BY <1>0, <3>1 DEF AskedInv
  <2> QED
    BY <2>1, <2>2, <2>3
<1> QED
  BY <1>1, <1>2, <1>3 DEF AskedInv

\* What the service shows of a call.
StatusOf(c) ==
  CASE cpc[c] = "idle" -> "idle"
    [] cpc[c] = "returned" -> IF outcome[c] = "reply" THEN "answered" ELSE "failed"
    [] cpc[c] \in {"send", "sendFailed"} -> "sending"
    [] OTHER -> "waiting"

LEMMA StatusFacts ==
  \A c \in Calls: /\ cpc[c] = "idle" => StatusOf(c) = "idle"
                  /\ cpc[c] = "returned" /\ outcome[c] = "reply" => StatusOf(c) = "answered"
                  /\ cpc[c] = "returned" /\ outcome[c] # "reply" => StatusOf(c) = "failed"
                  /\ cpc[c] \in {"send", "sendFailed"} => StatusOf(c) = "sending"
                  /\ cpc[c] \in {"waiting", "cancelled", "woken"} => StatusOf(c) = "waiting"
BY DEF StatusOf

\* A fresh connection is a fresh service.
LEMMA ServiceStarts == Init => Service!SInit /\ AskedInv
<1> SUFFICES ASSUME Init PROVE Service!SInit /\ AskedInv
  OBVIOUS
<1>1. Asked = {}
  BY DEF Init, Asked
<1>2. AskedInv
  BY DEF Init, AskedInv
<1>3. \A c \in Calls: StatusOf(c) = "idle"
  BY StatusFacts DEF Init
<1> QED
  BY <1>1, <1>2, <1>3 DEF Init, Service!SInit, StatusOf, Asked

\* A call that goes from one status to another, while the others stay as they are.
LEMMA Moves ==
  ASSUME TypeOK, NEW c \in Calls, NEW to,
         StatusOf(c)' = to,
         \A d \in Calls: d # c => cpc'[d] = cpc[d] /\ outcome'[d] = outcome[d]
  PROVE  [d \in Calls |-> StatusOf(d)]' = [[d \in Calls |-> StatusOf(d)] EXCEPT ![c] = to]
<1>1. \A d \in Calls: d # c => StatusOf(d)' = StatusOf(d)
  BY DEF StatusOf
<1> QED
  BY <1>1

\* Every step of a call, the loops, the shutdown or the network is a step of
\* the service, or changes nothing that the service shows.
LEMMA ServiceStep ==
  ASSUME IInv, AskedInv, [Next]_vars
  PROVE  [Service!SNext]_(Service!svars)
<1> USE DEF IInv
<1> DEFINE Status == [d \in Calls |-> StatusOf(d)]
           Up == stage = "open"
<1>0. Status = [c \in Calls |->
               CASE cpc[c] = "idle" -> "idle"
                 [] cpc[c] = "returned" -> IF outcome[c] = "reply" THEN "answered" ELSE "failed"
                 [] cpc[c] \in {"send", "sendFailed"} -> "sending"
                 [] OTHER -> "waiting"]
  BY DEF StatusOf
<1>1. ASSUME NEW c \in Calls, TurnAway(c) PROVE Service!Begin(c)
  <2>1. /\ cpc[c] = "idle" /\ cpc'[c] = "returned" /\ outcome'[c] = "refused" /\ ~Up
        /\ \A d \in Calls: d # c => cpc'[d] = cpc[d] /\ outcome'[d] = outcome[d]
        /\ UNCHANGED <<stage, ctxDone, requests>>
    BY <1>1 DEF TurnAway, Returns, TypeOK
  <2>2. StatusOf(c) = "idle" /\ StatusOf(c)' = "failed"
    BY <2>1 DEF StatusOf
  <2>3. Status' = [Status EXCEPT ![c] = "failed"]
    BY <2>1, <2>2, Moves
  <2> QED
    BY <2>1, <2>2, <2>3 DEF Service!Begin, StatusOf
<1>2. ASSUME NEW c \in Calls, Register(c) PROVE Service!Begin(c)
  <2>1. /\ cpc[c] = "idle" /\ cpc'[c] = "send" /\ Up
        /\ \A d \in Calls: d # c => cpc'[d] = cpc[d] /\ outcome'[d] = outcome[d]
        /\ UNCHANGED <<stage, ctxDone, requests>>
    BY <1>2 DEF Register, TypeOK
  <2>2. StatusOf(c) = "idle" /\ StatusOf(c)' = "sending"
    BY <2>1 DEF StatusOf
  <2>3. Status' = [Status EXCEPT ![c] = "sending"]
    BY <2>1, <2>2, Moves
  <2> QED
    BY <2>1, <2>2, <2>3 DEF Service!Begin, StatusOf
<1>3. ASSUME NEW c \in Calls, TakeReply(c) PROVE Service!Answer(c)
  <2>1. /\ cpc[c] = "waiting" /\ cpc'[c] = "returned" /\ outcome'[c] = "reply" /\ buf[c] # NoCall
        /\ \A d \in Calls: d # c => cpc'[d] = cpc[d] /\ outcome'[d] = outcome[d]
        /\ UNCHANGED <<stage, ctxDone, requests>>
    BY <1>3 DEF TakeReply, Returns, TypeOK
  <2>2. StatusOf(c) = "waiting" /\ StatusOf(c)' = "answered"
    BY <2>1 DEF StatusOf
  <2>3. c \in Asked
    BY <2>1 DEF AskedInv, OwnerInv
  <2>4. Status' = [Status EXCEPT ![c] = "answered"]
    BY <2>1, <2>2, Moves
  <2> QED
    BY <2>1, <2>2, <2>3, <2>4 DEF Service!Answer, StatusOf, Asked
<1>4. ASSUME NEW c \in Calls, Forget(c) \/ ReportCause(c) PROVE Service!Fail(c)
  <2>1. /\ cpc[c] \in {"sendFailed", "cancelled", "woken"} /\ cpc'[c] = "returned" /\ outcome'[c] # "reply"
        /\ \A d \in Calls: d # c => cpc'[d] = cpc[d] /\ outcome'[d] = outcome[d]
        /\ UNCHANGED <<stage, ctxDone, requests>>
    BY <1>4 DEF Forget, ReportCause, Returns, TypeOK
  <2>2. StatusOf(c) \in {"sending", "waiting"} /\ StatusOf(c)' = "failed"
    BY <2>1 DEF StatusOf
  <2>3. Status' = [Status EXCEPT ![c] = "failed"]
    BY <2>1, <2>2, Moves
  <2> QED
    BY <2>1, <2>2, <2>3 DEF Service!Fail, StatusOf
<1>5. ASSUME NEW c \in Calls, SendRequest(c) PROVE Service!Send(c)
  <2>1. /\ cpc[c] = "send" /\ cpc'[c] = "waiting"
        /\ \A d \in Calls: d # c => cpc'[d] = cpc[d] /\ outcome'[d] = outcome[d]
        /\ UNCHANGED <<stage, ctxDone>>
        /\ requests' = IF linkUp THEN requests \cup {[id |-> id[c], call |-> c]} ELSE requests
    BY <1>5 DEF SendRequest, Goes, TypeOK
  <2>2. StatusOf(c) = "sending" /\ StatusOf(c)' = "waiting"
    BY <2>1 DEF StatusOf
  <2>3. Status' = [Status EXCEPT ![c] = "waiting"]
    BY <2>1, <2>2, Moves
  <2>4. Asked' = (IF linkUp THEN Asked \cup {c} ELSE Asked)
    <3> DEFINE new == [id |-> id[c], call |-> c]
    <3>1. new.call = c
      OBVIOUS
    <3> HIDE DEF new
    <3>2. CASE linkUp
      <4>1. requests' = requests \cup {new}
        BY <2>1, <3>2 DEF new
      <4> QED
        BY <3>1, <3>2, <4>1 DEF Asked
    <3>3. CASE ~linkUp
      BY <2>1, <3>3 DEF Asked
    <3> QED
      BY <3>2, <3>3
  <2> QED
    BY <2>1, <2>2, <2>3, <2>4 DEF Service!Send, StatusOf, Asked
<1>6. ASSUME NEW c \in Calls, SendRequestFails(c) \/ SeeClosed(c) \/ SeeContextEnd(c)
      PROVE  UNCHANGED Service!svars
  <2>1. /\ \/ cpc[c] = "send" /\ cpc'[c] = "sendFailed"
           \/ cpc[c] = "waiting" /\ cpc'[c] \in {"woken", "cancelled"}
        /\ \A d \in Calls: d # c => cpc'[d] = cpc[d] /\ outcome'[d] = outcome[d]
        /\ UNCHANGED <<stage, ctxDone, requests>>
    BY <1>6 DEF SendRequestFails, SeeClosed, SeeContextEnd, Goes, TypeOK
  <2>2. StatusOf(c)' = StatusOf(c)
    BY <2>1 DEF StatusOf
  <2>3. UNCHANGED Status
    BY <2>1, <2>2, Moves
  <2> QED
    BY <2>1, <2>3 DEF Service!svars, StatusOf
<1>7. ASSUME NEW c \in Calls, ContextEnds(c) PROVE Service!GiveUp(c)
  <2>1. /\ cpc[c] \in {"send", "waiting"} /\ ctxDone' = ctxDone \cup {c}
        /\ UNCHANGED <<stage, cpc, outcome, requests>>
    BY <1>7 DEF ContextEnds
  <2>2. StatusOf(c) \in {"sending", "waiting"}
    BY <2>1 DEF StatusOf
  <2> QED
    BY <2>1, <2>2 DEF Service!GiveUp, StatusOf
<1>8. ASSUME NEW cause, BeginShutdown(cause) PROVE Service!GoDown
  BY <1>8 DEF BeginShutdown, Service!GoDown
<1>9. ASSUME \/ ReadFails \/ ReadReply \/ Deliver \/ CloseDelivered \/ ReadCall \/ Refuse \/ RefuseFails
             \/ (\E t \in Threads: LeaveShutdown(t)) \/ PingStops \/ PingTicks \/ Ping \/ PingFails
             \/ (\E w \in Calls \cup Threads: TakeSendMu(w))
             \/ ShutdownBody \/ GridReplies \/ GridCalls \/ LinkDrops \/ UNCHANGED vars
      PROVE  UNCHANGED Service!svars
  <2>1. UNCHANGED <<Up, ctxDone, cpc, outcome, requests>>
    BY <1>9 DEF ReadFails, ReadReply, Reads, Deliver, CloseDelivered, ReadCall, Refuse, RefuseFails,
       LeaveShutdown, PingStops, PingTicks, Ping, PingFails, Pinger, TakeSendMu, ShutdownBody,
       WakeWaiter, CloseDone, CloseSocket,
       GridReplies, GridCalls, GridSends, LinkDrops
  <2> QED
    BY <2>1 DEF Service!svars
<1>10. CASE \E c \in Calls: TurnAway(c) \/ Register(c) \/ Call(c) \/ SendRequest(c) \/ ContextEnds(c)
  BY <1>1, <1>2, <1>3, <1>4, <1>5, <1>6, <1>7, <1>9, <1>10 DEF Call, Service!SNext
<1>11. CASE ReadLoop \/ PingLoop \/ Refuse \/ Ping \/ Close \/ ShutdownBody \/ GridReplies \/ GridCalls \/ LinkDrops
              \/ UNCHANGED vars
  BY <1>8, <1>9, <1>11 DEF ReadLoop, PingLoop, ThreadShutsDown, Close, Threads, Service!SNext
<1> QED
  BY <1>10, <1>11 DEF Next

\* The connection does what the abstract service may do, and nothing else: a
\* call begins once, is answered only if the grid was asked for it, and ends
\* once.  (That it does end is liveness, which the run checks.)
THEOREM ImplementsServiceSafely == Spec => Service!SInit /\ [][Service!SNext]_(Service!svars)
<1>1. Init => Service!SInit /\ IInv /\ AskedInv
  BY InitIInv, ServiceStarts
<1>2. IInv /\ AskedInv /\ [Next]_vars => IInv' /\ AskedInv'
  BY IInvStep, AskedStep
<1>3. IInv /\ AskedInv /\ [Next]_vars => [Service!SNext]_(Service!svars)
  BY ServiceStep
<1> QED
  BY <1>1, <1>2, <1>3, PTL DEF Spec
===============================================================================
