----------------------------- MODULE CallService -----------------------------
(***************************************************************************)
(* What the grid connection promises the code that calls it: Grid.call     *)
(* (internal/sdg/grid.go) is a blocking request; each one ends exactly     *)
(* once, either answered by the grid or failed.  The threads, the table of *)
(* waiting callers and the channels that make it so are in Grid.tla, which *)
(* implements this module.                                                 *)
(***************************************************************************)

CONSTANT Calls          \* the invocations of Grid.call

VARIABLES up,           \* the connection has not been shut down
          givenUp,      \* the calls whose context has ended
          asked,        \* the requests the grid has received
          status        \* of each call

svars == <<up, givenUp, asked, status>>

SInit == /\ up = TRUE
         /\ givenUp = {} /\ asked = {}
         /\ status = [c \in Calls |-> "idle"]

\* A call on a live connection is taken on; on a dead one it fails at once.
Begin(c) == /\ status[c] = "idle"
            /\ status' = [status EXCEPT ![c] = IF up THEN "sending" ELSE "failed"]
            /\ UNCHANGED <<up, givenUp, asked>>

\* The request is out of the caller's hands; it may or may not reach the grid.
Send(c) == /\ status[c] = "sending"
           /\ status' = [status EXCEPT ![c] = "waiting"]
           /\ asked' \in {asked, asked \cup {c}}
           /\ UNCHANGED <<up, givenUp>>

\* The caller gets the reply to its own request, which the grid has seen.
Answer(c) == /\ status[c] = "waiting"
             /\ c \in asked
             /\ status' = [status EXCEPT ![c] = "answered"]
             /\ UNCHANGED <<up, givenUp, asked>>

\* The request cannot be sent, the caller has given up, or the connection went away under it.
Fail(c) == /\ status[c] \in {"sending", "waiting"}
           /\ status' = [status EXCEPT ![c] = "failed"]
           /\ UNCHANGED <<up, givenUp, asked>>

GiveUp(c) == /\ status[c] \in {"sending", "waiting"}
             /\ givenUp' = givenUp \cup {c}
             /\ UNCHANGED <<up, asked, status>>

GoDown == /\ up
          /\ up' = FALSE
          /\ UNCHANGED <<givenUp, asked, status>>

SNext == \/ \E c \in Calls: Begin(c) \/ Send(c) \/ Answer(c) \/ Fail(c) \/ GiveUp(c)
         \/ GoDown

\* Nobody is left outstanding on a dead connection, nor waiting for an answer
\* beyond the end of the context.  While the connection is up a request may take
\* any time to be written, and nothing but the end of the connection cuts that.
Finish(c) == /\ ~up \/ (c \in givenUp /\ status[c] = "waiting")
             /\ Answer(c) \/ Fail(c)

SSpec == SInit /\ [][SNext]_svars /\ \A c \in Calls: WF_svars(Finish(c))
=============================================================================
