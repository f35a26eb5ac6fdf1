-------------------------------- MODULE BringUp --------------------------------
(***************************************************************************)
(* Connections of this client as they are brought up: dialConn and         *)
(* handshakeAny (Tunnel.tla), and for a connection to a grid the           *)
(* negotiation over that tunnel and the pings that keep it up              *)
(* (GridPing.tla).  The packets of a grid connection are not sealed one by *)
(* one here; those to a frame are.                                         *)
(***************************************************************************)
EXTENDS Tunnel, GridPing

allVars == <<tunnelVars, vars>>

\* The tunnel is what negotiate, pingLoop and readLoop work with.
ToGrid == mode = "grid" /\ conn.pc = "up"

BringUpInit == TunnelInit /\ Init

TunnelSteps == ~ToGrid /\ TunnelNext /\ UNCHANGED vars

\* A far end that hung up during the handshake says no more; a stranger in its
\* place may.
NegotiationSteps ==
  /\ ToGrid
  /\ ClientSteps \/ ((tun.pc = "up" \/ strange) /\ GridSteps)
  /\ UNCHANGED tunnelVars

BringUpNext == TunnelSteps \/ NegotiationSteps

\* The dialling goroutine goes on, and its deadlines fire.
Dials == UNCHANGED vars /\ (Handshakes \/ GivesUp)
Negotiates == ToGrid /\ Negotiate /\ UNCHANGED tunnelVars
RunsOut == ToGrid /\ StepTimesOut /\ UNCHANGED tunnelVars

\* Nothing is assumed of the far end, of the pinger or of the reader.
BringUpSpec ==
  /\ BringUpInit /\ [][BringUpNext]_allVars
  /\ WF_allVars(Dials) /\ WF_allVars(Negotiates) /\ WF_allVars(RunsOut)

-------------------------------------------------------------------------------
(* Properties *)

SettingUp == conn.pc \in InSetup \/ (ToGrid /\ stage \in BringUpStages)

\* Every attempt to connect comes to an end, whatever the far end does: one that
\* says nothing, hangs up, answers wrongly, or never stops talking and never
\* says what is wanted (each message would renew the deadline, so the messages
\* are counted).
SetupEnds == []<>~SettingUp
===============================================================================
