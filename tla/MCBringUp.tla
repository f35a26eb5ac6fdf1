------------------------------- MODULE MCBringUp -------------------------------
EXTENDS BringUp, TLC

CONSTANTS me, server, frame, stranger, c1, c2

MCCodeOf == (server :> c2) @@ (frame :> c1)

\* A grid; a pairing and then a call; a local transfer and then a call.
MCPlans == {<<"grid">>, <<"pairing", "peer">>, <<"local", "peer">>}
===============================================================================
