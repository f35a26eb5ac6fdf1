---------------------------- MODULE MCReassembler ----------------------------
EXTENDS Reassembler, TLC

CONSTANTS w, x, y, z

\* Two and three parts, the last one short or full; z is over the limit.
MCLength == (w :> 4) @@ (x :> 5) @@ (y :> 6) @@ (z :> 7)
===============================================================================
