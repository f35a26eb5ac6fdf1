------------------------------ MODULE MCClient ------------------------------
EXTENDS Client, TLC

CONSTANTS a, b

\* Two photos of different length, the first with a thumbnail.
MCSize == (a :> 3) @@ (b :> 1)
MCExtra == (a :> 2) @@ (b :> 0)

Upload(n) == [kind |-> "photo", segments |-> n]
Change(kind, k) == [kind |-> kind, of |-> k]
List == [kind |-> "list"]

\* Photos only, one asked for twice, requests only, and requests after a photo
\* that may be late.
MCPrograms ==
  {[gets |-> <<a, b>>, requests |-> <<>>],
   [gets |-> <<b, b>>, requests |-> <<>>],
   [gets |-> <<>>, requests |-> <<Upload(2), Change("hide", 1), Change("show", 1), List>>],
   [gets |-> <<b>>, requests |-> <<Upload(1), Change("delete", 1), List>>]}
=============================================================================
