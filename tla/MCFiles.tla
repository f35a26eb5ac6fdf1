------------------------------- MODULE MCFiles -------------------------------
EXTENDS Files, TLC

\* A photo with a date, and two without whose ids differ in their sign.
MCPhotos == {1, -1, 2}
MCTakenAt == [id \in MCPhotos |-> IF id = 2 THEN 5 ELSE 0]

GetCommand(ids, variant, out) == [cmd |-> "get", ids |-> ids, variant |-> variant, out |-> out]
SendCommand(args) == [cmd |-> "send", args |-> args]

MCCommands ==
  {GetCommand(<<>>, "full", "out"), GetCommand(<<2>>, "preview", "out"),
   GetCommand(<<2, 2>>, "full", "."), GetCommand(<<-1>>, "full", "out"),
   SendCommand(<<"url", "file", "url">>)}

\* Up to two bytes more than the budget.
MCBodies == [size: 0..4, text: {FALSE}] \cup {[size |-> 1, text |-> TRUE]}
===============================================================================
