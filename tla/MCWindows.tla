------------------------------ MODULE MCWindows ------------------------------
(* Model values and rows for the runs of Windows. *)
EXTENDS Windows
CONSTANTS s1, s2, fleet

MCServers == {s1}
MCScopes == {s1, s2, fleet}

\* A morning, a noon, an empty span, and an evening that wraps midnight.
Spans == {<<0, 1>>, <<1, 2>>, <<1, 1>>, <<2, 1>>}

MCRows ==
  {[scope |-> sc, start |-> sp[1], end |-> sp[2], days |-> d, enabled |-> TRUE, mode |-> m] :
      sc \in {s1, fleet}, sp \in Spans, d \in {{0}, {0, 1}}, m \in {"deny", "allow"}}
  \union
  {[scope |-> sc, start |-> 0, end |-> 2, days |-> {0, 1}, enabled |-> FALSE, mode |-> "allow"] :
      sc \in {s1, fleet}}
  \union
  {[scope |-> s2, start |-> 0, end |-> 2, days |-> {0, 1}, enabled |-> TRUE, mode |-> m] :
      m \in {"deny", "allow"}}
=============================================================================
