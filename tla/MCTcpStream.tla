---------------------------- MODULE MCTcpStream ----------------------------
(* Short streams for TLC, which end in every way.                           *)
EXTENDS TcpStream

Scenario(say, tell, newlines, cuts, edges, first, ends) ==
    [say |-> say, tell |-> tell, newlines |-> newlines, cuts |-> cuts, edges |-> edges,
     first |-> first, ends |-> ends]

\* Received out of order, rxStream getting full; the same until the FIN; in pieces
\* that overlap; sent against a window that closes, also where the raw sequence
\* numbers wrap, and more than txStream holds; both directions, until a FIN and
\* until the peer fails.
MCScenarios ==
    {Scenario(<<>>, 7, {1, 6}, {0, 2, 3, 5, 7}, <<4, 4>>, 0, "no"),
     Scenario(<<>>, 6, {1, 5}, {0, 2, 4, 6}, <<4, 4>>, 0, "fin"),
     Scenario(<<>>, 3, {2}, {0, 1, 2, 3}, <<4, 4>>, 0, "fin"),
     Scenario(<<2, 3>>, 0, {}, {0}, <<3, 5>>, 0, "no"),
     Scenario(<<4>>, 0, {}, {0}, <<2, 4>>, 62, "no"),
     Scenario(<<9>>, 0, {}, {0}, <<9, 9>>, 0, "no"),
     Scenario(<<2>>, 1, {0}, {0, 1}, <<2, 2>>, 0, "fin"),
     Scenario(<<2>>, 1, {0}, {0, 1}, <<2, 2>>, 0, "dies")}
=============================================================================
