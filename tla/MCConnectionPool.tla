-------------------------- MODULE MCConnectionPool --------------------------
EXTENDS ConnectionPool

CONSTANTS t1, t2, t3, p1, p2

\* Two tasks share a peer, the third one talks to another.
MCPeerOf == (t1 :> p1) @@ (t2 :> p1) @@ (t3 :> p2)
=============================================================================
