--------------------------- MODULE MCConnTracker ---------------------------
(* One process with two threads, and sockets and descriptors enough for    *)
(* both to be reused.                                                      *)
EXTENDS ConnTracker

CONSTANTS t1, t2, p1

MCThreads == {t1, t2}
MCPids    == {p1}
MCTgid    == [t \in MCThreads |-> p1]

=============================================================================
