--------------------------- MODULE MCAttribution ---------------------------
(* One process, two sockets that connect to one service.                   *)
EXTENDS Attribution, TLC

CONSTANTS p1, s1, s2, service

MCTgid == [t \in Threads |-> p1]
MCDst  == [s \in Socks |-> service]

Symmetry == Permutations(Socks)

=============================================================================
