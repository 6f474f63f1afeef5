------------------------- MODULE MCStatementCache -------------------------
(* Two names, of which one is the empty one.                               *)
EXTENDS StatementCache, TLC

CONSTANTS unnamed, s1

MCNames == {unnamed, s1}

=============================================================================
