--------------------------- MODULE MCCallProbes ---------------------------
(* Two tasks on two threads, which Go's scheduler can exchange.            *)
EXTENDS CallProbes, TLC

CONSTANTS g1, g2, t1, t2

MCTasks   == {g1, g2}
MCThreads == {t1, t2}
Symmetry  == Permutations(MCTasks) \cup Permutations(MCThreads)

=============================================================================
