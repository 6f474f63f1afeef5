------------------------------ MODULE LogQueue ------------------------------
(***************************************************************************)
(* What the log path promises of each provider, whatever its goroutines    *)
(* and its buffer do: a queue.  It accepts messages in the order of the    *)
(* journal and exports them in that order, each once, a batch at a time.   *)
(* It may accept a message and never export it: nothing is promised of the *)
(* last messages of a provider, nor of one that is stopped.                *)
(***************************************************************************)
EXTENDS Naturals, Sequences

CONSTANTS
    Providers,
    Messages             \* a message is its place in the journal

VARIABLES queue, exported

vars == <<queue, exported>>

Init ==
    /\ queue = [p \in Providers |-> <<>>]
    /\ exported = [p \in Providers |-> <<>>]

Later(m, s) == \A i \in 1 .. Len(s) : s[i] < m

Accept(p) ==
    /\ \E m \in Messages :
          /\ Later(m, exported[p] \o queue[p])
          /\ queue' = [queue EXCEPT ![p] = Append(@, m)]
    /\ UNCHANGED exported

ExportBatch(p) ==
    \E n \in 1 .. Len(queue[p]) :
        /\ exported' = [exported EXCEPT ![p] = @ \o SubSeq(queue[p], 1, n)]
        /\ queue' = [queue EXCEPT ![p] = SubSeq(@, n + 1, Len(@))]

Next == \E p \in Providers : Accept(p) \/ ExportBatch(p)

Spec == Init /\ [][Next]_vars

=============================================================================
