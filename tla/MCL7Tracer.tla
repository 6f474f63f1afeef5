---------------------------- MODULE MCL7Tracer ----------------------------
(* Two threads that read, on two CPUs.                                     *)
EXTENDS L7Tracer, TLC

CONSTANTS f1, f2, f3, t1, t2, c1, c2

MCThreads == {t1, t2}
MCCpus    == {c1, c2}

Setup(speaks, awaits, reconnects, readSlots, requests, reads) ==
    [speaks |-> speaks, awaits |-> awaits, reconnects |-> reconnects, readSlots |-> readSlots,
     requests |-> requests, reads |-> reads]

(* One program awaits its responses, two others' name their requests.      *)
Naming == Setup(f1 :> "postgres" @@ f2 :> "cassandra" @@ f3 :> "kafka", {f1}, {}, 2, 3, 2)

(* Responses in two parts, in one, and numbered; little room for reads and *)
(* descriptors closed early.                                               *)
Mixed == Setup(f1 :> "mongo" @@ f2 :> "plain" @@ f3 :> "kafka", {}, {f1, f2}, 1, 2, 3)

(* Frames and messages beside a client that prepares statements.           *)
Frames == Setup(f1 :> "http2" @@ f2 :> "mysql" @@ f3 :> "message", {f2}, {}, 2, 2, 2)

AllSetups  == {Naming, Mixed, Frames}
TwoStreams == {1, 2}

Mysql       == Setup(f2 :> "mysql", {f2}, {}, 2, 2, 2)
MysqlSetups == {Mysql}
NoStream    == {}

Symmetry == Permutations(MCThreads) \cup Permutations(MCCpus)

=============================================================================
