----------------------------- MODULE CallProbes -----------------------------
(***************************************************************************)
(* Calls that are followed by two probes, one where they are entered and   *)
(* one where they return, which meet in a map under an id of the caller:   *)
(*  - SSL_read and SSL_read_ex of OpenSSL (ebpf/l7/openssl.c),             *)
(*  - Read of a Conn of Go's crypto/tls (ebpf/l7/gotls.c),                 *)
(*  - open and openat (ebpf/file.c).                                       *)
(*                                                                         *)
(* Probes are attached one by one while programs run (tls.go, NewTracer of *)
(* ebpftracer.go), so calls under way are met by some of them only.  A     *)
(* goroutine changes threads during a call.  A TLS library reads its       *)
(* ciphertext with calls that are probed too, by the same maps (l7.c).     *)
(*                                                                         *)
(* A module instance follows one kind of probe.  The TLS kinds watch one   *)
(* connection, whose program awaits each response before the next request; *)
(* how l7.c matches the two in general is in L7Tracer.  Maps have room.    *)
(***************************************************************************)
EXTENDS Integers, Sequences, SequencesExt

CONSTANTS
    None,
    Tasks,               \* goroutines, or the one task of a thread
    Threads,
    MaxRequests          \* bound on the requests written

VARIABLES
    kind,                \* of the probes: "openssl", "go" or "file"
    todo,                \* probes still to be attached, in that order
    attached,
    dropped,             \* the attachment failed and its links are garbage
    on,                  \* the thread a task runs on, or None
    call,                \* the probed call a task is in, or None
    written, awaited,    \* requests written; the one whose response is due, or None
    unseen,              \* requests whose response no pair of probes followed
    entries,             \* active_reads, or open_file_info
    requests,            \* active_l7_requests: one key in the clear, one of TLS
    last                 \* what the last return of a call found, or None

probing == <<kind, todo, attached, dropped>>
vars == <<probing, on, call, written, awaited, unseen, entries, requests, last>>

Kinds   == {"openssl", "go", "file"}
Reads   == {"SSL_read", "SSL_read_ex", "Read", "open", "openat"}
Writes  == {"SSL_write", "SSL_write_ex", "Write"}
Places  == {"enter", "exit", "exit2"}
Probes  == (Reads \cup Writes) \X Places
Ids     == 1 .. MaxRequests
EntryKeys == {"plain", "tls", "open"} \X (Tasks \cup Threads)
Clear   == 0
Tls     == 1

(* An entry belongs to a call: that of its task which is under way if it   *)
(* is live, otherwise one that returned without taking it out.             *)
Entry == [task : Tasks, followed : BOOLEAN, live : BOOLEAN]

Call    == [fn : Reads, kept : BOOLEAN, followed : BOOLEAN, uretprobe : BOOLEAN]
Awaited == [id : Ids, probed : BOOLEAN]

ASSUME RequestsAssumption == MaxRequests \in Nat
ASSUME NoneAssumption == None \notin Nat \cup Threads \cup Entry \cup Call \cup Awaited

---------------------------------------------------------------------------
(* Attachment                                                              *)

OpenSslProgs ==
    << <<"SSL_write", "enter">>, <<"SSL_write_ex", "enter">>,
       <<"SSL_read", "enter">>, <<"SSL_read_ex", "enter">>,
       <<"SSL_read", "exit">>, <<"SSL_read_ex", "exit">> >>

(* In the order of the symbol table, and without what it lacks or has no   *)
(* size for.  Every return instruction of Read gets a probe; when Read     *)
(* reaches to the end of the text section none does, and the next symbol   *)
(* follows.                                                                *)
GoRead  == << <<"Read", "enter">>, <<"Read", "exit">>, <<"Read", "exit2">> >>
GoWrite == << <<"Write", "enter">> >>
GoProgs ==
    UNION {{write \o read, read \o write} :
             write \in {<<>>, GoWrite}, read \in {<<>>, GoRead, SubSeq(GoRead, 1, 1)}}

FileProgs == {"open", "openat"} \X {"enter", "exit"}

(* NewTracer goes through the programs in the order of a Go map or not at  *)
(* all; any order is taken.                                                *)
Orders(k) ==
    CASE k = "openssl" -> {OpenSslProgs}
      [] k = "go"      -> GoProgs
      [] k = "file"    -> SetToSeqs(FileProgs)

Complete ==
    attached = CASE kind = "openssl" -> ToSet(OpenSslProgs)
                 [] kind = "go"      -> ToSet(GoRead \o GoWrite)
                 [] kind = "file"    -> FileProgs

Init ==
    /\ kind \in Kinds
    /\ todo \in Orders(kind)
    /\ attached = {}
    /\ dropped = FALSE
    /\ on \in IF kind = "go" THEN {[t \in Tasks |-> None]}
              ELSE {f \in [Tasks -> Threads] : IsInjective(f)}
    /\ call = [t \in Tasks |-> None]
    /\ written = 0
    /\ awaited = None
    /\ unseen = {}
    /\ entries = [k \in EntryKeys |-> None]
    /\ requests = [tls \in {Clear, Tls} |-> None]
    /\ last = None

Idle == UNCHANGED <<on, call, written, awaited, unseen, entries, requests>> /\ last' = None

Attach ==
    /\ todo # <<>>
    /\ attached' = attached \cup {Head(todo)}
    /\ todo' = Tail(todo)
    /\ UNCHANGED <<kind, dropped>> /\ Idle

(* The tracer ignores a probe that cannot be attached.  The attachment to  *)
(* a library or a Go program ends with it and returns no links at all.     *)
AttachFails ==
    /\ todo # <<>>
    /\ todo' = IF kind = "file" THEN Tail(todo) ELSE <<>>
    /\ dropped' = (kind # "file")
    /\ UNCHANGED <<kind, attached>> /\ Idle

(* Links that nothing refers to are closed when they are collected.        *)
Collect(probe) ==
    /\ dropped
    /\ probe \in attached
    /\ attached' = attached \ {probe}
    /\ UNCHANGED <<kind, todo, dropped>> /\ Idle

---------------------------------------------------------------------------
(* The scheduler of Go.  A thread runs one task at a time.                 *)
Schedule(task, thread) ==
    /\ kind = "go"
    /\ on[task] # thread
    /\ thread # None => \A t \in Tasks : on[t] # thread
    /\ on' = [on EXCEPT ![task] = thread]
    /\ last' = None
    /\ UNCHANGED <<probing, call, written, awaited, unseen, entries, requests>>

(* The ids.  IS_TLS_READ_ID keeps those of TLS apart from those of read(). *)
PlainId(task) == <<"plain", on[task]>>
OpenSslIdUnflagged(task) == <<"plain", on[task]>>
OpenSslId(task) == <<"tls", on[task]>>
GoIdOfThread(task) == <<"tls", on[task]>>
GoId(task) == <<"tls", task>>
FileId(task) == <<"open", on[task]>>

RequestKeyPlain(tls) == Clear
RequestKey(tls) == tls

(* The probe on the entry of a write.  It may fail to find the descriptor. *)
trace_enter_write(task, fn, found) ==
    /\ on[task] # None
    /\ call[task] = None
    /\ awaited = None
    /\ written < MaxRequests
    /\ written' = written + 1
    /\ awaited' = [id |-> written', probed |-> found /\ <<fn, "enter">> \in attached]
    /\ requests' = IF awaited'.probed /\ requests[RequestKey(Tls)] = None
                   THEN [requests EXCEPT ![RequestKey(Tls)] = written'] ELSE requests
    /\ last' = None
    /\ UNCHANGED <<probing, on, call, unseen, entries>>

openssl_SSL_write_enter(task, fn, found) ==
    /\ kind = "openssl"
    /\ fn \in {"SSL_write", "SSL_write_ex"}
    /\ trace_enter_write(task, fn, found)

go_crypto_tls_write_enter(task, found) ==
    kind = "go" /\ trace_enter_write(task, "Write", found)

(* A call begins.  Its probe keeps an entry, unless it finds no descriptor *)
(* or, for files, the call is of no interest.                              *)
Begin(task, fn, id, keeps) ==
    LET kept == keeps /\ <<fn, "enter">> \in attached
    IN  /\ on[task] # None
        /\ call[task] = None
        /\ call' = [call EXCEPT ![task] =
                      [fn |-> fn, kept |-> kept, followed |-> Complete,
                       uretprobe |-> <<fn, "exit">> \in attached]]
        /\ entries' = IF kept THEN [entries EXCEPT ![id] =
                                      [task |-> task, followed |-> Complete, live |-> TRUE]]
                      ELSE entries
        /\ last' = None
        /\ UNCHANGED <<probing, on, written, awaited, unseen, requests>>

(* One task at a time reads from a connection.                             *)
NoReader == \A t \in Tasks : call[t] = None

openssl_SSL_read_enter(task, fn, found) ==
    /\ kind = "openssl"
    /\ NoReader
    /\ fn \in {"SSL_read", "SSL_read_ex"}
    /\ Begin(task, fn, OpenSslId(task), found)

go_crypto_tls_read_enter(task, found) ==
    /\ kind = "go"
    /\ NoReader
    /\ Begin(task, "Read", GoId(task), found)

(* For writing, and not below /proc, /dev or /sys.                         *)
trace_enter(task, fn, ofInterest) ==
    /\ kind = "file"
    /\ fn \in {"open", "openat"}
    /\ Begin(task, fn, FileId(task), ofInterest)

(* The library reads ciphertext: the probes on read() leave no entry under *)
(* the thread and take what is under the descriptor's key in the clear.    *)
sys_exit_read(task) ==
    /\ kind # "file"
    /\ call[task] # None
    /\ on[task] # None
    /\ entries' = [entries EXCEPT ![PlainId(task)] = None]
    /\ requests' = [requests EXCEPT ![RequestKey(Clear)] = None]
    /\ last' = None
    /\ UNCHANGED <<probing, on, call, written, awaited, unseen>>

(* What is left of an ending call's entry is no longer that of a call.     *)
Left(task, map) ==
    [k \in EntryKeys |-> IF map[k] # None /\ map[k].task = task
                         THEN [map[k] EXCEPT !.live = FALSE] ELSE map[k]]

Lookup(tls) == requests[RequestKey(tls)]
AnyResponse(request) == TRUE
Response(request) == request # None

(* A call returns, with the awaited response or without data.  When the    *)
(* entry is another call's the data is looked for in its buffer.           *)
End(task, id, fires, data) ==
    LET found   == IF fires THEN entries[id] ELSE None
        own     == found # None /\ found.task = task /\ found.live
        looked  == found # None /\ data
        request == Lookup(Tls)
    IN  /\ on[task] # None
        /\ data => awaited # None
        /\ \E recognised \in IF own THEN {TRUE} ELSE BOOLEAN :
              last' = [kept |-> call[task].kept, followed |-> call[task].followed,
                       found |-> found, own |-> own,
                       response |-> IF data THEN awaited ELSE None,
                       paired |-> IF looked /\ recognised /\ Response(request)
                                  THEN <<request>> ELSE <<>>]
        /\ entries' = Left(task, IF found # None THEN [entries EXCEPT ![id] = None] ELSE entries)
        /\ requests' = IF looked THEN [requests EXCEPT ![RequestKey(Tls)] = None] ELSE requests
        /\ call' = [call EXCEPT ![task] = None]
        /\ awaited' = IF data THEN None ELSE awaited
        /\ unseen' = unseen \cup
             IF data /\ ~ (call[task].followed /\ call[task].kept) THEN {awaited.id} ELSE {}
        /\ UNCHANGED <<probing, on, written>>

(* A uretprobe fires for calls that were entered while it was attached.    *)
openssl_SSL_read_exit(task, data) ==
    /\ kind = "openssl"
    /\ call[task] # None
    /\ End(task, OpenSslId(task),
           call[task].uretprobe /\ <<call[task].fn, "exit">> \in attached, data)

(* Probes on the return instructions fire whenever the call was entered.   *)
go_crypto_tls_read_exit(task, place, data) ==
    /\ kind = "go"
    /\ call[task] # None
    /\ End(task, GoId(task), <<"Read", place>> \in attached, data)

trace_exit(task) ==
    /\ kind = "file"
    /\ call[task] # None
    /\ End(task, FileId(task), <<call[task].fn, "exit">> \in attached, FALSE)

Next ==
    \/ Attach \/ AttachFails
    \/ \E probe \in attached : Collect(probe)
    \/ \E task \in Tasks, thread \in Threads \cup {None} : Schedule(task, thread)
    \/ \E task \in Tasks, fn \in Reads \cup Writes, b \in BOOLEAN :
          \/ openssl_SSL_write_enter(task, fn, b)
          \/ openssl_SSL_read_enter(task, fn, b)
          \/ trace_enter(task, fn, b)
    \/ \E task \in Tasks, b \in BOOLEAN :
          \/ go_crypto_tls_write_enter(task, b)
          \/ go_crypto_tls_read_enter(task, b)
          \/ openssl_SSL_read_exit(task, b)
          \/ \E place \in {"exit", "exit2"} : go_crypto_tls_read_exit(task, place, b)
    \/ \E task \in Tasks : sys_exit_read(task) \/ trace_exit(task)

Spec == Init /\ [][Next]_vars

---------------------------------------------------------------------------
(* Properties                                                              *)

(* The variables keep their types: what is reported is always a request.   *)
TypeOK ==
    /\ kind \in Kinds
    /\ todo \in Seq(Probes)
    /\ attached \subseteq Probes
    /\ dropped \in BOOLEAN
    /\ on \in [Tasks -> Threads \cup {None}]
    /\ call \in [Tasks -> Call \cup {None}]
    /\ written \in Ids \cup {0}
    /\ awaited \in Awaited \cup {None}
    /\ unseen \subseteq Ids
    /\ entries \in [EntryKeys -> Entry \cup {None}]
    /\ requests \in [{Clear, Tls} -> Ids \cup {None}]
    /\ last # None => last.paired \in {<<>>} \cup {<<id>> : id \in Ids}

(* Once all probes are attached the return of a call meets the entry of    *)
(* that call, whatever thread it returns on.  Before, it can only be       *)
(* mistaken for another one if it left no entry of its own, and only for   *)
(* one that began before they were all attached.                           *)
CallsMeetTheirReturns ==
    last # None =>
    /\ last.followed /\ last.kept => last.own
    /\ last.found # None /\ ~ last.own => ~ last.kept /\ ~ last.found.followed

(* Reading ciphertext costs no request: a response that a followed call    *)
(* reads is reported if its request was seen.                              *)
ResponsesAreReported ==
    last # None /\ last.response # None /\ last.own /\ last.response.probed =>
    last.paired # <<>>

(* It is reported with its own request, unless an earlier response escaped *)
(* the probes, as all do that are read by calls begun before the last      *)
(* probe was attached: its request is then still in the map.               *)
ReportedWithOwn ==
    last # None /\ last.paired # <<>> /\ last.own =>
    last.paired[1] = last.response.id \/ last.paired[1] \in unseen

=============================================================================
