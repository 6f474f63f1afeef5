------------------------------ MODULE L7Tracer ------------------------------
(***************************************************************************)
(* pkg/ebpftracer/ebpf/l7/l7.c: the probes on write and read calls that    *)
(* pair a request with its response.  trace_enter_write keeps a request in *)
(* active_l7_requests under its process and descriptor (for Cassandra also *)
(* its stream); trace_enter_read remembers which descriptor a thread reads *)
(* from; trace_exit_read looks at the data and takes the request out.      *)
(*                                                                         *)
(* A probe runs on one CPU without being preempted, but trace_exit_read    *)
(* deletes an entry of each map and goes on using it, and probes on other  *)
(* CPUs run in between.  It takes four steps here: it deletes what it was  *)
(* given by trace_enter_read; uses that to look at the data, and copies    *)
(* the request; deletes the request; uses it.  The records are built in a  *)
(* buffer per CPU, and so are the requests.                                *)
(*                                                                         *)
(* All threads are of one process and the programs' traffic is in the      *)
(* clear.  What a payload is taken for is what it is: each descriptor      *)
(* speaks one protocol.                                                    *)
(***************************************************************************)
EXTENDS BpfMaps, Integers, Sequences, FiniteSets

CONSTANTS
    Threads, Cpus, Fds,
    Setups,              \* what the programs do, see below
    Streams,             \* Cassandra's stream ids
    RequestSlots,        \* max_entries of active_l7_requests
    MaxRequests          \* at most so many requests are written in any setup

Paired    == {"plain", "mysql", "postgres", "mongo", "kafka", "cassandra"}
Protocols == Paired \cup {"message", "http2"}

(* A setup says what each descriptor speaks; on which of them the programs *)
(* await the response to a request before they send the next on its stream *)
(* and which are closed with requests outstanding; the max_entries of      *)
(* active_reads; and bounds on the requests and on the read() calls.       *)
ASSUME SetupsAssumption ==
    Setups \subseteq [speaks : [Fds -> Protocols], awaits : SUBSET Fds,
                      reconnects : SUBSET Fds, readSlots : Nat,
                      requests : 0 .. MaxRequests, reads : Nat]
ASSUME StreamsAssumption == -1 \notin Streams
ASSUME RequestsAssumption == MaxRequests \in Nat
ASSUME ThreadsAssumption == IsFiniteSet(Threads)

VARIABLES
    setup,               \* one of Setups, for good
    written,             \* requests written so far; one is known by its index
    opened,              \* how many were when the descriptor's connection began
    begun,               \* read() calls begun so far
    waiting,             \* requests a descriptor awaits the response of
    inRead,              \* descriptor of the read() call a thread is in, or None
    active_reads, active_l7_requests,      \* the maps
    l7_event_heap,       \* the fields a record inherits on its CPU
    l7_request_heap,     \* what the last write on the CPU left of its request
    returning,           \* trace_exit_read after its first step, per CPU, or None
    running,             \* the same between its later steps
    astray,              \* descriptors that other data was ever taken for
    reported,            \* descriptors and requests reported so far
    output               \* record handed to bpf_perf_event_output, or None

world == <<setup, written, begun, opened, waiting, inRead>>
maps  == <<active_reads, active_l7_requests>>
heaps == <<l7_event_heap, l7_request_heap>>
probe == <<returning, running, astray>>
vars  == <<world, maps, heaps, probe, reported, output>>

Speaks     == setup.speaks
Awaits     == setup.awaits
Reconnects == setup.reconnects
ReadSlots  == setup.readSlots

Ids      == 1 .. MaxRequests
Types    == {"query", "prepare", "close"}
Keys_    == Fds \X (Streams \cup {-1})
Request  == [id : Ids, protocol : Paired, request_type : Types, request_id : Ids \cup {0},
             partial : BOOLEAN]
Methods  == {"UNKNOWN", "PRODUCE", "CONSUME", "STATEMENT_PREPARE", "STATEMENT_CLOSE",
             "CLIENT_FRAMES", "SERVER_FRAMES"}

(* A duration is the record's own or was left by an earlier record.        *)
Fields   == [method : Methods, status : BOOLEAN, duration : {"none", "own", "left"}]
NoFields == [method |-> "UNKNOWN", status |-> FALSE, duration |-> "none"]
Record   == [fd : Fds, id : Ids \cup {0}, data : Ids \cup {0}, request_type : Types, fields : Fields]

(* What a read() gave: nothing, the response to a request, the length word *)
(* of a MongoDB message alone, a message, or something else.               *)
Data == [kind : {"error", "response", "word", "message", "frames", "other"}, id : Ids \cup {0}]

(* What trace_exit_read goes on with after its first step: what the read() *)
(* gave, and the descriptors of the calls whose arguments the slot of the  *)
(* deleted entry may hold by now.                                          *)
Read == [thread : Threads, fd : Fds, data : Data, args : SUBSET Fds]

(* Later: the data it looked at, beside the response the read() gave if it *)
(* did, the copy of the request, and every request that the slot it was in *)
(* may hold by now.                                                        *)
Work == [step : {"delete", "use"}, thread : Threads, key : Keys_, data : Data,
         got : Ids \cup {0}, req : Request, slot : (SUBSET Request) \ {{}}]

ASSUME NoneAssumption == None \notin Fds \cup Read \cup Work

Init ==
    /\ setup \in Setups
    /\ written = <<>>
    /\ begun = 0
    /\ opened = [fd \in Fds |-> 0]
    /\ waiting = [fd \in Fds |-> {}]
    /\ inRead = [t \in Threads |-> None]
    /\ active_reads = [t \in Threads |-> None]
    /\ active_l7_requests = [k \in Keys_ |-> None]
    /\ l7_event_heap = [c \in Cpus |-> NoFields]
    /\ l7_request_heap = [c \in Cpus |-> [request_type |-> "query", request_id |-> 0]]
    /\ returning = [c \in Cpus |-> None]
    /\ running = [c \in Cpus |-> None]
    /\ astray = {}
    /\ reported = {}
    /\ output = None

---------------------------------------------------------------------------

Free(cpu) == returning[cpu] = None /\ running[cpu] = None

Left(duration) == IF duration = "own" THEN "left" ELSE duration

(* A record that is about no request, sent at once.  It sets its method    *)
(* and, with HTTP/2's frames, their time in the place of the duration; it  *)
(* keeps the status the fields had, and otherwise the duration.            *)
Immediate(cpu, fd, method, fields) ==
    /\ l7_event_heap' = [l7_event_heap EXCEPT ![cpu] =
         [fields EXCEPT
            !.method = method,
            !.duration = IF method \in {"CLIENT_FRAMES", "SERVER_FRAMES"} THEN "own" ELSE Left(@)]]
    /\ output' = [fd |-> fd, id |-> 0, data |-> 0, request_type |-> "query",
                  fields |-> l7_event_heap'[cpu]]
    /\ UNCHANGED reported

Silent ==
    /\ output' = None
    /\ UNCHANGED reported

(* A stream is never used for two requests at once.                        *)
MaySend(fd, stream) ==
    /\ Len(written) < setup.requests
    /\ stream # -1 <=> Speaks[fd] = "cassandra"
    /\ fd \in Awaits \/ stream # -1 => \A id \in waiting[fd] : written[id].stream # stream

(* To close a statement is taken to need no answer of its own.             *)
Answered(fd, type) == Speaks[fd] \in Paired /\ type # "close"

(* What request_type becomes.  is_postgres_query stores the first byte it  *)
(* sees before it knows whether the payload is Postgres's, for HTTP is not *)
(* asked, and is_mysql_query stores nothing for a query.  With MySQL and   *)
(* MongoDB the byte is the low one of a length, and can be any; a message  *)
(* or HTTP/2's preface can begin with the letter of Postgres's Parse.      *)
RequestTypes(cpu, fd, type) ==
    CASE type # "query" -> {type}
      [] type = "query" /\ Speaks[fd] \in {"mysql", "mongo"} -> Types
      [] type = "query" /\ Speaks[fd] = "plain" -> {type, l7_request_heap[cpu].request_type}
      [] type = "query" /\ Speaks[fd] \in {"message", "http2"} -> {type, "prepare"}
      [] OTHER -> {type}

(* Kafka numbers the requests of a connection.                             *)
Correlation(fd) ==
    1 + Cardinality({id \in opened[fd] + 1 .. Len(written) : written[id].fd = fd})

(* A new entry may take the slot trace_exit_read still uses on another CPU *)
(* once its entry was deleted or evicted.                                  *)
SlotTaken(req) ==
    [c \in Cpus |->
        IF running[c] # None /\ active_l7_requests'[running[c].key] # running[c].req
        THEN [running[c] EXCEPT !.slot = @ \cup {req}] ELSE running[c]]

(* An update with BPF_NOEXIST: a request that is there stays.              *)
Store(key, req) ==
    IF active_l7_requests[key] # None THEN UNCHANGED <<active_l7_requests, running>>
    ELSE /\ active_l7_requests' \in LruUpdates(active_l7_requests, key, req, RequestSlots)
         /\ running' = SlotTaken(req)

(* What the program's request is stored with and told by: Kafka's by its   *)
(* number, a statement's close by its type.                                *)
RequestId(fd) == IF Speaks[fd] = "kafka" THEN Correlation(fd) ELSE 0
Closes(fd, request_type) == Speaks[fd] \in {"mysql", "postgres"} /\ request_type = "close"

trace_enter_write(cpu, fd, type, stream) ==
    /\ Free(cpu)
    /\ type # "query" => Speaks[fd] \in {"mysql", "postgres"}
    /\ MaySend(fd, stream)
    /\ written' = Append(written, [fd |-> fd, stream |-> stream, type |-> type,
                                   correlation |-> Correlation(fd)])
    /\ waiting' = [waiting EXCEPT ![fd] =
                     @ \cup IF Answered(fd, type) THEN {Len(written')} ELSE {}]
    /\ \E request_type \in RequestTypes(cpu, fd, type) :
         /\ l7_request_heap' = [l7_request_heap EXCEPT ![cpu] =
              [request_type |-> request_type, request_id |-> RequestId(fd)]]
         /\ IF Speaks[fd] \in Paired /\ ~ Closes(fd, request_type)
            THEN /\ Store(<<fd, stream>>,
                          [id |-> Len(written'), protocol |-> Speaks[fd],
                           request_type |-> request_type, request_id |-> RequestId(fd),
                           partial |-> FALSE])
                 /\ Silent
                 /\ UNCHANGED l7_event_heap
            ELSE /\ Immediate(cpu, fd, CASE Speaks[fd] = "http2" -> "CLIENT_FRAMES"
                                         [] Speaks[fd] = "message" -> "PRODUCE"
                                         [] OTHER -> "STATEMENT_CLOSE", l7_event_heap[cpu])
                 /\ UNCHANGED <<active_l7_requests, running>>
    /\ UNCHANGED <<setup, begun, opened, inRead, active_reads, returning, astray>>

(* A new entry may also take the slot of one that trace_exit_read has      *)
(* deleted and goes on reading from.                                       *)
ArgsTaken(fd) ==
    [c \in Cpus |-> IF returning[c] # None THEN [returning[c] EXCEPT !.args = @ \cup {fd}]
                    ELSE None]

(* One thread at a time reads from a descriptor.                           *)
trace_enter_read(t, fd) ==
    /\ inRead[t] = None
    /\ begun < setup.reads
    /\ begun' = begun + 1
    /\ \A u \in Threads : inRead[u] # fd
    /\ inRead' = [inRead EXCEPT ![t] = fd]
    /\ active_reads' = HashUpdate(active_reads, t, fd, ReadSlots)
    /\ returning' = IF active_reads' # active_reads THEN ArgsTaken(fd) ELSE returning
    /\ Silent
    /\ UNCHANGED <<setup, written, opened, waiting, active_l7_requests, heaps, running, astray>>

(* A descriptor is closed and its number used for the next connection.     *)
Reconnect(fd) ==
    /\ fd \in Reconnects
    /\ waiting[fd] # {}
    /\ \A t \in Threads : inRead[t] # fd
    /\ opened' = [opened EXCEPT ![fd] = Len(written)]
    /\ waiting' = [waiting EXCEPT ![fd] = {}]
    /\ Silent
    /\ UNCHANGED <<setup, written, begun, inRead, maps, heaps, probe>>

---------------------------------------------------------------------------
(* trace_exit_read                                                         *)

(* What a descriptor may deliver.  Responses come in the order of the      *)
(* requests, Cassandra's in any.                                           *)
Delivers(fd, data) ==
    /\ data.kind = "response" <=> data.id # 0
    /\ data.kind = "response" =>
         /\ data.id \in waiting[fd]
         /\ Speaks[fd] # "cassandra" => \A id \in waiting[fd] : data.id <= id
    /\ data.kind = "word" => Speaks[fd] = "mongo"
    /\ data.kind = "message" => Speaks[fd] = "message"
    /\ data.kind = "frames" => Speaks[fd] = "http2"

Stream(data) == IF data.kind = "response" THEN written[data.id].stream ELSE -1

(* The read is forgotten whether or not it gave anything.                  *)
ForgetReadIfAny(t, data) == IF data.kind = "error" THEN active_reads ELSE MapDelete(active_reads, t)
ForgetRead(t, data) == MapDelete(active_reads, t)

(* Every record of the read side starts afresh, except for its duration.   *)
ResetStatusOnly(fields) == [fields EXCEPT !.status = FALSE, !.duration = Left(@)]
Reset(fields) == [fields EXCEPT !.method = "UNKNOWN", !.status = FALSE, !.duration = Left(@)]

FoundUnchecked(req) == TRUE
Found(req) == req # None

(* The thread goes on, with the response it was given or without one.      *)
Returns(t, id) ==
    /\ inRead' = [inRead EXCEPT ![t] = None]
    /\ waiting' = [waiting EXCEPT ![inRead[t]] = @ \ {id}]
    /\ UNCHANGED <<setup, written, begun, opened>>

Busy(t) == \E c \in Cpus : \/ returning[c] # None /\ returning[c].thread = t
                           \/ running[c] # None /\ running[c].thread = t

(* The first step: the descriptor is copied and the read forgotten.        *)
trace_exit_read(t, cpu, data) ==
    /\ Free(cpu)
    /\ inRead[t] # None /\ ~ Busy(t)
    /\ Delivers(inRead[t], data)
    /\ active_reads' = ForgetRead(t, data)
    /\ IF active_reads[t] = None \/ data.kind = "error"
       THEN Returns(t, data.id) /\ UNCHANGED returning
       ELSE /\ returning' = [returning EXCEPT ![cpu] =
                 [thread |-> t, fd |-> active_reads[t], data |-> data, args |-> {active_reads[t]}]]
            /\ UNCHANGED world
    /\ Silent
    /\ UNCHANGED <<active_l7_requests, heaps, running, astray>>

(* What is in the buffer of a read() from fd: what it is about to deliver, *)
(* or a response that was read before.                                     *)
Holds(fd, data) ==
    \/ Delivers(fd, data)
    \/ /\ data.kind = "response"
       /\ data.id \in (opened[fd] + 1 .. Len(written)) \ waiting[fd]
       /\ written[data.id].fd = fd /\ Answered(fd, written[data.id].type)

(* What the arguments lead to that are in the slot by now.  When they are  *)
(* another call's, only the number of bytes is still that of the read().   *)
Sees(read, fd, data) ==
    IF fd = read.fd THEN data = read.data
    ELSE Holds(fd, data) \/ (data = read.data /\ data.kind = "word")

(* The second step, up to the copy of the request.  The request is looked  *)
(* up without a stream first, for Cassandra's responses then with one.     *)
LookUpRequest(cpu, args, data) ==
    /\ returning[cpu] # None
    /\ args \in returning[cpu].args
    /\ Sees(returning[cpu], args, data)
    /\ returning' = [returning EXCEPT ![cpu] = None]
    /\ astray' = IF args = returning[cpu].fd THEN astray ELSE astray \cup {returning[cpu].fd}
    /\ UNCHANGED <<maps, l7_request_heap>>
    /\ LET fd  == returning[cpu].fd
           got == returning[cpu].data.id
           key == IF active_l7_requests[<<fd, -1>>] # None THEN <<fd, -1>>
                  ELSE <<fd, Stream(data)>>
           req == active_l7_requests[key]
           fresh == Reset(l7_event_heap[cpu])
       IN  IF data.kind \notin {"error", "message"} /\ Found(req)
           THEN /\ UNCHANGED world
                /\ l7_event_heap' = [l7_event_heap EXCEPT ![cpu] = fresh]
                /\ running' = [running EXCEPT ![cpu] =
                     [step |-> "delete", thread |-> returning[cpu].thread, key |-> key,
                      data |-> data, got |-> got, req |-> req, slot |-> {req}]]
                /\ Silent
           ELSE /\ Returns(returning[cpu].thread, got)
                /\ UNCHANGED running
                /\ CASE data.kind = "message" -> Immediate(cpu, fd, "CONSUME", fresh)
                     [] data.kind = "frames" -> Immediate(cpu, fd, "SERVER_FRAMES", fresh)
                     [] data.kind = "error" -> Silent /\ UNCHANGED l7_event_heap
                     [] OTHER -> Silent /\ l7_event_heap' = [l7_event_heap EXCEPT ![cpu] = fresh]

(* The request is gone for everyone but the CPU that goes on using it.     *)
DeleteFrom(cpu, map) ==
    /\ running[cpu] # None
    /\ running[cpu].step = "delete"
    /\ active_l7_requests' = map
    /\ running' = [running EXCEPT ![cpu].step = "use"]
    /\ Silent
    /\ UNCHANGED <<world, active_reads, heaps, returning, astray>>

DeleteNothing(cpu) == DeleteFrom(cpu, active_l7_requests)
DeleteRequest(cpu) == running[cpu] # None /\ DeleteFrom(cpu, MapDelete(active_l7_requests, running[cpu].key))

(* Is the data a response, in the eyes of the protocol's is_*_response?    *)
(* Kafka's compares the number in the slot.                                *)
IsAnyResponse(r, protocol, data) == data.kind = "response"
IsResponse(r, protocol, data) ==
    /\ data.kind = "response"
    /\ Speaks[written[data.id].fd] = protocol
    /\ protocol = "kafka" => r.request_id = written[data.id].correlation

(* MongoDB's request is stored anew from the slot and from what the last   *)
(* write on the CPU left, which may have been of another protocol.         *)
Again(cpu, r) == [id |-> r.id, protocol |-> "mongo", partial |-> TRUE,
                  request_type |-> l7_request_heap[cpu].request_type,
                  request_id |-> l7_request_heap[cpu].request_id]

(* The copy gives protocol and payload, the slot that was freed the rest.  *)
(* A response that is not recognised costs the request.                    *)
UseRequest(cpu) ==
    /\ running[cpu] # None
    /\ running[cpu].step = "use"
    /\ Returns(running[cpu].thread, running[cpu].got)
    /\ UNCHANGED <<active_reads, l7_request_heap, returning, astray>>
    /\ \E r \in running[cpu].slot :
         LET p == running[cpu]
             prepare == p.req.protocol \in {"mysql", "postgres"} /\ r.request_type = "prepare"
             fields  == [l7_event_heap[cpu] EXCEPT
                           !.method = IF prepare THEN "STATEMENT_PREPARE" ELSE @,
                           !.status = TRUE, !.duration = "own"]
         IN  CASE p.req.protocol = "mongo" /\ p.data.kind = "word" /\ ~ r.partial ->
                    /\ active_l7_requests' \in
                         LruUpdates(active_l7_requests, p.key, Again(cpu, r), RequestSlots)
                    /\ running' = [SlotTaken(Again(cpu, r)) EXCEPT ![cpu] = None]
                    /\ Silent
                    /\ UNCHANGED l7_event_heap
               [] IsResponse(r, p.req.protocol, p.data) ->
                    /\ l7_event_heap' = [l7_event_heap EXCEPT ![cpu] = fields]
                    /\ output' = [fd |-> p.key[1], id |-> p.req.id, data |-> p.data.id,
                                  request_type |-> r.request_type, fields |-> fields]
                    /\ reported' = reported \cup {<<p.key[1], p.req.id>>}
                    /\ running' = [running EXCEPT ![cpu] = None]
                    /\ UNCHANGED active_l7_requests
               [] OTHER ->
                    /\ running' = [running EXCEPT ![cpu] = None]
                    /\ Silent
                    /\ UNCHANGED <<active_l7_requests, l7_event_heap>>

Next ==
    \/ \E cpu \in Cpus, fd \in Fds, type \in Types, stream \in Streams \cup {-1} :
          trace_enter_write(cpu, fd, type, stream)
    \/ \E t \in Threads, fd \in Fds : trace_enter_read(t, fd)
    \/ \E fd \in Fds : Reconnect(fd)
    \/ \E t \in Threads, cpu \in Cpus, data \in Data : trace_exit_read(t, cpu, data)
    \/ \E cpu \in Cpus, fd \in Fds, data \in Data : LookUpRequest(cpu, fd, data)
    \/ \E cpu \in Cpus : DeleteRequest(cpu) \/ UseRequest(cpu)

Spec == Init /\ [][Next]_vars

---------------------------------------------------------------------------
(* Properties                                                              *)

(* The variables keep their types: among them, what the maps hold and what *)
(* trace_exit_read works on between its steps is always a whole request.   *)
TypeOK ==
    /\ setup \in Setups
    /\ written \in Seq([fd : Fds, stream : Streams \cup {-1}, type : Types, correlation : Ids])
    /\ begun \in Nat
    /\ opened \in [Fds -> Ids \cup {0}]
    /\ waiting \in [Fds -> SUBSET Ids]
    /\ inRead \in [Threads -> Fds \cup {None}]
    /\ active_reads \in [Threads -> Fds \cup {None}]
    /\ active_l7_requests \in [Keys_ -> Request \cup {None}]
    /\ l7_event_heap \in [Cpus -> Fields]
    /\ l7_request_heap \in [Cpus -> [request_type : Types, request_id : Ids \cup {0}]]
    /\ returning \in [Cpus -> Read \cup {None}]
    /\ running \in [Cpus -> Work \cup {None}]
    /\ astray \subseteq Fds
    /\ reported \subseteq Fds \X Ids
    /\ output \in Record \cup {None}

Matched == output # None /\ output.id # 0

(* trace_exit_read finds under its thread the descriptor of the read()     *)
(* call that is returning, and never that of an earlier call of it.        *)
ReadsAreOwn ==
    \A t \in Threads : active_reads[t] # None => inRead[t] = active_reads[t]

(* Responses that name their request: Cassandra's by the stream, which is  *)
(* in the key, Kafka's by a number, which is read from the slot.  Each     *)
(* connection counts its requests from one, so the slot may hold another   *)
(* connection's request of the same number, or MongoDB's stored anew with  *)
(* the number of Kafka's last request on the CPU.                          *)
Named(fd) ==
    \/ Speaks[fd] = "cassandra"
    \/ Speaks[fd] = "kafka" /\ \A other \in Fds \ {fd} : Speaks[other] \notin {"kafka", "mongo"}

(* A request is reported with the response to it, whatever takes the slot  *)
(* it was in: for all protocols if programs await their responses, and for *)
(* Kafka and Cassandra, whose responses name their request, even if they   *)
(* do not.  It holds as long as every read() of the descriptor was seen    *)
(* for what it was: active_reads has room, and no other call took the slot *)
(* of a read() that was returning; and where no connection is given up     *)
(* with requests outstanding.  MongoDB is left out: when only the length   *)
(* word of a response was read, the request is stored anew from a slot     *)
(* that is free.                                                           *)
OwnResponse ==
    /\ ReadSlots >= Cardinality(Threads)
    /\ Matched
    /\ output.fd \in Awaits \/ Named(output.fd)
    /\ output.fd \notin Reconnects \cup astray
    /\ Speaks[output.fd] # "mongo"
    => output.data = output.id

(* No request is reported twice for a descriptor, whatever programs do and *)
(* whatever happens to the slot it was in.                                 *)
ReportedOnce ==
    [][output' # None => <<output'.fd, output'.id>> \notin reported]_vars

(* What a record takes over from the one built before it in the buffer of  *)
(* its CPU: not that it is a prepared statement's, which it is only if the *)
(* request in the slot is; no status, for a message consumed or HTTP/2     *)
(* frames read; and no duration, for a request and its response, nor a     *)
(* time, for HTTP/2 frames.  A message's duration it does take over.       *)
FreshRecords ==
    output # None =>
    /\ output.fields.method = "STATEMENT_PREPARE" => output.request_type = "prepare"
    /\ output.fields.method \in {"CONSUME", "SERVER_FRAMES"} => ~ output.fields.status
    /\ output.id # 0 \/ output.fields.method \in {"CLIENT_FRAMES", "SERVER_FRAMES"} =>
         output.fields.duration = "own"

(* mysql.c tells a COM_STMT_CLOSE by its command byte, so what is reported *)
(* as STATEMENT_CLOSE is one.                                              *)
OnlyClosesAreCloses ==
    output # None /\ output.fields.method = "STATEMENT_CLOSE" =>
    written[Len(written)].type = "close"

=============================================================================
