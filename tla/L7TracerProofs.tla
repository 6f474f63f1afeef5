--------------------------- MODULE L7TracerProofs ---------------------------
(***************************************************************************)
(* Proofs about L7Tracer, for any threads, CPUs, descriptors and streams,  *)
(* any sizes of the maps and whatever the programs speak.                  *)
(***************************************************************************)
EXTENDS L7Tracer, SequenceTheorems, FiniteSetTheorems, TLAPS

Count == 1 .. Len(written)

(* What has been written, and what is awaited of it.                       *)
WrittenAreSent ==
    /\ Len(written) <= MaxRequests
    /\ \A i \in Count : written[i].stream # -1 <=> Speaks[written[i].fd] = "cassandra"
    /\ \A fd \in Fds : \A id \in waiting[fd] : id \in Count /\ written[id].fd = fd

(* No two threads read from one descriptor.                                *)
OneReader == \A t, u \in Threads : inRead[t] # None /\ inRead[t] = inRead[u] => t = u

(* A request in the map or in a slot is one that was written; MongoDB's    *)
(* may have the number of another.                                         *)
Known(r) ==
    /\ r.id \in Count
    /\ r.protocol # "mongo" =>
         /\ Speaks[written[r.id].fd] = r.protocol
         /\ r.request_id = IF r.protocol = "kafka" THEN written[r.id].correlation ELSE 0
    /\ \E fd \in Fds : Speaks[fd] = r.protocol

(* An entry is of the protocol of its descriptor; only Cassandra's have a  *)
(* stream.                                                                 *)
EntriesAreKeyed ==
    \A k \in Keys_ : active_l7_requests[k] # None =>
        /\ Known(active_l7_requests[k])
        /\ active_l7_requests[k].protocol = Speaks[k[1]]
        /\ active_l7_requests[k].protocol # "mongo" => written[active_l7_requests[k].id].fd = k[1]
        /\ k[2] # -1 <=> Speaks[k[1]] = "cassandra"

(* What trace_exit_read was given belongs to the descriptor that its       *)
(* thread still reads from.                                                *)
ReadIsKeyed(w) ==
    /\ w.fd = inRead[w.thread]
    /\ w.data.kind = "response" => w.data.id \in waiting[w.fd]
    /\ w.data.kind # "response" => w.data.id = 0

ReadsAreKeyed ==
    \A c \in Cpus : returning[c] # None =>
        ReadIsKeyed(returning[c]) /\ active_reads[returning[c].thread] = None

(* So does what it works on later; the data does if the arguments were     *)
(* those of the call.                                                      *)
WorkIsKeyed(w) ==
    /\ w.key[1] = inRead[w.thread]
    /\ w.req.protocol = Speaks[w.key[1]] /\ w.req.id \in Count
    /\ w.got # 0 => w.got \in waiting[w.key[1]]
    /\ w.data.kind = "response" => w.data.id \in Count
    /\ w.data.kind # "response" => w.data.id = 0
    /\ w.key[2] # -1 <=> Speaks[w.key[1]] = "cassandra"
    /\ w.key[1] \notin astray =>
         /\ w.data.id = w.got
         /\ w.data.kind = "response" => w.key[2] = written[w.data.id].stream
    /\ \A r \in w.slot : Known(r)

Afresh(fields) == fields.method = "UNKNOWN" /\ ~ fields.status

WorksAreKeyed ==
    \A c \in Cpus : running[c] # None =>
        /\ WorkIsKeyed(running[c])
        /\ active_reads[running[c].thread] = None
        /\ Afresh(l7_event_heap[c])

(* A thread returns from one read() on one CPU, where nothing else runs.   *)
OneWorker ==
    /\ \A c, d \in Cpus : running[c] # None /\ running[d] # None
                          /\ running[c].thread = running[d].thread => c = d
    /\ \A c, d \in Cpus : returning[c] # None /\ returning[d] # None
                          /\ returning[c].thread = returning[d].thread => c = d
    /\ \A c, d \in Cpus : returning[c] # None /\ running[d] # None =>
                              c # d /\ returning[c].thread # running[d].thread

Base == TypeOK /\ WrittenAreSent /\ OneReader /\ ReadsAreOwn /\ EntriesAreKeyed
        /\ ReadsAreKeyed /\ WorksAreKeyed /\ OneWorker

---------------------------------------------------------------------------
(* Operators.                                                              *)

(* An update of an LRU map always writes the key; another entry is either  *)
(* kept or given up.                                                       *)
LEMMA LruUpdatesLemma ==
    ASSUME NEW K, NEW V, NEW m \in [K -> V \cup {None}],
           NEW k \in K, NEW v \in V, NEW slots,
           NEW u \in LruUpdates(m, k, v, slots)
    PROVE  /\ u \in [K -> V \cup {None}]
           /\ u[k] = v
           /\ \A j \in K \ {k} : u[j] \in {m[j], None}
<1>1. CASE HasRoom(m, k, slots)
  <2>1. u = [m EXCEPT ![k] = v]
    BY <1>1 DEF LruUpdates
  <2> QED
    BY <2>1
<1>2. CASE ~ HasRoom(m, k, slots)
  <2>1. PICK victim \in Keys(m) : u = [MapDelete(m, victim) EXCEPT ![k] = v]
    BY <1>2 DEF LruUpdates
  <2>2. victim \in K
    BY DEF Keys
  <2> QED
    BY <2>1, <2>2 DEF MapDelete
<1> QED
  BY <1>1, <1>2

(* A work goes on, on the same CPU, and req may have taken its slot.       *)
GoesOn(new, old, req) ==
    new # None =>
    /\ old # None
    /\ new.step = old.step /\ new.thread = old.thread /\ new.key = old.key
    /\ new.data = old.data /\ new.got = old.got /\ new.req = old.req
    /\ new.slot \subseteq old.slot \cup {req}

LEMMA SlotTakenLemma ==
    ASSUME TypeOK, NEW req \in Request
    PROVE  /\ SlotTaken(req) \in [Cpus -> Work \cup {None}]
           /\ \A c \in Cpus : GoesOn(SlotTaken(req)[c], running[c], req)
           /\ \A c \in Cpus : running[c] # None => SlotTaken(req)[c] # None
<1> SUFFICES ASSUME NEW c \in Cpus
             PROVE  /\ SlotTaken(req)[c] \in Work \cup {None}
                    /\ running[c] # None => SlotTaken(req)[c] # None
                    /\ GoesOn(SlotTaken(req)[c], running[c], req)
  BY DEF SlotTaken
<1>1. running[c] \in Work \cup {None}
  BY DEF TypeOK
<1>2. CASE running[c] = None
  BY <1>2 DEF SlotTaken, GoesOn
<1>3. CASE running[c] # None /\ SlotTaken(req)[c] = running[c]
  BY <1>1, <1>3 DEF GoesOn
<1>4. CASE running[c] # None /\ SlotTaken(req)[c] = [running[c] EXCEPT !.slot = @ \cup {req}]
  <2>1. running[c] \in Work
    BY <1>1, <1>4
  <2>2. /\ SlotTaken(req)[c].step = running[c].step /\ SlotTaken(req)[c].thread = running[c].thread
        /\ SlotTaken(req)[c].key = running[c].key /\ SlotTaken(req)[c].data = running[c].data
        /\ SlotTaken(req)[c].req = running[c].req /\ SlotTaken(req)[c].got = running[c].got
        /\ SlotTaken(req)[c].slot = running[c].slot \cup {req}
    BY <1>4, <2>1 DEF Work
  <2>3. SlotTaken(req)[c] \in Work
    BY <1>4, <2>1 DEF Work
  <2> QED
    BY <1>4, <2>2, <2>3, NoneAssumption DEF GoesOn
<1> QED
  BY <1>2, <1>3, <1>4 DEF SlotTaken

(* The same for what trace_exit_read was given.                            *)
ReadGoesOn(new, old) ==
    new # None => old # None /\ new.thread = old.thread /\ new.fd = old.fd /\ new.data = old.data

LEMMA ArgsTakenLemma ==
    ASSUME TypeOK, NEW fd \in Fds
    PROVE  /\ ArgsTaken(fd) \in [Cpus -> Read \cup {None}]
           /\ \A c \in Cpus : ReadGoesOn(ArgsTaken(fd)[c], returning[c])
           /\ \A c \in Cpus : returning[c] # None => ArgsTaken(fd)[c] # None
<1> SUFFICES ASSUME NEW c \in Cpus
             PROVE  /\ ArgsTaken(fd)[c] \in Read \cup {None}
                    /\ returning[c] # None => ArgsTaken(fd)[c] # None
                    /\ ReadGoesOn(ArgsTaken(fd)[c], returning[c])
  BY DEF ArgsTaken
<1>1. CASE returning[c] = None
  BY <1>1 DEF ArgsTaken, ReadGoesOn
<1>2. CASE returning[c] # None
  <2>1. returning[c] \in Read /\ ArgsTaken(fd)[c] = [returning[c] EXCEPT !.args = @ \cup {fd}]
    BY <1>2 DEF TypeOK, ArgsTaken
  <2>2. /\ ArgsTaken(fd)[c] \in Read /\ ArgsTaken(fd)[c].thread = returning[c].thread
        /\ ArgsTaken(fd)[c].fd = returning[c].fd /\ ArgsTaken(fd)[c].data = returning[c].data
    BY <2>1 DEF Read
  <2> QED
    BY <1>2, <2>2, NoneAssumption DEF ReadGoesOn
<1> QED
  BY <1>1, <1>2

LEMMA WrittenTypes ==
    ASSUME TypeOK, NEW i \in Count
    PROVE  written[i] \in [fd : Fds, stream : Streams \cup {-1}, type : Types, correlation : Ids]
BY ElementOfSeq DEF TypeOK, Count

(* Types and numbers of what a write leaves.                               *)
LEMMA RequestTypesAreTypes ==
    ASSUME TypeOK, NEW cpu \in Cpus, NEW fd \in Fds, NEW type \in Types
    PROVE  RequestTypes(cpu, fd, type) \subseteq Types
BY DEF RequestTypes, TypeOK, Types

(* A record starts afresh.                                                 *)
LEMMA ResetLemma ==
    ASSUME TypeOK, NEW cpu \in Cpus
    PROVE  Reset(l7_event_heap[cpu]) \in Fields /\ Afresh(Reset(l7_event_heap[cpu]))
<1> DEFINE fields == l7_event_heap[cpu]
<1>1. fields \in Fields
  BY DEF TypeOK
<1>2. Left(fields.duration) \in {"none", "own", "left"}
  BY <1>1 DEF Left, Fields
<1> HIDE DEF fields
<1>3. \A d \in {"none", "own", "left"} :
        LET f == [fields EXCEPT !.method = "UNKNOWN", !.status = FALSE, !.duration = d]
        IN  f \in Fields /\ f.method = "UNKNOWN" /\ ~ f.status
  BY <1>1 DEF Fields, Methods
<1>4. Reset(fields) = [fields EXCEPT !.method = "UNKNOWN", !.status = FALSE,
                                     !.duration = Left(fields.duration)]
  BY <1>1 DEF Reset, Fields
<1> QED
  BY <1>2, <1>3, <1>4 DEF Afresh, fields

(* What Immediate leaves in the buffer and sends.                          *)
LEMMA ImmediateLemma ==
    ASSUME TypeOK, NEW cpu \in Cpus, NEW fd \in Fds, NEW method \in Methods,
           NEW fields \in Fields, Immediate(cpu, fd, method, fields)
    PROVE  /\ l7_event_heap' \in [Cpus -> Fields]
           /\ \A c \in Cpus \ {cpu} : l7_event_heap'[c] = l7_event_heap[c]
           /\ output' \in Record /\ output'.id = 0 /\ reported' = reported
           /\ output'.fields.method = method /\ output'.fields.status = fields.status
           /\ method \in {"CLIENT_FRAMES", "SERVER_FRAMES"} => output'.fields.duration = "own"
<1>1. PICK d : /\ d = IF method \in {"CLIENT_FRAMES", "SERVER_FRAMES"} THEN "own"
                      ELSE Left(fields.duration)
  OBVIOUS
<1> DEFINE f == [fields EXCEPT !.method = method, !.duration = d]
<1>2. d \in {"none", "own", "left"}
  BY <1>1 DEF Left, Fields
<1>3. f \in Fields /\ f.method = method /\ f.status = fields.status /\ f.duration = d
  BY <1>2 DEF Fields
<1>4. l7_event_heap' = [l7_event_heap EXCEPT ![cpu] = f]
  <2>1. f = [fields EXCEPT
               !.method = method,
               !.duration = IF method \in {"CLIENT_FRAMES", "SERVER_FRAMES"} THEN "own" ELSE Left(@)]
    BY <1>1 DEF Fields
  <2> HIDE DEF f
  <2> QED
    BY <2>1 DEF Immediate
<1> HIDE DEF f
<1>5. /\ l7_event_heap' \in [Cpus -> Fields] /\ l7_event_heap'[cpu] = f
      /\ \A c \in Cpus \ {cpu} : l7_event_heap'[c] = l7_event_heap[c]
  BY <1>3, <1>4 DEF TypeOK
<1>6. /\ output' = [fd |-> fd, id |-> 0, data |-> 0, request_type |-> "query", fields |-> f]
      /\ reported' = reported
  BY <1>5 DEF Immediate
<1>7. output' \in Record /\ output'.id = 0 /\ output'.fields = f
  BY <1>3, <1>6 DEF Record, Types
<1> QED
  BY <1>1, <1>3, <1>5, <1>6, <1>7

LEMMA CorrelationIsCount ==
    ASSUME TypeOK, WrittenAreSent, NEW fd \in Fds
    PROVE  Correlation(fd) \in 1 .. Len(written) + 1
<1> DEFINE S == {id \in opened[fd] + 1 .. Len(written) : written[id].fd = fd}
<1>1. Len(written) \in Nat /\ opened[fd] \in Nat
  BY DEF TypeOK, Ids
<1>2. IsFiniteSet(Count) /\ Cardinality(Count) = Len(written)
  <2>1. \A n \in Nat : IsFiniteSet(1 .. n) /\ Cardinality(1 .. n) = n
    <3> TAKE n \in Nat
    <3>1. 1 \in Int /\ n \in Int
      OBVIOUS
    <3> QED
      BY <3>1, FS_Interval
  <2> QED
    BY <1>1, <2>1 DEF Count
<1>3. S \in SUBSET Count
  BY <1>1 DEF Count
<1>4. IsFiniteSet(S) /\ Cardinality(S) <= Len(written)
  BY <1>2, <1>3, FS_Subset
<1>5. Cardinality(S) \in Nat
  BY <1>4, FS_CardinalityType
<1> QED
  BY <1>1, <1>4, <1>5 DEF Correlation

---------------------------------------------------------------------------
(* The steps keep the base.                                                *)

LEMMA InitBase == Init => Base
<1> SUFFICES ASSUME Init
             PROVE  Base
  OBVIOUS
<1> USE DEF Init
<1>1. TypeOK
  BY DEF TypeOK, Fields, NoFields, Methods, Types
<1> QED
  BY <1>1, RequestsAssumption
     DEF Base, WrittenAreSent, OneReader, ReadsAreOwn, EntriesAreKeyed, ReadsAreKeyed,
         WorksAreKeyed, OneWorker, Count

(* What was written once stays known.                                      *)
Grows == /\ UNCHANGED setup /\ Len(written) \in Nat /\ Len(written') \in Nat
         /\ Len(written) <= Len(written')
         /\ \A i \in Count : written'[i] = written[i]

LEMMA KnownStays ==
    ASSUME Grows, NEW r, Known(r)
    PROVE  Known(r)'
<1>1. r.id \in Count' /\ written'[r.id] = written[r.id]
  BY DEF Grows, Known, Count
<1>2. Speaks' = Speaks
  BY DEF Grows, Speaks
<1> QED
  BY <1>1, <1>2 DEF Known

(* A work stays keyed while others write, read and store.                  *)
LEMMA WorkStaysKeyed ==
    ASSUME TypeOK, Grows, astray \subseteq astray',
           NEW old \in Work, NEW new \in Work, NEW req, GoesOn(new, old, req), new # None,
           WorkIsKeyed(old), inRead'[old.thread] = inRead[old.thread],
           old.got \in waiting[old.key[1]] => old.got \in waiting'[old.key[1]],
           req \in old.slot \/ Known(req)'
    PROVE  WorkIsKeyed(new)'
<1>1. /\ new.thread = old.thread /\ new.key = old.key /\ new.data = old.data
      /\ new.got = old.got /\ new.req = old.req /\ new.slot \subseteq old.slot \cup {req}
  BY DEF GoesOn
<1>2. /\ UNCHANGED Speaks /\ Count \subseteq Count' /\ old.key[1] \in Fds
      /\ \A i \in Count : written'[i] = written[i]
  BY DEF Grows, Speaks, TypeOK, Count, Work, Keys_
<1>3. /\ new.key[1] = inRead'[new.thread]
      /\ new.req.protocol = Speaks'[new.key[1]] /\ new.req.id \in Count'
      /\ new.got # 0 => new.got \in waiting'[new.key[1]]
      /\ new.data.kind = "response" => new.data.id \in Count'
      /\ new.data.kind # "response" => new.data.id = 0
      /\ new.key[2] # -1 <=> Speaks'[new.key[1]] = "cassandra"
  BY <1>1, <1>2 DEF WorkIsKeyed
<1>4. new.key[1] \notin astray' =>
         /\ new.data.id = new.got
         /\ new.data.kind = "response" => new.key[2] = written'[new.data.id].stream
  BY <1>1, <1>2 DEF WorkIsKeyed
<1>5. \A r \in new.slot : Known(r)'
  BY <1>1, KnownStays DEF WorkIsKeyed
<1> QED
  BY <1>3, <1>4, <1>5 DEF WorkIsKeyed

(* So does what trace_exit_read was given, and on one CPU for each thread. *)
LEMMA ReadsStayKeyed ==
    ASSUME Base,
           \A c \in Cpus : returning'[c] # None =>
               /\ ReadGoesOn(returning'[c], returning[c])
               /\ inRead'[returning[c].thread] = inRead[returning[c].thread]
               /\ active_reads'[returning[c].thread] = active_reads[returning[c].thread]
               /\ returning[c].data.id \in waiting[returning[c].fd] =>
                     returning[c].data.id \in waiting'[returning[c].fd]
    PROVE  ReadsAreKeyed'
<1> SUFFICES ASSUME NEW c \in Cpus, returning'[c] # None
             PROVE  ReadIsKeyed(returning[c])' /\ active_reads'[returning'[c].thread] = None
  BY DEF ReadsAreKeyed
<1>1. /\ returning[c] # None /\ returning'[c].thread = returning[c].thread
      /\ returning'[c].fd = returning[c].fd /\ returning'[c].data = returning[c].data
  BY DEF ReadGoesOn
<1>2. ReadIsKeyed(returning[c]) /\ active_reads[returning[c].thread] = None
  BY <1>1 DEF Base, ReadsAreKeyed
<1> QED
  BY <1>1, <1>2 DEF ReadIsKeyed

LEMMA OneWorkerStays ==
    ASSUME OneWorker,
           \A c \in Cpus : ReadGoesOn(returning'[c], returning[c]),
           \A c \in Cpus : running'[c] # None =>
               running[c] # None /\ running'[c].thread = running[c].thread
    PROVE  OneWorker'
BY DEF OneWorker, ReadGoesOn

(* What a write adds to what has been written.                             *)
LEMMA WriteAppends ==
    ASSUME Base, NEW cpu \in Cpus, NEW fd \in Fds, NEW type \in Types,
           NEW stream \in Streams \cup {-1}, trace_enter_write(cpu, fd, type, stream)
    PROVE  LET new == Len(written) + 1 IN
           /\ Len(written) \in Nat /\ new \in Ids /\ Len(written') = new
           /\ Count' = Count \cup {new} /\ new \notin Count
           /\ \A i \in Count : written'[i] = written[i]
           /\ written'[new] = [fd |-> fd, stream |-> stream, type |-> type,
                               correlation |-> Correlation(fd)]
           /\ written' \in Seq([fd : Fds, stream : Streams \cup {-1}, type : Types,
                                correlation : Ids])
           /\ Correlation(fd) \in Ids /\ Grows
<1> USE DEF Base
<1> DEFINE record == [fd |-> fd, stream |-> stream, type |-> type, correlation |-> Correlation(fd)]
           Records == [fd : Fds, stream : Streams \cup {-1}, type : Types, correlation : Ids]
<1>1. /\ written \in Seq(Records) /\ Len(written) \in Nat /\ Len(written) < MaxRequests
      /\ written' = Append(written, record)
  <2>1. written \in Seq(Records) /\ setup \in Setups
    BY DEF TypeOK
  <2>2. Len(written) \in Nat
    BY <2>1, LenProperties
  <2>3. setup.requests \in 0 .. MaxRequests
    BY <2>1, SetupsAssumption
  <2>4. Len(written) < setup.requests /\ written' = Append(written, record)
    BY DEF trace_enter_write, MaySend
  <2> QED
    BY <2>1, <2>2, <2>3, <2>4, RequestsAssumption
<1>2. Correlation(fd) \in Ids
  BY <1>1, CorrelationIsCount, RequestsAssumption DEF Ids
<1>3. record \in Records
  BY <1>2
<1> HIDE DEF record, Records
<1>4. /\ written' \in Seq(Records) /\ Len(written') = Len(written) + 1
      /\ \A i \in 1 .. Len(written) : written'[i] = written[i]
      /\ written'[Len(written) + 1] = record
  <2>1. \A q \in Seq(Records), e \in Records :
           /\ Append(q, e) \in Seq(Records) /\ Len(Append(q, e)) = Len(q) + 1
           /\ \A i \in 1 .. Len(q) : Append(q, e)[i] = q[i]
           /\ Append(q, e)[Len(q) + 1] = e
    BY AppendProperties
  <2> QED
    BY <1>1, <1>3, <2>1
<1>5. Len(written) + 1 \in Ids
  BY <1>1, RequestsAssumption DEF Ids
<1>6. Count' = Count \cup {Len(written) + 1} /\ Len(written) + 1 \notin Count
  BY <1>1, <1>4 DEF Count
<1>7. UNCHANGED setup
  BY DEF trace_enter_write
<1> QED
  BY <1>1, <1>2, <1>4, <1>5, <1>6, <1>7 DEF Count, Grows, record, Records

(* What a write does to the map and to the works under way.                *)
LEMMA WriteStores ==
    ASSUME Base, NEW cpu \in Cpus, NEW fd \in Fds, NEW type \in Types,
           NEW stream \in Streams \cup {-1}, trace_enter_write(cpu, fd, type, stream)
    PROVE  /\ l7_request_heap' \in [Cpus -> [request_type : Types, request_id : Ids \cup {0}]]
           /\ \/ UNCHANGED <<active_l7_requests, running>>
              \/ /\ Speaks[fd] \in Paired /\ type # "close"
                 /\ active_l7_requests[<<fd, stream>>] = None
                 /\ UNCHANGED <<l7_event_heap, reported>> /\ output' = None
                 /\ <<fd, stream>> \in Keys_
                 /\ \E req \in Request :
                       /\ req.id = Len(written) + 1 /\ req.protocol = Speaks[fd]
                       /\ req.request_id = RequestId(fd) /\ ~ req.partial
                       /\ active_l7_requests' \in [Keys_ -> Request \cup {None}]
                       /\ active_l7_requests'[<<fd, stream>>] = req
                       /\ \A k \in Keys_ \ {<<fd, stream>>} :
                             active_l7_requests'[k] \in {active_l7_requests[k], None}
                       /\ running' \in [Cpus -> Work \cup {None}]
                       /\ \A c \in Cpus : GoesOn(running'[c], running[c], req)
                       /\ \A c \in Cpus : running[c] # None => running'[c] # None
<1> DEFINE Stored(request_type) ==
             [id |-> Len(written'), protocol |-> Speaks[fd], request_type |-> request_type,
              request_id |-> RequestId(fd), partial |-> FALSE]
<1>1. RequestId(fd) \in Ids \cup {0}
  BY WriteAppends DEF RequestId
<1>2. PICK request_type \in RequestTypes(cpu, fd, type) :
        /\ l7_request_heap' = [l7_request_heap EXCEPT ![cpu] =
             [request_type |-> request_type, request_id |-> RequestId(fd)]]
        /\ \/ UNCHANGED <<active_l7_requests, running>>
           \/ /\ Speaks[fd] \in Paired /\ ~ Closes(fd, request_type)
              /\ Store(<<fd, stream>>, Stored(request_type))
              /\ Silent /\ UNCHANGED l7_event_heap
  BY DEF trace_enter_write
<1>3. request_type \in Types
  BY <1>2, RequestTypesAreTypes DEF Base
<1>4. l7_request_heap' \in [Cpus -> [request_type : Types, request_id : Ids \cup {0}]]
  BY <1>1, <1>2, <1>3 DEF Base, TypeOK
<1>5. CASE UNCHANGED <<active_l7_requests, running>>
  BY <1>4, <1>5
<1>6. CASE ~ UNCHANGED <<active_l7_requests, running>>
  <2> DEFINE req == Stored(request_type)
  <2>1. /\ Speaks[fd] \in Paired /\ ~ Closes(fd, request_type)
        /\ Store(<<fd, stream>>, req) /\ Silent /\ UNCHANGED l7_event_heap
    BY <1>2, <1>6
  <2>2. type # "close"
    <3>1. type # "query" => Speaks[fd] \in {"mysql", "postgres"} /\ request_type = type
      BY <1>2 DEF trace_enter_write, RequestTypes
    <3> QED
      BY <2>1, <3>1 DEF Closes
  <2>3. req \in Request /\ req.id = Len(written) + 1 /\ req.protocol = Speaks[fd]
        /\ req.request_id = RequestId(fd) /\ ~ req.partial
    BY <1>1, <1>3, <2>1, WriteAppends DEF Request
  <2>4. <<fd, stream>> \in Keys_
    BY DEF Keys_
  <2> HIDE DEF req
  <2>5. /\ active_l7_requests[<<fd, stream>>] = None
        /\ active_l7_requests' \in LruUpdates(active_l7_requests, <<fd, stream>>, req, RequestSlots)
        /\ running' = SlotTaken(req)
    BY <1>6, <2>1 DEF Store
  <2>6. active_l7_requests \in [Keys_ -> Request \cup {None}]
    BY DEF Base, TypeOK
  <2>7. /\ active_l7_requests' \in [Keys_ -> Request \cup {None}]
        /\ active_l7_requests'[<<fd, stream>>] = req
        /\ \A k \in Keys_ \ {<<fd, stream>>} :
              active_l7_requests'[k] \in {active_l7_requests[k], None}
    BY <2>3, <2>4, <2>5, <2>6, LruUpdatesLemma
  <2>8. /\ running' \in [Cpus -> Work \cup {None}]
        /\ \A c \in Cpus : GoesOn(running'[c], running[c], req)
        /\ \A c \in Cpus : running[c] # None => running'[c] # None
    BY <2>3, <2>5, SlotTakenLemma DEF Base
  <2> QED
    BY <1>4, <2>1, <2>2, <2>3, <2>4, <2>5, <2>7, <2>8 DEF Silent
<1> QED
  BY <1>5, <1>6

LEMMA WriteKeepsBase ==
    ASSUME Base, NEW cpu \in Cpus, NEW fd \in Fds, NEW type \in Types,
           NEW stream \in Streams \cup {-1}, trace_enter_write(cpu, fd, type, stream)
    PROVE  Base'
<1> DEFINE new == Len(written) + 1
<1>1. /\ Len(written) \in Nat /\ new \in Ids /\ Len(written') = new
      /\ Count' = Count \cup {new} /\ new \notin Count
      /\ \A i \in Count : written'[i] = written[i]
      /\ written'[new] = [fd |-> fd, stream |-> stream, type |-> type,
                          correlation |-> Correlation(fd)]
      /\ written' \in Seq([fd : Fds, stream : Streams \cup {-1}, type : Types,
                           correlation : Ids])
      /\ Grows
  BY WriteAppends
<1> HIDE DEF new
<1>2. /\ Free(cpu)
      /\ stream # -1 <=> Speaks[fd] = "cassandra"
      /\ waiting' = [waiting EXCEPT ![fd] =
                       @ \cup IF Answered(fd, type) THEN {new} ELSE {}]
      /\ UNCHANGED <<setup, begun, opened, inRead, active_reads, returning, astray, Speaks>>
  BY <1>1 DEF trace_enter_write, MaySend, Speaks
<1>3. Speaks' = Speaks
  BY <1>2
<1>4. /\ l7_event_heap' \in [Cpus -> Fields]
      /\ output' \in Record \cup {None} /\ reported' = reported
      /\ \A c \in Cpus \ {cpu} : l7_event_heap'[c] = l7_event_heap[c]
  <2>1. CASE UNCHANGED l7_event_heap /\ Silent
    BY <2>1 DEF Silent, Base, TypeOK
  <2>2. CASE \E method \in {"CLIENT_FRAMES", "PRODUCE", "STATEMENT_CLOSE"} :
               Immediate(cpu, fd, method, l7_event_heap[cpu])
    <3>1. PICK method \in {"CLIENT_FRAMES", "PRODUCE", "STATEMENT_CLOSE"} :
            Immediate(cpu, fd, method, l7_event_heap[cpu])
      BY <2>2
    <3>2. method \in Methods /\ l7_event_heap[cpu] \in Fields
      BY DEF Methods, Base, TypeOK
    <3> QED
      BY <3>1, <3>2, ImmediateLemma DEF Base
  <2> QED
    BY <2>1, <2>2 DEF trace_enter_write
<1>5. \A c \in Cpus : running[c] # None => l7_event_heap'[c] = l7_event_heap[c]
  BY <1>2, <1>4 DEF Free
<1>6. /\ active_l7_requests' \in [Keys_ -> Request \cup {None}]
      /\ running' \in [Cpus -> Work \cup {None}]
      /\ l7_request_heap' \in [Cpus -> [request_type : Types, request_id : Ids \cup {0}]]
  BY WriteStores DEF Base, TypeOK
<1>7. TypeOK'
  <2>1. waiting' \in [Fds -> SUBSET Ids]
    BY <1>1, <1>2 DEF Base, TypeOK
  <2> QED
    BY <1>1, <1>2, <1>4, <1>6, <2>1 DEF Base, TypeOK
<1>8. WrittenAreSent'
  <2>1. new <= MaxRequests
    BY <1>1, RequestsAssumption DEF Ids
  <2>2. \A i \in Count' : written'[i].stream # -1 <=> Speaks'[written'[i].fd] = "cassandra"
    BY <1>1, <1>2, <1>3 DEF Base, WrittenAreSent
  <2>3. \A f \in Fds : \A id \in waiting'[f] : id \in Count' /\ written'[id].fd = f
    <3> SUFFICES ASSUME NEW f \in Fds, NEW id \in waiting'[f]
                 PROVE  id \in Count' /\ written'[id].fd = f
      OBVIOUS
    <3>1. id \in waiting[f] \/ (id = new /\ f = fd)
      BY <1>2 DEF Base, TypeOK
    <3>2. CASE id \in waiting[f]
      BY <1>1, <3>2 DEF Base, WrittenAreSent
    <3>3. CASE id = new /\ f = fd
      BY <1>1, <3>3
    <3> QED
      BY <3>1, <3>2, <3>3
  <2> QED
    BY <1>1, <2>1, <2>2, <2>3 DEF WrittenAreSent
<1>9. OneReader' /\ ReadsAreOwn'
  BY <1>2 DEF Base, OneReader, ReadsAreOwn
<1>10. \A f \in Fds : waiting[f] \subseteq waiting'[f]
  BY <1>2 DEF Base, TypeOK
<1>11. ReadsAreKeyed'
  <2>1. ASSUME NEW c \in Cpus, returning'[c] # None
        PROVE  /\ ReadGoesOn(returning'[c], returning[c])
               /\ returning[c].data.id \in waiting[returning[c].fd] =>
                     returning[c].data.id \in waiting'[returning[c].fd]
    <3>1. returning[c] # None /\ returning[c].fd \in Fds
      BY <1>2, <2>1 DEF Base, TypeOK, Read
    <3> QED
      BY <1>2, <1>10, <3>1 DEF ReadGoesOn
  <2> QED
    BY <1>2, <2>1, ReadsStayKeyed
<1>12. PICK req : /\ Known(req)' \/ UNCHANGED running
                  /\ \A c \in Cpus : GoesOn(running'[c], running[c], req)
                  /\ \A k \in Keys_ : active_l7_requests'[k] # None =>
                        \/ active_l7_requests'[k] = active_l7_requests[k]
                        \/ /\ k = <<fd, stream>> /\ active_l7_requests'[k] = req
                           /\ Known(req)' /\ req.id = new /\ req.protocol = Speaks[fd]
  <2>1. CASE UNCHANGED <<active_l7_requests, running>>
    BY <2>1 DEF GoesOn
  <2>2. CASE ~ UNCHANGED <<active_l7_requests, running>>
    <3>1. PICK req \in Request :
            /\ req.id = new /\ req.protocol = Speaks[fd] /\ req.request_id = RequestId(fd)
            /\ active_l7_requests'[<<fd, stream>>] = req
            /\ \A k \in Keys_ \ {<<fd, stream>>} :
                  active_l7_requests'[k] \in {active_l7_requests[k], None}
            /\ \A c \in Cpus : GoesOn(running'[c], running[c], req)
      BY <2>2, WriteStores DEF new
    <3>2. written'[new].fd = fd /\ written'[new].correlation = Correlation(fd) /\ new \in Count'
      BY <1>1
    <3>3. Known(req)'
      BY <1>3, <3>1, <3>2 DEF Known, RequestId
    <3> QED
      BY <3>1, <3>3
  <2> QED
    BY <2>1, <2>2
<1>13. EntriesAreKeyed'
  <2> SUFFICES ASSUME NEW k \in Keys_, active_l7_requests'[k] # None
               PROVE  /\ Known(active_l7_requests[k])'
                      /\ active_l7_requests'[k].protocol = Speaks'[k[1]]
                      /\ active_l7_requests'[k].protocol # "mongo" =>
                            written'[active_l7_requests'[k].id].fd = k[1]
                      /\ k[2] # -1 <=> Speaks'[k[1]] = "cassandra"
    BY DEF EntriesAreKeyed
  <2>1. CASE active_l7_requests'[k] = active_l7_requests[k]
    <3>1. PICK r : r = active_l7_requests[k]
      OBVIOUS
    <3>2. Known(r) /\ r.id \in Count
      BY <2>1, <3>1 DEF Base, EntriesAreKeyed, Known
    <3>3. Known(r)'
      BY <1>1, <3>2, KnownStays
    <3> QED
      BY <1>1, <1>3, <2>1, <3>1, <3>2, <3>3 DEF Base, EntriesAreKeyed, Known
  <2>2. CASE /\ k = <<fd, stream>> /\ active_l7_requests'[k] = req
             /\ Known(req)' /\ req.id = new /\ req.protocol = Speaks[fd]
    <3>1. k[1] = fd /\ k[2] = stream
      BY <2>2
    <3> QED
      BY <1>1, <1>2, <1>3, <2>2, <3>1 DEF Known
  <2> QED
    BY <1>12, <2>1, <2>2
<1>14. WorksAreKeyed'
  <2>1. ASSUME NEW c \in Cpus, running'[c] # None
        PROVE  WorkIsKeyed(running[c])' /\ active_reads'[running'[c].thread] = None
               /\ Afresh(l7_event_heap[c])'
    <3>1. /\ running[c] # None /\ running[c] \in Work /\ running'[c] \in Work
          /\ running'[c].thread = running[c].thread
          /\ WorkIsKeyed(running[c]) /\ active_reads[running[c].thread] = None
          /\ Afresh(l7_event_heap[c])
      BY <1>6, <1>12, <2>1 DEF GoesOn, Base, TypeOK, WorksAreKeyed
    <3>2. PICK v \in Work : v = running[c]
      BY <3>1
    <3>3. PICK w \in Work : w = running'[c]
      BY <3>1
    <3>4. v.key[1] \in Fds
      BY DEF Work, Keys_
    <3>5. PICK r : GoesOn(w, v, r) /\ (r \in v.slot \/ Known(r)')
      <4>1. CASE Known(req)'
        BY <1>12, <3>2, <3>3, <4>1
      <4>2. CASE UNCHANGED running
        <5>1. w = v /\ v # None
          BY <2>1, <3>2, <3>3, <4>2
        <5>2. PICK r : r \in v.slot
          BY DEF Work
        <5> QED
          BY <5>1, <5>2 DEF GoesOn
      <4> QED
        BY <1>12, <4>1, <4>2
    <3>6. WorkIsKeyed(w)'
      BY <1>1, <1>2, <1>10, <2>1, <3>1, <3>2, <3>3, <3>4, <3>5, WorkStaysKeyed DEF Base
    <3> QED
      BY <1>2, <1>5, <3>1, <3>3, <3>6 DEF WorkIsKeyed, Afresh
  <2> QED
    BY <2>1 DEF WorksAreKeyed
<1>15. OneWorker'
  BY <1>2, <1>12, OneWorkerStays DEF Base, ReadGoesOn, GoesOn
<1> QED
  BY <1>7, <1>8, <1>9, <1>11, <1>13, <1>14, <1>15 DEF Base

(* The same for all works of a step that writes nothing: they go on or     *)
(* end, and a request that has taken a slot is one that was written.       *)
Stays(c) ==
    /\ inRead'[running[c].thread] = inRead[running[c].thread]
    /\ active_reads'[running[c].thread] = active_reads[running[c].thread]
    /\ running[c].got \in waiting[running[c].key[1]] =>
          running[c].got \in waiting'[running[c].key[1]]
    /\ l7_event_heap'[c] = l7_event_heap[c]

LEMMA GrowsNot ==
    ASSUME TypeOK, UNCHANGED <<setup, written>>
    PROVE  Grows
BY LenProperties DEF TypeOK, Grows

LEMMA WorkStays ==
    ASSUME Base, UNCHANGED <<setup, written>>, astray \subseteq astray',
           running' \in [Cpus -> Work \cup {None}], NEW req,
           NEW c \in Cpus, running'[c] # None, Stays(c), GoesOn(running'[c], running[c], req),
           running'[c] = running[c] \/ Known(req)
    PROVE  /\ WorkIsKeyed(running[c])'
           /\ active_reads'[running'[c].thread] = None
           /\ Afresh(l7_event_heap[c])'
<1>1. /\ running[c] # None /\ running[c] \in Work /\ running'[c] \in Work
      /\ WorkIsKeyed(running[c]) /\ Afresh(l7_event_heap[c])
      /\ active_reads[running[c].thread] = None /\ running'[c].thread = running[c].thread
  BY DEF GoesOn, Base, TypeOK, WorksAreKeyed
<1>2. PICK v \in Work : v = running[c]
  BY <1>1
<1>3. PICK w \in Work : w = running'[c]
  BY <1>1
<1>4. Grows
  BY GrowsNot DEF Base
<1>5. /\ w # None /\ WorkIsKeyed(v) /\ inRead'[v.thread] = inRead[v.thread]
      /\ v.got \in waiting[v.key[1]] => v.got \in waiting'[v.key[1]]
  BY <1>1, <1>2, <1>3 DEF Stays
<1>6. PICK r : GoesOn(w, v, r) /\ (r \in v.slot \/ Known(r)')
  <2>1. CASE running'[c] = running[c]
    <3>1. PICK r : r \in v.slot
      BY DEF Work
    <3>2. GoesOn(w, v, r)
      BY <1>1, <1>2, <1>3, <2>1, <3>1 DEF GoesOn
    <3> QED
      BY <3>1, <3>2
  <2>2. CASE Known(req)
    BY <1>2, <1>3, <1>4, <2>2, KnownStays
  <2> QED
    BY <2>1, <2>2
<1>7. WorkIsKeyed(w)'
  BY <1>4, <1>5, <1>6, WorkStaysKeyed DEF Base
<1> QED
  BY <1>1, <1>3, <1>7 DEF WorkIsKeyed, Stays, Afresh

LEMMA WorksStayKeyed ==
    ASSUME Base, UNCHANGED <<setup, written>>, astray \subseteq astray',
           running' \in [Cpus -> Work \cup {None}], NEW req,
           \A c \in Cpus : running'[c] # None => Stays(c) /\ GoesOn(running'[c], running[c], req),
           UNCHANGED running \/ Known(req)
    PROVE  WorksAreKeyed'
<1>1. ASSUME NEW c \in Cpus, running'[c] # None
      PROVE  /\ WorkIsKeyed(running[c])'
             /\ active_reads'[running'[c].thread] = None
             /\ Afresh(l7_event_heap[c])'
  BY <1>1, WorkStays
<1> QED
  BY <1>1 DEF WorksAreKeyed

(* Entries stay keyed where requests are only taken out.                   *)
LEMMA EntriesStayKeyed ==
    ASSUME Base, UNCHANGED <<setup, written>>,
           \A k \in Keys_ : active_l7_requests'[k] \in {active_l7_requests[k], None}
    PROVE  EntriesAreKeyed'
<1> SUFFICES ASSUME NEW k \in Keys_, active_l7_requests'[k] # None
             PROVE  /\ Known(active_l7_requests[k])'
                    /\ active_l7_requests'[k].protocol = Speaks'[k[1]]
                    /\ active_l7_requests'[k].protocol # "mongo" =>
                          written'[active_l7_requests'[k].id].fd = k[1]
                    /\ k[2] # -1 <=> Speaks'[k[1]] = "cassandra"
  BY DEF EntriesAreKeyed
<1>1. active_l7_requests'[k] = active_l7_requests[k] /\ Speaks' = Speaks
  BY DEF Speaks
<1>2. PICK r : r = active_l7_requests[k]
  OBVIOUS
<1>3. Known(r)'
  BY <1>1, <1>2, GrowsNot, KnownStays DEF Base, EntriesAreKeyed
<1> QED
  BY <1>1, <1>2, <1>3 DEF Base, EntriesAreKeyed

LEMMA EnterReadKeepsBase ==
    ASSUME Base, NEW t \in Threads, NEW fd \in Fds, trace_enter_read(t, fd)
    PROVE  Base'
<1> USE DEF trace_enter_read
<1>1. /\ active_reads' \in [Threads -> Fds \cup {None}]
      /\ active_reads'[t] \in {active_reads[t], fd}
      /\ \A u \in Threads \ {t} : active_reads'[u] = active_reads[u]
  <2>1. active_reads \in [Threads -> Fds \cup {None}]
    BY DEF Base, TypeOK
  <2> QED
    BY <2>1 DEF HashUpdate
<1>2. /\ returning' \in [Cpus -> Read \cup {None}]
      /\ \A c \in Cpus : ReadGoesOn(returning'[c], returning[c])
  BY ArgsTakenLemma DEF Base, TypeOK, ReadGoesOn
<1>3. TypeOK'
  <2>1. inRead' \in [Threads -> Fds \cup {None}] /\ begun' \in Nat
    BY DEF Base, TypeOK
  <2> QED
    BY <1>1, <1>2, <2>1 DEF Base, TypeOK, Silent, heaps
<1>4. WrittenAreSent' /\ EntriesAreKeyed'
  BY EntriesStayKeyed DEF Base, WrittenAreSent, Count, Speaks
<1>5. OneReader'
  BY DEF Base, OneReader, TypeOK
<1>6. ReadsAreOwn'
  <2>1. active_reads[t] = None
    BY NoneAssumption DEF Base, ReadsAreOwn, TypeOK
  <2> QED
    BY <1>1, <2>1 DEF Base, ReadsAreOwn, TypeOK
<1>7. \A u \in Threads \ {t} : inRead'[u] = inRead[u] /\ active_reads'[u] = active_reads[u]
  BY <1>1 DEF Base, TypeOK
<1>8. ReadsAreKeyed'
  <2>1. ASSUME NEW c \in Cpus, returning'[c] # None
        PROVE  /\ inRead'[returning[c].thread] = inRead[returning[c].thread]
               /\ active_reads'[returning[c].thread] = active_reads[returning[c].thread]
    <3>1. returning[c] \in Read /\ ReadIsKeyed(returning[c])
      BY <1>2, <2>1 DEF ReadGoesOn, Base, TypeOK, ReadsAreKeyed
    <3>2. returning[c].thread # t /\ returning[c].thread \in Threads
      BY <3>1, NoneAssumption DEF ReadIsKeyed, Read
    <3> QED
      BY <1>7, <3>2
  <2> QED
    BY <1>2, <2>1, ReadsStayKeyed
<1>9. ASSUME NEW c \in Cpus, running'[c] # None
      PROVE  Stays(c) /\ GoesOn(running'[c], running[c], None)
  <2>1. running[c] \in Work /\ WorkIsKeyed(running[c])
    BY <1>9 DEF Base, TypeOK, WorksAreKeyed
  <2>2. running[c].thread # t /\ running[c].thread \in Threads
    BY <2>1, NoneAssumption DEF WorkIsKeyed, Work, Keys_
  <2> QED
    BY <1>7, <2>2, <1>9 DEF Stays, GoesOn, heaps
<1>10. WorksAreKeyed'
  BY <1>3, <1>9, WorksStayKeyed DEF TypeOK
<1>11. OneWorker'
  BY <1>2, OneWorkerStays DEF Base
<1> QED
  BY <1>3, <1>4, <1>5, <1>6, <1>8, <1>10, <1>11 DEF Base

LEMMA ReconnectKeepsBase ==
    ASSUME Base, NEW fd \in Fds, Reconnect(fd)
    PROVE  Base'
<1> USE DEF Reconnect, maps, heaps, probe
<1>1. Len(written) \in Ids \cup {0}
  BY LenProperties, RequestsAssumption DEF Base, TypeOK, WrittenAreSent, Ids
<1>2. TypeOK'
  BY <1>1 DEF Base, TypeOK, Silent
<1>3. WrittenAreSent' /\ EntriesAreKeyed'
  BY EntriesStayKeyed DEF Base, WrittenAreSent, Count, Speaks, TypeOK
<1>4. OneReader' /\ ReadsAreOwn'
  BY DEF Base, OneReader, ReadsAreOwn
<1>5. ASSUME NEW c \in Cpus, running'[c] # None
      PROVE  Stays(c) /\ GoesOn(running'[c], running[c], None)
  <2>1. running[c] \in Work /\ WorkIsKeyed(running[c])
    BY <1>5 DEF Base, TypeOK, WorksAreKeyed
  <2>2. running[c].key[1] # fd /\ running[c].key[1] \in Fds
    BY <2>1 DEF WorkIsKeyed, Work, Keys_
  <2> QED
    BY <2>2, <1>5 DEF Stays, GoesOn, Base, TypeOK
<1>6. WorksAreKeyed'
  BY <1>2, <1>5, WorksStayKeyed DEF TypeOK
<1>7. ASSUME NEW c \in Cpus, returning'[c] # None
      PROVE  waiting'[returning[c].fd] = waiting[returning[c].fd]
  <2>1. returning[c] \in Read /\ ReadIsKeyed(returning[c])
    BY <1>7 DEF Base, TypeOK, ReadsAreKeyed
  <2>2. returning[c].fd # fd /\ returning[c].fd \in Fds
    BY <2>1 DEF ReadIsKeyed, Read
  <2> QED
    BY <2>2 DEF Base, TypeOK
<1>8. ReadsAreKeyed' /\ OneWorker'
  BY <1>7, ReadsStayKeyed, OneWorkerStays DEF Base, ReadGoesOn
<1> QED
  BY <1>2, <1>3, <1>4, <1>6, <1>8 DEF Base

(* Another thread than the one that returns stays in its read().           *)
LEMMA ReturnsLeaves ==
    ASSUME Base, NEW t \in Threads, inRead[t] # None, NEW id, Returns(t, id),
           NEW u \in Threads \ {t}
    PROVE  /\ inRead'[u] = inRead[u]
           /\ inRead[u] # None => /\ inRead[u] # inRead[t]
                                  /\ waiting'[inRead[u]] = waiting[inRead[u]]
<1>1. inRead[u] # None => inRead[u] # inRead[t] /\ inRead[u] \in Fds
  BY DEF Base, OneReader, TypeOK
<1> QED
  BY <1>1 DEF Returns, Base, TypeOK

LEMMA ReturnsTypes ==
    ASSUME Base, NEW t \in Threads, inRead[t] # None, NEW id \in Ids \cup {0}, Returns(t, id),
           active_reads' = MapDelete(active_reads, t)
    PROVE  /\ inRead' \in [Threads -> Fds \cup {None}]
           /\ waiting' \in [Fds -> SUBSET Ids]
           /\ UNCHANGED <<setup, written, begun, opened>>
           /\ WrittenAreSent' /\ OneReader' /\ ReadsAreOwn'
<1>1. inRead' \in [Threads -> Fds \cup {None}] /\ waiting' \in [Fds -> SUBSET Ids]
  BY DEF Base, TypeOK, Returns
<1>2. WrittenAreSent'
  BY DEF Base, TypeOK, WrittenAreSent, Returns, Speaks, Count
<1>3. OneReader' /\ ReadsAreOwn'
  BY DEF Base, TypeOK, OneReader, ReadsAreOwn, Returns, MapDelete
<1> QED
  BY <1>1, <1>2, <1>3 DEF Returns

(* When a thread returns, what other threads' returns are about stays.     *)
LEMMA ReturnsStay ==
    ASSUME Base, NEW t \in Threads, inRead[t] # None, NEW id, Returns(t, id),
           active_reads' = MapDelete(active_reads, t), NEW c \in Cpus
    PROVE  /\ returning[c] # None /\ returning[c].thread # t =>
                /\ inRead'[returning[c].thread] = inRead[returning[c].thread]
                /\ active_reads'[returning[c].thread] = active_reads[returning[c].thread]
                /\ waiting'[returning[c].fd] = waiting[returning[c].fd]
           /\ running[c] # None /\ running[c].thread # t =>
                /\ inRead'[running[c].thread] = inRead[running[c].thread]
                /\ active_reads'[running[c].thread] = active_reads[running[c].thread]
                /\ waiting'[running[c].key[1]] = waiting[running[c].key[1]]
<1>1. \A u \in Threads \ {t} : active_reads'[u] = active_reads[u]
  BY DEF MapDelete, Base, TypeOK
<1>2. ASSUME returning[c] # None, returning[c].thread # t
      PROVE  /\ inRead'[returning[c].thread] = inRead[returning[c].thread]
             /\ active_reads'[returning[c].thread] = active_reads[returning[c].thread]
             /\ waiting'[returning[c].fd] = waiting[returning[c].fd]
  <2>1. /\ returning[c].thread \in Threads /\ returning[c].fd \in Fds
        /\ returning[c].fd = inRead[returning[c].thread]
    BY <1>2 DEF Base, TypeOK, ReadsAreKeyed, ReadIsKeyed, Read
  <2> QED
    BY <1>1, <1>2, <2>1, NoneAssumption, ReturnsLeaves
<1>3. ASSUME running[c] # None, running[c].thread # t
      PROVE  /\ inRead'[running[c].thread] = inRead[running[c].thread]
             /\ active_reads'[running[c].thread] = active_reads[running[c].thread]
             /\ waiting'[running[c].key[1]] = waiting[running[c].key[1]]
  <2>1. /\ running[c].thread \in Threads /\ running[c].key[1] \in Fds
        /\ running[c].key[1] = inRead[running[c].thread]
    BY <1>3 DEF Base, TypeOK, WorksAreKeyed, WorkIsKeyed, Work, Keys_
  <2> QED
    BY <1>1, <1>3, <2>1, NoneAssumption, ReturnsLeaves
<1> QED
  BY <1>2, <1>3

(* What the first step of trace_exit_read comes to.                        *)
LEMMA ExitReadCases ==
    ASSUME Base, NEW t \in Threads, NEW cpu \in Cpus, NEW data \in Data,
           trace_exit_read(t, cpu, data)
    PROVE  /\ Free(cpu) /\ ~ Busy(t)
           /\ inRead[t] \in Fds /\ inRead[t] # None /\ Delivers(inRead[t], data)
           /\ data.id \in Ids \cup {0}
           /\ active_reads' = MapDelete(active_reads, t)
           /\ UNCHANGED <<active_l7_requests, heaps, running, astray, reported>> /\ output' = None
           /\ \/ /\ active_reads[t] = None \/ data.kind = "error"
                 /\ Returns(t, data.id) /\ UNCHANGED returning
              \/ /\ data.kind # "error"
                 /\ UNCHANGED world
                 /\ \E read \in Read :
                       /\ read.thread = t /\ read.fd = inRead[t] /\ read.data = data
                       /\ returning' = [returning EXCEPT ![cpu] = read]
<1>1. inRead[t] \in Fds /\ inRead[t] # None
  BY DEF trace_exit_read, Base, TypeOK
<1>2. active_reads[t] # None => active_reads[t] = inRead[t]
  BY DEF Base, ReadsAreOwn
<1>3. data.id \in Ids \cup {0}
  BY DEF Data
<1>4. LET read == [thread |-> t, fd |-> inRead[t], data |-> data, args |-> {inRead[t]}]
      IN  read \in Read /\ read.thread = t /\ read.fd = inRead[t] /\ read.data = data
  BY <1>1 DEF Read
<1> QED
  BY <1>1, <1>2, <1>3, <1>4 DEF trace_exit_read, ForgetRead, Silent

LEMMA ExitReadKeepsBase ==
    ASSUME Base, NEW t \in Threads, NEW cpu \in Cpus, NEW data \in Data,
           trace_exit_read(t, cpu, data)
    PROVE  Base'
<1>1. /\ Free(cpu) /\ ~ Busy(t)
      /\ inRead[t] \in Fds /\ inRead[t] # None /\ Delivers(inRead[t], data)
      /\ data.id \in Ids \cup {0}
      /\ active_reads' = MapDelete(active_reads, t)
      /\ UNCHANGED <<active_l7_requests, heaps, running, astray, reported>> /\ output' = None
  BY ExitReadCases
<1>2. /\ active_reads' \in [Threads -> Fds \cup {None}] /\ active_reads'[t] = None
      /\ \A u \in Threads \ {t} : active_reads'[u] = active_reads[u]
  BY <1>1 DEF MapDelete, Base, TypeOK
<1>3. UNCHANGED <<l7_event_heap, l7_request_heap, running, astray, active_l7_requests>>
  BY <1>1 DEF heaps
<1>4. \A c \in Cpus : /\ returning[c] # None => returning[c].thread # t
                      /\ running[c] # None => running[c].thread # t
  BY <1>1 DEF Busy
<1>5. CASE Returns(t, data.id) /\ UNCHANGED returning
  <2>1. /\ inRead' \in [Threads -> Fds \cup {None}]
        /\ waiting' \in [Fds -> SUBSET Ids]
        /\ UNCHANGED <<setup, written, begun, opened>>
        /\ WrittenAreSent' /\ OneReader' /\ ReadsAreOwn'
    BY <1>1, <1>5, ReturnsTypes
  <2>2. TypeOK'
    BY <1>1, <1>2, <1>3, <1>5, <2>1 DEF Base, TypeOK
  <2>3. EntriesAreKeyed'
    BY <1>3, <2>1, EntriesStayKeyed
  <2>4. ASSUME NEW c \in Cpus, running'[c] # None
        PROVE  Stays(c) /\ GoesOn(running'[c], running[c], None)
    BY <1>1, <1>3, <1>4, <1>5, <2>4, ReturnsStay DEF Stays, GoesOn
  <2>5. WorksAreKeyed'
    BY <1>3, <2>1, <2>2, <2>4, WorksStayKeyed DEF TypeOK
  <2>6. ReadsAreKeyed'
    BY <1>1, <1>4, <1>5, ReturnsStay, ReadsStayKeyed DEF ReadGoesOn
  <2>7. OneWorker'
    BY <1>3, <1>5, OneWorkerStays DEF Base, ReadGoesOn
  <2> QED
    BY <2>1, <2>2, <2>3, <2>5, <2>6, <2>7 DEF Base
<1>6. ASSUME UNCHANGED world, NEW read \in Read,
             read.thread = t, read.fd = inRead[t], read.data = data,
             returning' = [returning EXCEPT ![cpu] = read]
      PROVE  Base'
  <2>1. UNCHANGED <<setup, written, begun, opened, waiting, inRead>>
    BY <1>6 DEF world
  <2>2. /\ returning' \in [Cpus -> Read \cup {None}] /\ returning'[cpu] = read
        /\ \A c \in Cpus \ {cpu} : returning'[c] = returning[c]
    BY <1>6 DEF Base, TypeOK
  <2>3. TypeOK'
    BY <1>1, <1>2, <1>3, <2>1, <2>2 DEF Base, TypeOK
  <2>4. WrittenAreSent' /\ OneReader'
    BY <2>1 DEF Base, WrittenAreSent, OneReader, Count, Speaks
  <2>5. ReadsAreOwn'
    BY <1>2, <2>1 DEF Base, ReadsAreOwn
  <2>6. EntriesAreKeyed'
    BY <1>3, <2>1, EntriesStayKeyed
  <2>7. ASSUME NEW c \in Cpus, running'[c] # None
        PROVE  Stays(c) /\ GoesOn(running'[c], running[c], None)
    <3>1. running[c].thread \in Threads \ {t}
      BY <1>3, <1>4, <2>7 DEF Base, TypeOK, Work
    <3> QED
      BY <1>2, <1>3, <2>1, <2>7, <3>1 DEF Stays, GoesOn
  <2>8. WorksAreKeyed'
    BY <1>3, <2>1, <2>3, <2>7, WorksStayKeyed DEF TypeOK
  <2>9. ReadIsKeyed(read)
    BY <1>1, <1>6 DEF ReadIsKeyed, Delivers
  <2>10. ReadsAreKeyed'
    <3> SUFFICES ASSUME NEW c \in Cpus, returning'[c] # None
                 PROVE  ReadIsKeyed(returning[c])' /\ active_reads'[returning'[c].thread] = None
      BY DEF ReadsAreKeyed
    <3>1. CASE c = cpu
      BY <1>2, <1>6, <2>1, <2>2, <2>9, <3>1 DEF ReadIsKeyed
    <3>2. CASE c # cpu
      <4>1. /\ returning'[c] = returning[c] /\ returning[c].thread \in Threads \ {t}
            /\ ReadIsKeyed(returning[c]) /\ active_reads[returning[c].thread] = None
        BY <1>4, <2>2, <3>2 DEF Base, TypeOK, Read, ReadsAreKeyed
      <4> QED
        BY <1>2, <2>1, <4>1 DEF ReadIsKeyed
    <3> QED
      BY <3>1, <3>2
  <2>11. OneWorker'
    BY <1>1, <1>3, <1>4, <1>6, <2>2 DEF Base, OneWorker, Free
  <2> QED
    BY <2>3, <2>4, <2>5, <2>6, <2>8, <2>10, <2>11 DEF Base
<1> QED
  BY <1>5, <1>6, ExitReadCases

(* The key under which trace_exit_read looks for a request.                *)
LookUpKey(fd, data) ==
    IF active_l7_requests[<<fd, -1>>] # None THEN <<fd, -1>> ELSE <<fd, Stream(data)>>

(* What the second step comes to.                                          *)
LEMMA LookUpCases ==
    ASSUME Base, NEW cpu \in Cpus, NEW args \in Fds, NEW data \in Data,
           LookUpRequest(cpu, args, data)
    PROVE  LET p   == returning[cpu]
               fd  == p.fd
               key == LookUpKey(fd, data)
               fresh == Reset(l7_event_heap[cpu]) IN
           /\ p # None /\ p \in Read /\ fd \in Fds /\ p.thread \in Threads
           /\ ReadIsKeyed(p) /\ active_reads[p.thread] = None /\ running[cpu] = None
           /\ p.data.id \in Ids \cup {0} /\ inRead[p.thread] = fd /\ fd # None
           /\ returning' = [returning EXCEPT ![cpu] = None]
           /\ astray \subseteq astray' /\ astray' \subseteq Fds
           /\ fd \notin astray' => data = p.data
           /\ data.kind = "response" => data.id \in Count
           /\ data.kind # "response" => data.id = 0
           /\ Stream(data) \in Streams \cup {-1} /\ key \in Keys_ /\ key[1] = fd
           /\ UNCHANGED <<active_reads, active_l7_requests, l7_request_heap>>
           /\ \/ /\ Returns(p.thread, p.data.id) /\ UNCHANGED running /\ reported' = reported
                 /\ \/ data.kind = "error" /\ Silent /\ UNCHANGED l7_event_heap
                    \/ /\ data.kind \in {"message", "frames"}
                       /\ \E method \in {"CONSUME", "SERVER_FRAMES"} :
                             Immediate(cpu, fd, method, fresh)
                    \/ /\ data.kind \notin {"error", "message"}
                       /\ active_l7_requests[key] = None
                       /\ Silent
                       /\ l7_event_heap' = [l7_event_heap EXCEPT ![cpu] = fresh]
              \/ /\ UNCHANGED world /\ Silent
                 /\ active_l7_requests[key] # None
                 /\ l7_event_heap' = [l7_event_heap EXCEPT ![cpu] = fresh]
                 /\ \E w \in Work :
                       /\ w.step = "delete" /\ w.thread = p.thread /\ w.key = key
                       /\ w.data = data /\ w.got = p.data.id
                       /\ w.req = active_l7_requests[key] /\ w.slot = {active_l7_requests[key]}
                       /\ running' = [running EXCEPT ![cpu] = w]
<1> DEFINE p   == returning[cpu]
           fd  == p.fd
           key == LookUpKey(fd, data)
           fresh == Reset(l7_event_heap[cpu])
<1>1. /\ p # None /\ p \in Read /\ fd \in Fds /\ p.thread \in Threads /\ p.data \in Data
      /\ ReadIsKeyed(p) /\ active_reads[p.thread] = None /\ running[cpu] = None
      /\ p.data.id \in Ids \cup {0} /\ inRead[p.thread] = fd /\ fd # None
  <2>1. p # None
    BY DEF LookUpRequest
  <2>2. p \in Read
    BY <2>1 DEF Base, TypeOK
  <2>3. ReadIsKeyed(p) /\ active_reads[p.thread] = None /\ running[cpu] = None
    BY <2>1 DEF Base, ReadsAreKeyed, OneWorker
  <2> QED
    BY <2>1, <2>2, <2>3, NoneAssumption DEF Read, Data, ReadIsKeyed
<1>2. /\ returning' = [returning EXCEPT ![cpu] = None]
      /\ astray \subseteq astray' /\ astray' \subseteq Fds
      /\ fd \notin astray' => data = p.data
      /\ UNCHANGED <<active_reads, active_l7_requests, l7_request_heap>>
  BY <1>1 DEF LookUpRequest, Sees, Base, TypeOK, maps
<1>3. data.kind = "response" => data.id \in Count
  <2>1. \A f \in Fds : waiting[f] \subseteq Count
    BY DEF Base, WrittenAreSent
  <2>2. CASE data = p.data
    BY <1>1, <2>1, <2>2 DEF ReadIsKeyed
  <2>3. CASE Delivers(args, data)
    BY <2>1, <2>3 DEF Delivers
  <2>4. CASE data.id \in opened[args] + 1 .. Len(written)
    BY <2>4 DEF Count, Base, TypeOK, Ids
  <2> QED
    BY <2>2, <2>3, <2>4 DEF LookUpRequest, Sees, Holds
<1>4. data.kind # "response" => data.id = 0
  <2>1. CASE data = p.data
    BY <1>1, <2>1 DEF ReadIsKeyed
  <2> QED
    BY <2>1 DEF LookUpRequest, Sees, Holds, Delivers
<1>5. Stream(data) \in Streams \cup {-1}
  BY <1>3, WrittenTypes DEF Stream, Base
<1>6. key \in Keys_ /\ key[1] = fd
  BY <1>1, <1>5 DEF LookUpKey, Keys_
<1>7. CASE data.kind \notin {"error", "message"} /\ active_l7_requests[key] # None
  <2> DEFINE req == active_l7_requests[key]
             w   == [step |-> "delete", thread |-> p.thread, key |-> key, data |-> data,
                     got |-> p.data.id, req |-> req, slot |-> {req}]
  <2>1. req \in Request
    BY <1>6, <1>7 DEF Base, TypeOK
  <2>2. /\ UNCHANGED world /\ Silent
        /\ l7_event_heap' = [l7_event_heap EXCEPT ![cpu] = fresh]
        /\ running' = [running EXCEPT ![cpu] = w]
    BY <1>7 DEF LookUpRequest, Found, LookUpKey
  <2> HIDE DEF key, req
  <2>3. /\ w \in Work /\ w.step = "delete" /\ w.thread = p.thread /\ w.key = key
        /\ w.data = data /\ w.got = p.data.id /\ w.req = req /\ w.slot = {req}
    BY <1>1, <1>6, <2>1 DEF Work
  <2>4. \E v \in Work : /\ v.step = "delete" /\ v.thread = p.thread /\ v.key = key
                        /\ v.data = data /\ v.got = p.data.id
                        /\ v.req = req /\ v.slot = {req}
                        /\ running' = [running EXCEPT ![cpu] = v]
    BY <2>2, <2>3
  <2> QED
    BY <1>1, <1>2, <1>3, <1>4, <1>5, <1>6, <1>7, <2>2, <2>4 DEF key, req
<1>8. CASE ~ (data.kind \notin {"error", "message"} /\ active_l7_requests[key] # None)
  <2>1. /\ Returns(p.thread, p.data.id) /\ UNCHANGED running
        /\ CASE data.kind = "message" -> Immediate(cpu, fd, "CONSUME", fresh)
             [] data.kind = "frames" -> Immediate(cpu, fd, "SERVER_FRAMES", fresh)
             [] data.kind = "error" -> Silent /\ UNCHANGED l7_event_heap
             [] OTHER -> Silent /\ l7_event_heap' = [l7_event_heap EXCEPT ![cpu] = fresh]
    BY <1>8 DEF LookUpRequest, Found, LookUpKey
  <2>2. reported' = reported
    BY <2>1 DEF Silent, Immediate
  <2> HIDE DEF key, fresh
  <2>3. \/ data.kind = "error" /\ Silent /\ UNCHANGED l7_event_heap
        \/ /\ data.kind \in {"message", "frames"}
           /\ \E method \in {"CONSUME", "SERVER_FRAMES"} : Immediate(cpu, fd, method, fresh)
        \/ /\ data.kind \notin {"error", "message"}
           /\ active_l7_requests[key] = None
           /\ Silent
           /\ l7_event_heap' = [l7_event_heap EXCEPT ![cpu] = fresh]
    BY <1>8, <2>1
  <2> QED
    BY <1>1, <1>2, <1>3, <1>4, <1>5, <1>6, <2>1, <2>2, <2>3 DEF key, fresh
<1> QED
  BY <1>7, <1>8

LEMMA LookUpKeepsBase ==
    ASSUME Base, NEW cpu \in Cpus, NEW args \in Fds, NEW data \in Data,
           LookUpRequest(cpu, args, data)
    PROVE  Base'
<1> DEFINE p   == returning[cpu]
           fd  == p.fd
           t   == p.thread
           key == LookUpKey(fd, data)
           fresh == Reset(l7_event_heap[cpu])
<1>1. /\ p # None /\ p \in Read /\ fd \in Fds /\ t \in Threads
      /\ ReadIsKeyed(p) /\ active_reads[t] = None /\ running[cpu] = None
      /\ p.data.id \in Ids \cup {0} /\ inRead[t] = fd /\ inRead[t] # None
      /\ returning' = [returning EXCEPT ![cpu] = None]
      /\ astray \subseteq astray' /\ astray' \subseteq Fds
      /\ fd \notin astray' => data = p.data
      /\ data.kind = "response" => data.id \in Count
      /\ data.kind # "response" => data.id = 0
      /\ Stream(data) \in Streams \cup {-1} /\ key \in Keys_ /\ key[1] = fd
      /\ UNCHANGED <<active_reads, active_l7_requests, l7_request_heap>>
  BY LookUpCases
<1>2. /\ returning' \in [Cpus -> Read \cup {None}] /\ returning'[cpu] = None
      /\ \A c \in Cpus \ {cpu} : returning'[c] = returning[c]
  BY <1>1 DEF Base, TypeOK
<1>3. \A c \in Cpus \ {cpu} : returning[c] # None => returning[c].thread # t
  BY <1>1 DEF Base, OneWorker
<1>4. \A c \in Cpus : running[c] # None => running[c].thread # t
  BY <1>1 DEF Base, OneWorker
<1>5. fresh \in Fields /\ Afresh(fresh)
  BY ResetLemma DEF Base
<1> HIDE DEF fresh, key
<1>6. CASE Returns(t, p.data.id) /\ UNCHANGED running
  <2>1. active_reads' = MapDelete(active_reads, t)
    BY <1>1 DEF MapDelete, Base, TypeOK
  <2>2. /\ inRead' \in [Threads -> Fds \cup {None}]
        /\ waiting' \in [Fds -> SUBSET Ids]
        /\ UNCHANGED <<setup, written, begun, opened>>
        /\ WrittenAreSent' /\ OneReader' /\ ReadsAreOwn'
    BY <1>1, <1>6, <2>1, ReturnsTypes
  <2>3. /\ l7_event_heap' \in [Cpus -> Fields] /\ output' \in Record \cup {None}
        /\ reported' = reported
        /\ \A c \in Cpus \ {cpu} : l7_event_heap'[c] = l7_event_heap[c]
    <3>1. CASE Silent /\ UNCHANGED l7_event_heap
      BY <3>1 DEF Silent, Base, TypeOK
    <3>2. CASE \E method \in {"CONSUME", "SERVER_FRAMES"} : Immediate(cpu, fd, method, fresh)
      <4>1. PICK method \in {"CONSUME", "SERVER_FRAMES"} : Immediate(cpu, fd, method, fresh)
        BY <3>2
      <4>2. method \in Methods
        BY DEF Methods
      <4> QED
        BY <1>1, <1>5, <4>1, <4>2, ImmediateLemma DEF Base
    <3>3. CASE Silent /\ l7_event_heap' = [l7_event_heap EXCEPT ![cpu] = fresh]
      BY <1>5, <3>3 DEF Silent, Base, TypeOK
    <3> QED
      BY <1>1, <1>6, <3>1, <3>2, <3>3, LookUpCases DEF Returns, world, Base, TypeOK, fresh
  <2>4. TypeOK'
    BY <1>1, <1>2, <1>6, <2>2, <2>3 DEF Base, TypeOK
  <2>5. EntriesAreKeyed'
    BY <1>1, <2>2, EntriesStayKeyed
  <2>6. ASSUME NEW c \in Cpus, running'[c] # None
        PROVE  Stays(c) /\ GoesOn(running'[c], running[c], None)
    <3>1. running[c] # None /\ running[c].thread # t /\ c # cpu
      BY <1>1, <1>4, <1>6, <2>6
    <3> QED
      BY <1>1, <1>6, <2>1, <2>3, <3>1, ReturnsStay DEF Stays, GoesOn
  <2>7. WorksAreKeyed'
    BY <1>1, <1>6, <2>2, <2>4, <2>6, WorksStayKeyed DEF TypeOK
  <2>8. ASSUME NEW c \in Cpus, returning'[c] # None
        PROVE  /\ ReadGoesOn(returning'[c], returning[c])
               /\ inRead'[returning[c].thread] = inRead[returning[c].thread]
               /\ active_reads'[returning[c].thread] = active_reads[returning[c].thread]
               /\ waiting'[returning[c].fd] = waiting[returning[c].fd]
    <3>1. c # cpu /\ returning'[c] = returning[c] /\ returning[c].thread # t
      BY <1>2, <1>3, <2>8
    <3> QED
      BY <1>1, <1>6, <2>1, <2>8, <3>1, ReturnsStay DEF ReadGoesOn
  <2>9. ReadsAreKeyed'
    BY <2>8, ReadsStayKeyed
  <2>10. OneWorker'
    BY <1>6, <2>8, OneWorkerStays DEF Base, ReadGoesOn
  <2> QED
    BY <2>2, <2>4, <2>5, <2>7, <2>9, <2>10 DEF Base
<1>7. ASSUME UNCHANGED world, Silent, active_l7_requests[key] # None,
             l7_event_heap' = [l7_event_heap EXCEPT ![cpu] = fresh],
             NEW w \in Work,
             w.step = "delete", w.thread = t, w.key = key, w.data = data, w.got = p.data.id,
             w.req = active_l7_requests[key], w.slot = {active_l7_requests[key]},
             running' = [running EXCEPT ![cpu] = w]
      PROVE  Base'
  <2>1. UNCHANGED <<setup, written, begun, opened, waiting, inRead, Speaks, Count>>
    BY <1>7 DEF world, Speaks, Count
  <2>2. /\ running' \in [Cpus -> Work \cup {None}] /\ running'[cpu] = w
        /\ \A c \in Cpus \ {cpu} : running'[c] = running[c]
    BY <1>7 DEF Base, TypeOK
  <2>3. /\ l7_event_heap' \in [Cpus -> Fields] /\ l7_event_heap'[cpu] = fresh
        /\ \A c \in Cpus \ {cpu} : l7_event_heap'[c] = l7_event_heap[c]
    BY <1>5, <1>7 DEF Base, TypeOK
  <2>4. TypeOK'
    BY <1>1, <1>2, <1>7, <2>1, <2>2, <2>3 DEF Base, TypeOK, Silent
  <2>5. WrittenAreSent' /\ OneReader' /\ ReadsAreOwn'
    BY <1>1, <2>1 DEF Base, WrittenAreSent, OneReader, ReadsAreOwn
  <2>6. EntriesAreKeyed'
    BY <1>1, <2>1, EntriesStayKeyed
  <2>7. PICK req : req = active_l7_requests[key]
    OBVIOUS
  <2>8. /\ req.id \in Count /\ req.protocol = Speaks[fd] /\ Known(req)
        /\ key[2] # -1 <=> Speaks[fd] = "cassandra"
    BY <1>1, <1>7, <2>7 DEF Base, EntriesAreKeyed, Known
  <2>9. fd \notin astray' =>
           /\ data.id = p.data.id
           /\ data.kind = "response" => key[2] = written[data.id].stream
    <3> SUFFICES ASSUME fd \notin astray', data.kind = "response"
                 PROVE  key[2] = written[data.id].stream
      BY <1>1
    <3>1. data = p.data /\ data.id \in waiting[fd]
      BY <1>1 DEF ReadIsKeyed
    <3>2. /\ written[data.id].fd = fd /\ data.id \in Count
          /\ written[data.id].stream # -1 <=> Speaks[fd] = "cassandra"
      BY <1>1, <3>1 DEF Base, WrittenAreSent
    <3>3. key[2] \in {-1, Stream(data)}
      BY DEF key, LookUpKey
    <3> QED
      BY <2>8, <3>1, <3>2, <3>3 DEF Stream
  <2>10. p.data.id # 0 => p.data.id \in waiting[fd]
    BY <1>1 DEF ReadIsKeyed
  <2>11. WorkIsKeyed(w)'
    <3>1. Known(req)'
      BY <2>1, <2>8, GrowsNot, KnownStays DEF Base
    <3>2. /\ w.key[1] = inRead'[w.thread] /\ w.req.protocol = Speaks'[w.key[1]]
          /\ w.req.id \in Count'
          /\ w.got # 0 => w.got \in waiting'[w.key[1]]
      BY <1>1, <1>7, <2>1, <2>7, <2>8, <2>10
    <3>3. /\ w.data.kind = "response" => w.data.id \in Count'
          /\ w.data.kind # "response" => w.data.id = 0
          /\ w.key[2] # -1 <=> Speaks'[w.key[1]] = "cassandra"
      BY <1>1, <1>7, <2>1, <2>8
    <3>4. w.key[1] \notin astray' =>
             /\ w.data.id = w.got
             /\ w.data.kind = "response" => w.key[2] = written'[w.data.id].stream
      BY <1>1, <1>7, <2>1, <2>9
    <3>5. \A r \in w.slot : Known(r)'
      BY <1>7, <2>7, <3>1
    <3> QED
      BY <3>2, <3>3, <3>4, <3>5 DEF WorkIsKeyed
  <2>12. WorksAreKeyed'
    <3> SUFFICES ASSUME NEW c \in Cpus, running'[c] # None
                 PROVE  /\ WorkIsKeyed(running[c])' /\ Afresh(l7_event_heap[c])'
                        /\ active_reads'[running'[c].thread] = None
      BY DEF WorksAreKeyed
    <3>1. CASE c = cpu
      BY <1>1, <1>5, <1>7, <2>2, <2>3, <2>11, <3>1 DEF WorkIsKeyed, Afresh
    <3>2. CASE c # cpu
      <4>1. running'[c] = running[c] /\ l7_event_heap'[c] = l7_event_heap[c]
        BY <2>2, <2>3, <3>2
      <4>2. Stays(c) /\ GoesOn(running'[c], running[c], None)
        BY <1>1, <2>1, <4>1 DEF Stays, GoesOn
      <4> QED
        BY <1>1, <2>1, <2>2, <4>1, <4>2, WorkStays
    <3> QED
      BY <3>1, <3>2
  <2>13. ReadsAreKeyed'
    <3>1. \A c \in Cpus : returning'[c] # None => returning'[c] = returning[c]
      BY <1>2
    <3> QED
      BY <1>1, <2>1, <3>1, ReadsStayKeyed DEF ReadGoesOn
  <2>14. OneWorker'
    <3>1. /\ \A c \in Cpus \ {cpu} : returning'[c] = returning[c] /\ running'[c] = running[c]
          /\ returning'[cpu] = None /\ running'[cpu].thread = t
      BY <1>2, <1>7, <2>2
    <3> QED
      BY <1>3, <1>4, <3>1 DEF Base, OneWorker
  <2> QED
    BY <2>4, <2>5, <2>6, <2>12, <2>13, <2>14 DEF Base
<1> QED
  <2>1. \/ Returns(t, p.data.id) /\ UNCHANGED running
        \/ /\ UNCHANGED world /\ Silent /\ active_l7_requests[key] # None
           /\ l7_event_heap' = [l7_event_heap EXCEPT ![cpu] = fresh]
           /\ \E w \in Work :
                 /\ w.step = "delete" /\ w.thread = t /\ w.key = key
                 /\ w.data = data /\ w.got = p.data.id
                 /\ w.req = active_l7_requests[key] /\ w.slot = {active_l7_requests[key]}
                 /\ running' = [running EXCEPT ![cpu] = w]
    BY LookUpCases DEF key, fresh
  <2> QED
    BY <1>6, <1>7, <2>1

LEMMA DeleteCases ==
    ASSUME Base, NEW cpu \in Cpus, DeleteRequest(cpu)
    PROVE  /\ running[cpu] # None /\ running[cpu].step = "delete"
           /\ running[cpu] \in Work /\ running[cpu].key \in Keys_
           /\ active_l7_requests' \in [Keys_ -> Request \cup {None}]
           /\ active_l7_requests'[running[cpu].key] = None
           /\ \A k \in Keys_ \ {running[cpu].key} : active_l7_requests'[k] = active_l7_requests[k]
           /\ running' = [running EXCEPT ![cpu] = [running[cpu] EXCEPT !.step = "use"]]
           /\ UNCHANGED <<world, active_reads, heaps, returning, astray, reported>> /\ output' = None
<1>1. running[cpu] \in Work /\ active_l7_requests \in [Keys_ -> Request \cup {None}]
  BY DEF DeleteRequest, Base, TypeOK
<1>2. running[cpu].key \in Keys_
  BY <1>1 DEF Work
<1>3. running' = [running EXCEPT ![cpu] = [running[cpu] EXCEPT !.step = "use"]]
  BY DEF DeleteRequest, DeleteFrom, Base, TypeOK
<1>4. /\ active_l7_requests' = MapDelete(active_l7_requests, running[cpu].key)
      /\ running[cpu] # None /\ running[cpu].step = "delete"
      /\ UNCHANGED <<world, active_reads, heaps, returning, astray, reported>> /\ output' = None
  BY DEF DeleteRequest, DeleteFrom, Silent
<1>5. /\ active_l7_requests' \in [Keys_ -> Request \cup {None}]
      /\ active_l7_requests'[running[cpu].key] = None
      /\ \A k \in Keys_ \ {running[cpu].key} : active_l7_requests'[k] = active_l7_requests[k]
  BY <1>1, <1>2, <1>4 DEF MapDelete
<1> QED
  BY <1>1, <1>2, <1>3, <1>4, <1>5

LEMMA DeleteKeepsBase ==
    ASSUME Base, NEW cpu \in Cpus, DeleteRequest(cpu)
    PROVE  Base'
<1>1. /\ running[cpu] # None /\ running[cpu] \in Work
      /\ active_l7_requests' \in [Keys_ -> Request \cup {None}]
      /\ \A k \in Keys_ : active_l7_requests'[k] \in {active_l7_requests[k], None}
      /\ running' = [running EXCEPT ![cpu] = [running[cpu] EXCEPT !.step = "use"]]
      /\ UNCHANGED <<world, active_reads, heaps, returning, astray, reported>> /\ output' = None
  BY DeleteCases
<1>2. UNCHANGED <<setup, written, begun, opened, waiting, inRead, Speaks, Count,
                 l7_event_heap, l7_request_heap>>
  BY <1>1 DEF world, heaps, Speaks, Count
<1>3. [running[cpu] EXCEPT !.step = "use"] \in Work
  BY <1>1 DEF Work
<1>4. TypeOK'
  BY <1>1, <1>2, <1>3 DEF Base, TypeOK
<1>5. WrittenAreSent' /\ OneReader' /\ ReadsAreOwn' /\ EntriesAreKeyed'
  BY <1>1, <1>2, EntriesStayKeyed DEF Base, WrittenAreSent, OneReader, ReadsAreOwn
<1>6. \A c \in Cpus : running'[c] # None =>
         /\ running[c] # None /\ running'[c].thread = running[c].thread
         /\ running'[c].key = running[c].key /\ running'[c].data = running[c].data
         /\ running'[c].got = running[c].got
         /\ running'[c].req = running[c].req /\ running'[c].slot = running[c].slot
  BY <1>1 DEF Base, TypeOK, Work
<1>7. WorksAreKeyed'
  <2> SUFFICES ASSUME NEW c \in Cpus, running'[c] # None
               PROVE  /\ WorkIsKeyed(running[c])' /\ Afresh(l7_event_heap[c])'
                      /\ active_reads'[running'[c].thread] = None
    BY DEF WorksAreKeyed
  <2>1. WorkIsKeyed(running[c]) /\ Afresh(l7_event_heap[c])
        /\ active_reads[running[c].thread] = None
    BY <1>6 DEF Base, WorksAreKeyed
  <2>2. PICK w : w = running[c]
    OBVIOUS
  <2>3. PICK v : v = running'[c]
    OBVIOUS
  <2>4. /\ v.thread = w.thread /\ v.key = w.key /\ v.data = w.data /\ v.got = w.got
        /\ v.req = w.req /\ v.slot = w.slot
    BY <1>6, <2>2, <2>3
  <2>5. WorkIsKeyed(w)
    BY <2>1, <2>2
  <2>6. WorkIsKeyed(v)'
    BY <1>1, <1>2, <2>4, <2>5 DEF WorkIsKeyed, Known
  <2>7. WorkIsKeyed(running[c])'
    BY <2>3, <2>6 DEF WorkIsKeyed
  <2>8. Afresh(l7_event_heap[c])' /\ active_reads'[running'[c].thread] = None
    BY <1>1, <1>2, <1>6, <2>1 DEF Afresh
  <2> QED
    BY <2>7, <2>8
<1>8. ReadsAreKeyed'
  BY <1>1, <1>2, ReadsStayKeyed DEF ReadGoesOn
<1>9. OneWorker'
  BY <1>1, <1>6, OneWorkerStays DEF Base, ReadGoesOn
<1> QED
  BY <1>4, <1>5, <1>7, <1>8, <1>9 DEF Base

(* What the last step comes to: it stores the request anew, it reports it, *)
(* or neither.                                                             *)
StoresAnew(cpu, p, r) ==
    /\ p.req.protocol = "mongo" /\ p.data.kind = "word" /\ ~ r.partial
    /\ active_l7_requests' \in [Keys_ -> Request \cup {None}]
    /\ active_l7_requests'[p.key] = Again(cpu, r)
    /\ \A k \in Keys_ \ {p.key} : active_l7_requests'[k] \in {active_l7_requests[k], None}
    /\ running' \in [Cpus -> Work \cup {None}] /\ running'[cpu] = None
    /\ \A c \in Cpus : GoesOn(running'[c], running[c], Again(cpu, r))
    /\ \A c \in Cpus \ {cpu} : running[c] # None => running'[c] # None
    /\ UNCHANGED <<l7_event_heap, reported>> /\ output' = None

Reports(cpu, p, r) ==
    \E fields \in Fields :
        /\ \/ fields.method = "UNKNOWN"
           \/ fields.method = "STATEMENT_PREPARE" /\ r.request_type = "prepare"
        /\ fields.duration = "own"
        /\ IsResponse(r, p.req.protocol, p.data)
        /\ l7_event_heap' = [l7_event_heap EXCEPT ![cpu] = fields]
        /\ output' = [fd |-> p.key[1], id |-> p.req.id, data |-> p.data.id,
                      request_type |-> r.request_type, fields |-> fields]
        /\ reported' = reported \cup {<<p.key[1], p.req.id>>}
        /\ running' = [running EXCEPT ![cpu] = None]
        /\ UNCHANGED active_l7_requests

Drops(cpu) ==
    /\ running' = [running EXCEPT ![cpu] = None]
    /\ UNCHANGED <<active_l7_requests, l7_event_heap, reported>> /\ output' = None

LEMMA UseCases ==
    ASSUME Base, NEW cpu \in Cpus, UseRequest(cpu)
    PROVE  LET p == running[cpu] IN
           /\ p # None /\ p.step = "use" /\ p \in Work /\ p.key \in Keys_ /\ p.key[1] \in Fds
           /\ p.thread \in Threads /\ p.data \in Data /\ p.req \in Request
           /\ WorkIsKeyed(p) /\ active_reads[p.thread] = None /\ Afresh(l7_event_heap[cpu])
           /\ Returns(p.thread, p.got) /\ p.got \in Ids \cup {0}
           /\ UNCHANGED <<active_reads, l7_request_heap, returning, astray>>
           /\ \E r \in p.slot : r \in Request /\ (StoresAnew(cpu, p, r) \/ Reports(cpu, p, r) \/ Drops(cpu))
<1> DEFINE p == running[cpu]
<1>1. /\ p # None /\ p.step = "use" /\ Returns(p.thread, p.got)
      /\ UNCHANGED <<active_reads, l7_request_heap, returning, astray>>
  BY DEF UseRequest
<1>2. /\ p \in Work /\ WorkIsKeyed(p) /\ Afresh(l7_event_heap[cpu])
      /\ active_reads[p.thread] = None /\ l7_event_heap[cpu] \in Fields
  BY <1>1 DEF Base, TypeOK, WorksAreKeyed
<1>3. /\ p.key \in Keys_ /\ p.key[1] \in Fds /\ p.thread \in Threads /\ p.data \in Data
      /\ p.req \in Request /\ p.slot \subseteq Request /\ p.got \in Ids \cup {0}
  BY <1>2 DEF Work, Keys_
<1> DEFINE fields(r) == [l7_event_heap[cpu] EXCEPT
              !.method = IF p.req.protocol \in {"mysql", "postgres"} /\ r.request_type = "prepare"
                         THEN "STATEMENT_PREPARE" ELSE @,
              !.status = TRUE, !.duration = "own"]
<1>4. PICK r \in p.slot :
        \/ /\ p.req.protocol = "mongo" /\ p.data.kind = "word" /\ ~ r.partial
           /\ active_l7_requests' \in LruUpdates(active_l7_requests, p.key, Again(cpu, r), RequestSlots)
           /\ running' = [SlotTaken(Again(cpu, r)) EXCEPT ![cpu] = None]
           /\ UNCHANGED <<l7_event_heap, reported>> /\ output' = None
        \/ /\ IsResponse(r, p.req.protocol, p.data)
           /\ l7_event_heap' = [l7_event_heap EXCEPT ![cpu] = fields(r)]
           /\ output' = [fd |-> p.key[1], id |-> p.req.id, data |-> p.data.id,
                         request_type |-> r.request_type, fields |-> fields(r)]
           /\ reported' = reported \cup {<<p.key[1], p.req.id>>}
           /\ running' = [running EXCEPT ![cpu] = None]
           /\ UNCHANGED active_l7_requests
        \/ /\ running' = [running EXCEPT ![cpu] = None]
           /\ UNCHANGED <<active_l7_requests, l7_event_heap, reported>> /\ output' = None
  BY DEF UseRequest, Silent
<1>5. r \in Request /\ Again(cpu, r) \in Request
  <2>1. l7_request_heap[cpu] \in [request_type : Types, request_id : Ids \cup {0}]
    BY DEF Base, TypeOK
  <2> QED
    BY <1>3, <2>1 DEF Request, Paired, Again
<1>6. /\ fields(r) \in Fields
      /\ \/ fields(r).method = "UNKNOWN"
         \/ fields(r).method = "STATEMENT_PREPARE" /\ r.request_type = "prepare"
      /\ fields(r).duration = "own"
  <2> DEFINE m == IF p.req.protocol \in {"mysql", "postgres"} /\ r.request_type = "prepare"
                  THEN "STATEMENT_PREPARE" ELSE "UNKNOWN"
             f == [l7_event_heap[cpu] EXCEPT !.method = m, !.status = TRUE, !.duration = "own"]
  <2>1. f = fields(r)
    BY <1>2 DEF Afresh
  <2>2. m \in Methods
    BY DEF Methods
  <2>3. f \in Fields /\ f.method = m /\ f.duration = "own"
    <3> HIDE DEF m
    <3> QED
      BY <1>2, <2>2 DEF Fields
  <2>4. m = "UNKNOWN" \/ (m = "STATEMENT_PREPARE" /\ r.request_type = "prepare")
    OBVIOUS
  <2> HIDE DEF f, m, fields
  <2> QED
    BY <2>1, <2>3, <2>4
<1>7. \A u \in LruUpdates(active_l7_requests, p.key, Again(cpu, r), RequestSlots) :
         /\ u \in [Keys_ -> Request \cup {None}]
         /\ u[p.key] = Again(cpu, r)
         /\ \A k \in Keys_ \ {p.key} : u[k] \in {active_l7_requests[k], None}
  <2>1. active_l7_requests \in [Keys_ -> Request \cup {None}]
    BY DEF Base, TypeOK
  <2> HIDE DEF p
  <2> QED
    BY <1>3, <1>5, <2>1, LruUpdatesLemma
<1>8. LET taken == SlotTaken(Again(cpu, r)) IN
      /\ [taken EXCEPT ![cpu] = None] \in [Cpus -> Work \cup {None}]
      /\ [taken EXCEPT ![cpu] = None][cpu] = None
      /\ \A c \in Cpus : GoesOn([taken EXCEPT ![cpu] = None][c], running[c], Again(cpu, r))
      /\ \A c \in Cpus \ {cpu} : running[c] # None => [taken EXCEPT ![cpu] = None][c] # None
  <2> DEFINE taken == SlotTaken(Again(cpu, r))
  <2>1. /\ taken \in [Cpus -> Work \cup {None}]
        /\ \A c \in Cpus : GoesOn(taken[c], running[c], Again(cpu, r))
        /\ \A c \in Cpus : running[c] # None => taken[c] # None
    BY <1>5, SlotTakenLemma DEF Base
  <2> HIDE DEF taken
  <2>2. \A c \in Cpus : [taken EXCEPT ![cpu] = None][c] = IF c = cpu THEN None ELSE taken[c]
    BY <2>1
  <2>3. /\ \A c \in Cpus : GoesOn([taken EXCEPT ![cpu] = None][c], running[c], Again(cpu, r))
        /\ \A c \in Cpus \ {cpu} : running[c] # None => [taken EXCEPT ![cpu] = None][c] # None
    BY <2>1, <2>2 DEF GoesOn
  <2> QED
    BY <2>1, <2>2, <2>3 DEF taken
<1> HIDE DEF p, fields
<1>9. StoresAnew(cpu, p, r) \/ Reports(cpu, p, r) \/ Drops(cpu)
  BY <1>4, <1>6, <1>7, <1>8 DEF StoresAnew, Reports, Drops
<1> QED
  BY <1>1, <1>2, <1>3, <1>5, <1>9 DEF p

LEMMA UseKeepsBase ==
    ASSUME Base, NEW cpu \in Cpus, UseRequest(cpu)
    PROVE  Base'
<1> DEFINE p == running[cpu]
<1>1. /\ p # None /\ p \in Work /\ p.key \in Keys_ /\ p.key[1] \in Fds
      /\ p.thread \in Threads /\ p.data \in Data /\ p.req \in Request
      /\ WorkIsKeyed(p) /\ active_reads[p.thread] = None
      /\ Returns(p.thread, p.got) /\ p.got \in Ids \cup {0}
      /\ UNCHANGED <<active_reads, l7_request_heap, returning, astray>>
  BY UseCases
<1>2. inRead[p.thread] # None /\ inRead[p.thread] = p.key[1]
  BY <1>1, NoneAssumption DEF WorkIsKeyed
<1>3. active_reads' = MapDelete(active_reads, p.thread)
  BY <1>1, <1>2 DEF MapDelete, Base, TypeOK
<1>4. /\ inRead' \in [Threads -> Fds \cup {None}]
      /\ waiting' \in [Fds -> SUBSET Ids]
      /\ UNCHANGED <<setup, written, begun, opened, Speaks, Count>>
      /\ WrittenAreSent' /\ OneReader' /\ ReadsAreOwn'
  BY <1>1, <1>2, <1>3, ReturnsTypes DEF Speaks, Count
<1>5. PICK r \in p.slot :
        r \in Request /\ (StoresAnew(cpu, p, r) \/ Reports(cpu, p, r) \/ Drops(cpu))
  BY UseCases
<1>6. /\ Again(cpu, r) \in Request /\ Again(cpu, r).id = r.id /\ Again(cpu, r).protocol = "mongo"
      /\ r.id \in Count /\ r.id \in Ids /\ p.req.id \in Ids /\ p.data.id \in Ids \cup {0}
      /\ r.request_type \in Types
      /\ p.req.protocol = "mongo" => Known(Again(cpu, r))
  <2>1. l7_request_heap[cpu] \in [request_type : Types, request_id : Ids \cup {0}]
    BY DEF Base, TypeOK
  <2>2. r.id \in Count /\ (p.req.protocol = "mongo" => Speaks[p.key[1]] = "mongo")
    BY <1>1, <1>5 DEF WorkIsKeyed, Known
  <2>3. /\ Again(cpu, r) \in Request /\ Again(cpu, r).id = r.id
        /\ Again(cpu, r).protocol = "mongo"
        /\ r.id \in Ids /\ p.req.id \in Ids /\ p.data.id \in Ids \cup {0}
        /\ r.request_type \in Types
    BY <1>1, <1>5, <2>1 DEF Request, Paired, Data, Again
  <2> QED
    BY <1>1, <2>2, <2>3 DEF Known
<1> USE DEF StoresAnew, Reports, Drops
<1>7. TypeOK' /\ l7_event_heap' \in [Cpus -> Fields]
      /\ \A c \in Cpus \ {cpu} : l7_event_heap'[c] = l7_event_heap[c]
  <2>1. /\ running' \in [Cpus -> Work \cup {None}]
        /\ active_l7_requests' \in [Keys_ -> Request \cup {None}]
        /\ l7_event_heap' \in [Cpus -> Fields]
        /\ \A c \in Cpus \ {cpu} : l7_event_heap'[c] = l7_event_heap[c]
    BY <1>5 DEF Base, TypeOK
  <2>2. reported' \subseteq Fds \X Ids
    BY <1>1, <1>5, <1>6 DEF Base, TypeOK
  <2>3. output' \in Record \cup {None}
    BY <1>1, <1>5, <1>6 DEF Record
  <2> QED
    BY <1>1, <1>4, <2>1, <2>2, <2>3 DEF Base, TypeOK
<1>8. EntriesAreKeyed'
  <2> SUFFICES ASSUME NEW k \in Keys_, active_l7_requests'[k] # None
               PROVE  /\ Known(active_l7_requests[k])'
                      /\ active_l7_requests'[k].protocol = Speaks[k[1]]
                      /\ active_l7_requests'[k].protocol # "mongo" =>
                            written[active_l7_requests'[k].id].fd = k[1]
                      /\ k[2] # -1 <=> Speaks[k[1]] = "cassandra"
    BY <1>4 DEF EntriesAreKeyed
  <2>1. CASE active_l7_requests'[k] = active_l7_requests[k]
    BY <1>4, <2>1 DEF Base, EntriesAreKeyed, Known
  <2>2. CASE k = p.key /\ active_l7_requests'[k] = Again(cpu, r) /\ p.req.protocol = "mongo"
    BY <1>1, <1>4, <1>6, <2>2 DEF WorkIsKeyed, Known
  <2> QED
    BY <1>5, <2>1, <2>2
<1>9. ASSUME NEW c \in Cpus, running'[c] # None
      PROVE  /\ running[c] # None /\ c # cpu /\ running[c].thread # p.thread
             /\ Stays(c) /\ GoesOn(running'[c], running[c], Again(cpu, r))
  <2>1. c # cpu
    BY <1>5, <1>9 DEF Base, TypeOK
  <2>2. GoesOn(running'[c], running[c], Again(cpu, r))
    <3>1. CASE running' = [running EXCEPT ![cpu] = None]
      BY <1>9, <2>1, <3>1 DEF GoesOn, Base, TypeOK
    <3>2. CASE \A d \in Cpus : GoesOn(running'[d], running[d], Again(cpu, r))
      BY <3>2
    <3> QED
      BY <1>5, <3>1, <3>2
  <2>3. running[c] # None /\ running[c].thread # p.thread
    BY <1>1, <1>9, <2>1, <2>2 DEF GoesOn, Base, OneWorker
  <2> QED
    BY <1>1, <1>2, <1>3, <1>7, <2>1, <2>2, <2>3, ReturnsStay DEF Stays
<1>10. WorksAreKeyed'
  <2> SUFFICES ASSUME NEW c \in Cpus, running'[c] # None
               PROVE  /\ WorkIsKeyed(running[c])' /\ Afresh(l7_event_heap[c])'
                      /\ active_reads'[running'[c].thread] = None
    BY DEF WorksAreKeyed
  <2>1. running'[c] = running[c] \/ Known(Again(cpu, r))
    <3>1. CASE running' = [running EXCEPT ![cpu] = None]
      BY <1>9, <3>1 DEF Base, TypeOK
    <3>2. CASE p.req.protocol = "mongo"
      BY <1>6, <3>2
    <3> QED
      BY <1>5, <3>1, <3>2
  <2>2. running' \in [Cpus -> Work \cup {None}]
    BY <1>7 DEF TypeOK
  <2>3. UNCHANGED <<setup, written>> /\ astray \subseteq astray'
    BY <1>1, <1>4
  <2>4. Stays(c) /\ GoesOn(running'[c], running[c], Again(cpu, r))
    BY <1>9
  <2> HIDE DEF p
  <2> QED
    BY <2>1, <2>2, <2>3, <2>4, WorkStays
<1>11. ReadsAreKeyed'
  <2>1. \A c \in Cpus : returning[c] # None => returning[c].thread # p.thread
    BY <1>1 DEF Base, OneWorker
  <2> QED
    BY <1>1, <1>2, <1>3, <2>1, ReturnsStay, ReadsStayKeyed DEF ReadGoesOn
<1>12. OneWorker'
  BY <1>1, <1>9, OneWorkerStays DEF Base, ReadGoesOn, GoesOn
<1> QED
  BY <1>4, <1>7, <1>8, <1>10, <1>11, <1>12 DEF Base

LEMMA StutterKeepsBase ==
    ASSUME Base, UNCHANGED vars
    PROVE  Base'
<1> USE DEF vars, world, maps, heaps, probe
<1>1. TypeOK' /\ WrittenAreSent' /\ OneReader' /\ ReadsAreOwn' /\ EntriesAreKeyed'
  BY DEF Base, TypeOK, WrittenAreSent, OneReader, ReadsAreOwn, EntriesAreKeyed, Known, Count,
         Speaks
<1>2. ReadsAreKeyed' /\ OneWorker'
  BY DEF Base, ReadsAreKeyed, ReadIsKeyed, OneWorker
<1>3. WorksAreKeyed'
  BY DEF Base, WorksAreKeyed, WorkIsKeyed, Afresh, Known, Count, Speaks
<1> QED
  BY <1>1, <1>2, <1>3 DEF Base

(* Works on different CPUs are on different descriptors.                   *)
LEMMA WorksApart ==
    ASSUME Base, NEW c \in Cpus, NEW d \in Cpus, c # d, running[c] # None, running[d] # None
    PROVE  running[c].key[1] # running[d].key[1]
<1>1. /\ running[c] \in Work /\ WorkIsKeyed(running[c])
      /\ running[d] \in Work /\ WorkIsKeyed(running[d])
  BY DEF Base, TypeOK, WorksAreKeyed
<1>2. /\ running[c].thread \in Threads /\ running[d].thread \in Threads
      /\ running[c].thread # running[d].thread /\ running[c].key[1] \in Fds
  BY <1>1 DEF Work, Keys_, Base, OneWorker
<1> QED
  BY <1>1, <1>2, NoneAssumption DEF WorkIsKeyed, Base, OneReader

---------------------------------------------------------------------------
(* Every request of a descriptor is in one place at most: in one entry, or *)
(* on one CPU.  One that was reported is in none.                          *)

StoredOnce ==
    \A j, k \in Keys_ :
        /\ active_l7_requests[j] # None /\ active_l7_requests[k] # None
        /\ j[1] = k[1] /\ active_l7_requests[j].id = active_l7_requests[k].id
        => j = k

WorkIsElsewhere ==
    \A c \in Cpus, k \in Keys_ :
        /\ running[c] # None /\ active_l7_requests[k] # None
        /\ k[1] = running[c].key[1] /\ active_l7_requests[k].id = running[c].req.id
        => running[c].step = "delete" /\ k = running[c].key

(* Not in a slot either, from where a request for MongoDB is stored anew.  *)
ReportedAreGone ==
    \A fd \in Fds, id \in Ids : <<fd, id>> \in reported =>
        /\ id \in Count
        /\ \A k \in Keys_ : active_l7_requests[k] # None /\ k[1] = fd =>
                               active_l7_requests[k].id # id
        /\ \A c \in Cpus : running[c] # None /\ running[c].key[1] = fd =>
               /\ running[c].req.id # id
               /\ \A r \in running[c].slot : r.id = id => r.partial

Once == StoredOnce /\ WorkIsElsewhere /\ ReportedAreGone

LEMMA OnceUnchanged ==
    ASSUME Once, UNCHANGED <<active_l7_requests, running, reported>>, Count \subseteq Count'
    PROVE  Once'
BY DEF Once, StoredOnce, WorkIsElsewhere, ReportedAreGone

LEMMA WriteKeepsOnce ==
    ASSUME Base, Once, NEW cpu \in Cpus, NEW fd \in Fds, NEW type \in Types,
           NEW stream \in Streams \cup {-1}, trace_enter_write(cpu, fd, type, stream)
    PROVE  Once'
<1>1. PICK new : /\ new = Len(written) + 1
                 /\ Count' = Count \cup {new} /\ new \notin Count
  BY WriteAppends
<1>2. CASE UNCHANGED <<active_l7_requests, running>>
  <2>1. reported' = reported
    BY DEF trace_enter_write, Silent, Immediate
  <2> QED
    BY <1>1, <1>2, <2>1, OnceUnchanged
<1>3. CASE ~ UNCHANGED <<active_l7_requests, running>>
  <2>1. reported' = reported /\ <<fd, stream>> \in Keys_
    BY <1>3, WriteStores
  <2>2. PICK req \in Request :
          /\ req.id = new
          /\ active_l7_requests'[<<fd, stream>>] = req
          /\ \A k \in Keys_ \ {<<fd, stream>>} :
                active_l7_requests'[k] \in {active_l7_requests[k], None}
          /\ \A c \in Cpus : GoesOn(running'[c], running[c], req)
    BY <1>1, <1>3, WriteStores
  <2>3. \A k \in Keys_ : active_l7_requests'[k] # None =>
           \/ k = <<fd, stream>> /\ active_l7_requests'[k].id = new
           \/ /\ active_l7_requests'[k] = active_l7_requests[k]
              /\ active_l7_requests[k].id \in Count
    BY <2>2 DEF Base, EntriesAreKeyed, Known
  <2>4. StoredOnce'
    BY <1>1, <2>3 DEF Once, StoredOnce
  <2>5. \A c \in Cpus : running'[c] # None =>
           /\ running[c] # None /\ running[c].req.id \in Count
           /\ running'[c].step = running[c].step /\ running'[c].key = running[c].key
           /\ running'[c].req = running[c].req
           /\ \A r \in running'[c].slot : r \in running[c].slot \/ r.id = new
    BY <2>2 DEF GoesOn, Base, WorksAreKeyed, WorkIsKeyed
  <2>6. WorkIsElsewhere'
    BY <1>1, <2>3, <2>5 DEF Once, WorkIsElsewhere
  <2>7. ReportedAreGone'
    <3> SUFFICES ASSUME NEW f \in Fds, NEW id \in Ids, <<f, id>> \in reported
                 PROVE  /\ id \in Count'
                        /\ \A k \in Keys_ : active_l7_requests'[k] # None /\ k[1] = f =>
                               active_l7_requests'[k].id # id
                        /\ \A c \in Cpus : running'[c] # None /\ running'[c].key[1] = f =>
                               /\ running'[c].req.id # id
                               /\ \A r \in running'[c].slot : r.id = id => r.partial
      BY <2>1 DEF ReportedAreGone
    <3>1. id \in Count /\ id # new
      BY <1>1 DEF Once, ReportedAreGone
    <3>2. \A k \in Keys_ : active_l7_requests'[k] # None /\ k[1] = f =>
                            active_l7_requests'[k].id # id
      BY <2>3, <3>1 DEF Once, ReportedAreGone
    <3>3. \A c \in Cpus : running'[c] # None /\ running'[c].key[1] = f =>
             /\ running'[c].req.id # id
             /\ \A r \in running'[c].slot : r.id = id => r.partial
      BY <2>5, <3>1 DEF Once, ReportedAreGone
    <3> QED
      BY <1>1, <3>1, <3>2, <3>3
  <2> QED
    BY <2>4, <2>6, <2>7 DEF Once
<1> QED
  BY <1>2, <1>3

LEMMA LookUpKeepsOnce ==
    ASSUME Base, Once, NEW cpu \in Cpus, NEW args \in Fds, NEW data \in Data,
           LookUpRequest(cpu, args, data)
    PROVE  Once'
<1> DEFINE key == LookUpKey(returning[cpu].fd, data)
<1>1. key \in Keys_ /\ UNCHANGED active_l7_requests
  BY LookUpCases
<1>2. CASE Returns(returning[cpu].thread, returning[cpu].data.id) /\ UNCHANGED running
           /\ reported' = reported
  <2>1. Count' = Count
    BY <1>2 DEF Returns, Count
  <2> QED
    BY <1>1, <1>2, <2>1, OnceUnchanged
<1> HIDE DEF key
<1>3. ASSUME UNCHANGED world, Silent, active_l7_requests[key] # None, NEW w \in Work,
             w.step = "delete", w.key = key,
             w.req = active_l7_requests[key], w.slot = {active_l7_requests[key]},
             running' = [running EXCEPT ![cpu] = w]
      PROVE  Once'
  <2>1. UNCHANGED <<reported, Count>>
    BY <1>3 DEF Silent, world, Count
  <2>2. running'[cpu] = w /\ \A c \in Cpus \ {cpu} : running'[c] = running[c]
    BY <1>3 DEF Base, TypeOK
  <2>3. StoredOnce'
    BY <1>1 DEF Once, StoredOnce
  <2>4. WorkIsElsewhere'
    BY <1>1, <1>3, <2>2 DEF Once, StoredOnce, WorkIsElsewhere
  <2>5. ReportedAreGone'
    BY <1>1, <1>3, <2>1, <2>2 DEF Once, ReportedAreGone
  <2> QED
    BY <2>3, <2>4, <2>5 DEF Once
<1> QED
  BY <1>2, <1>3, LookUpCases DEF key

LEMMA DeleteKeepsOnce ==
    ASSUME Base, Once, NEW cpu \in Cpus, DeleteRequest(cpu)
    PROVE  Once'
<1>1. /\ running[cpu] # None /\ running[cpu] \in Work
      /\ active_l7_requests'[running[cpu].key] = None
      /\ \A k \in Keys_ \ {running[cpu].key} : active_l7_requests'[k] = active_l7_requests[k]
      /\ running' = [running EXCEPT ![cpu] = [running[cpu] EXCEPT !.step = "use"]]
      /\ UNCHANGED <<reported, Count>>
  BY DeleteCases DEF world, Count
<1>2. \A c \in Cpus : running'[c] # None =>
         /\ running[c] # None /\ (c # cpu => running'[c].step = running[c].step)
         /\ running'[c].key = running[c].key
         /\ running'[c].req = running[c].req /\ running'[c].slot = running[c].slot
  BY <1>1 DEF Base, TypeOK, Work
<1>3. StoredOnce'
  BY <1>1 DEF Once, StoredOnce
<1>4. WorkIsElsewhere'
  BY <1>1, <1>2 DEF Once, WorkIsElsewhere
<1>5. ReportedAreGone'
  BY <1>1, <1>2 DEF Once, ReportedAreGone
<1> QED
  BY <1>3, <1>4, <1>5 DEF Once

LEMMA UseKeepsOnce ==
    ASSUME Base, Once, NEW cpu \in Cpus, UseRequest(cpu)
    PROVE  /\ Once'
           /\ output' # None => <<output'.fd, output'.id>> \notin reported
<1> DEFINE p == running[cpu]
<1>1. /\ p # None /\ p.step = "use" /\ p \in Work /\ p.key \in Keys_ /\ p.key[1] \in Fds
      /\ p.req \in Request /\ WorkIsKeyed(p) /\ Returns(p.thread, p.got)
  BY UseCases
<1>2. PICK r \in p.slot :
        r \in Request /\ (StoresAnew(cpu, p, r) \/ Reports(cpu, p, r) \/ Drops(cpu))
  BY UseCases
<1>3. UNCHANGED Count /\ p.req.id \in Count /\ p.req.id \in Ids /\ r.id \in Ids
  BY <1>1, <1>2 DEF Returns, Count, WorkIsKeyed, Request
<1>4. \A c \in Cpus \ {cpu} : running[c] # None => running[c].key[1] # p.key[1]
  BY <1>1, WorksApart
<1>5. <<p.key[1], p.req.id>> \notin reported
  BY <1>1, <1>3 DEF Once, ReportedAreGone
<1>6. CASE StoresAnew(cpu, p, r)
  <2>1. /\ Again(cpu, r).id = r.id /\ Again(cpu, r).partial /\ ~ r.partial
        /\ active_l7_requests'[p.key] = Again(cpu, r)
        /\ \A k \in Keys_ \ {p.key} : active_l7_requests'[k] \in {active_l7_requests[k], None}
        /\ running'[cpu] = None
        /\ \A c \in Cpus : GoesOn(running'[c], running[c], Again(cpu, r))
        /\ reported' = reported /\ output' = None
    BY <1>2, <1>6 DEF StoresAnew, Again, Request
  <2>2. p.key[2] = -1 /\ Speaks[p.key[1]] = "mongo"
    BY <1>1, <1>6 DEF StoresAnew, WorkIsKeyed
  <2>3. \A k \in Keys_ : active_l7_requests'[k] # None /\ k[1] = p.key[1] => k = p.key
    BY <1>1, <2>1, <2>2 DEF Base, EntriesAreKeyed, Keys_
  <2>4. \A k \in Keys_ : active_l7_requests'[k] # None =>
           k = p.key \/ active_l7_requests'[k] = active_l7_requests[k]
    BY <2>1
  <2>5. \A c \in Cpus : running'[c] # None =>
           /\ running[c] # None /\ running[c].key[1] # p.key[1]
           /\ running'[c].step = running[c].step /\ running'[c].key = running[c].key
           /\ running'[c].req = running[c].req
           /\ \A q \in running'[c].slot : q \in running[c].slot \/ q.partial
    BY <1>4, <2>1 DEF GoesOn
  <2>6. StoredOnce'
    BY <2>3, <2>4 DEF Once, StoredOnce
  <2>7. WorkIsElsewhere'
    BY <2>4, <2>5 DEF Once, WorkIsElsewhere
  <2>8. ReportedAreGone'
    <3> SUFFICES ASSUME NEW f \in Fds, NEW id \in Ids, <<f, id>> \in reported
                 PROVE  /\ id \in Count'
                        /\ \A k \in Keys_ : active_l7_requests'[k] # None /\ k[1] = f =>
                               active_l7_requests'[k].id # id
                        /\ \A c \in Cpus : running'[c] # None /\ running'[c].key[1] = f =>
                               /\ running'[c].req.id # id
                               /\ \A q \in running'[c].slot : q.id = id => q.partial
      BY <2>1 DEF ReportedAreGone
    <3>1. <<p.key[1], r.id>> \notin reported
      BY <1>1, <1>2, <1>3, <2>1 DEF Once, ReportedAreGone
    <3>2. \A k \in Keys_ : active_l7_requests'[k] # None /\ k[1] = f =>
                            active_l7_requests'[k].id # id
      BY <2>1, <2>4, <3>1 DEF Once, ReportedAreGone
    <3>3. \A c \in Cpus : running'[c] # None /\ running'[c].key[1] = f =>
             /\ running'[c].req.id # id
             /\ \A q \in running'[c].slot : q.id = id => q.partial
      BY <2>5 DEF Once, ReportedAreGone
    <3> QED
      BY <1>3, <3>2, <3>3 DEF Once, ReportedAreGone
  <2> QED
    BY <2>1, <2>6, <2>7, <2>8 DEF Once
<1>7. CASE Reports(cpu, p, r)
  <2>1. /\ reported' = reported \cup {<<p.key[1], p.req.id>>}
        /\ output'.fd = p.key[1] /\ output'.id = p.req.id
        /\ running' = [running EXCEPT ![cpu] = None]
        /\ UNCHANGED active_l7_requests
    BY <1>7 DEF Reports
  <2>2. \A c \in Cpus : running'[c] # None => c # cpu /\ running'[c] = running[c]
    BY <2>1 DEF Base, TypeOK
  <2>3. StoredOnce' /\ WorkIsElsewhere'
    BY <2>1, <2>2 DEF Once, StoredOnce, WorkIsElsewhere
  <2>4. \A k \in Keys_ : active_l7_requests[k] # None /\ k[1] = p.key[1] =>
                          active_l7_requests[k].id # p.req.id
    BY <1>1 DEF Once, WorkIsElsewhere
  <2>5. ReportedAreGone'
    BY <1>3, <1>4, <2>1, <2>2, <2>4 DEF Once, ReportedAreGone
  <2> QED
    BY <1>5, <2>1, <2>3, <2>5 DEF Once
<1>8. CASE Drops(cpu)
  <2>1. /\ reported' = reported /\ UNCHANGED active_l7_requests /\ output' = None
        /\ \A c \in Cpus : running'[c] # None => running'[c] = running[c]
    BY <1>8 DEF Drops, Base, TypeOK
  <2>2. Once'
    BY <1>3, <2>1 DEF Once, StoredOnce, WorkIsElsewhere, ReportedAreGone
  <2> QED
    BY <2>1, <2>2
<1> QED
  BY <1>2, <1>6, <1>7, <1>8

---------------------------------------------------------------------------
(* Whose response is reported with a request.  Descriptors whose requests  *)
(* are told apart by their stream: at most one request of a stream is      *)
(* awaited at a time.                                                      *)

Roomy == ReadSlots >= Cardinality(Threads)

OneAtATime(fd) == fd \in Awaits \/ Speaks[fd] = "cassandra"

Own(fd) == OneAtATime(fd) /\ fd \notin Reconnects \cup astray /\ Speaks[fd] # "mongo"

(* A read() call that was not followed could leave a request behind.       *)
ReadsAreFollowed ==
    Roomy => \A t \in Threads : inRead[t] # None =>
        active_reads[t] = inRead[t] \/ Busy(t)

OneIsAwaited ==
    \A fd \in Fds : OneAtATime(fd) =>
        \A i, j \in waiting[fd] : written[i].stream = written[j].stream => i = j

StoredAreAwaited ==
    Roomy => \A k \in Keys_ : Own(k[1]) /\ active_l7_requests[k] # None =>
        /\ active_l7_requests[k].id \in waiting[k[1]]
        /\ written[active_l7_requests[k].id].stream = k[2]

WorkedAreAwaited ==
    Roomy => \A c \in Cpus :
        running[c] # None /\ Own(running[c].key[1]) /\ running[c].data.kind = "response" =>
        running[c].req.id = running[c].data.id

(* Kafka's requests are told apart by their number, as long as there is    *)
(* one connection; a request that took the slot meanwhile has another.     *)
NeverReopened == \A fd \in Fds \ Reconnects : opened[fd] = 0

NumbersDiffer ==
    \A fd \in Fds \ Reconnects : \A i \in Count : written[i].fd = fd =>
        /\ written[i].correlation < Correlation(fd)
        /\ \A j \in Count : written[j].fd = fd
                            /\ written[j].correlation = written[i].correlation => i = j

SlotsAreOthers ==
    \A c \in Cpus : running[c] # None =>
        \A r \in running[c].slot :
            r.protocol = "mongo" \/ r = running[c].req \/ r.id # running[c].data.id

Pairing == /\ ReadsAreFollowed /\ OneIsAwaited /\ StoredAreAwaited /\ WorkedAreAwaited
           /\ NeverReopened /\ NumbersDiffer /\ SlotsAreOthers

(* A thread is busy as long as its return goes on.                         *)
LEMMA BusyStays ==
    ASSUME NEW t, Busy(t),
           \A c \in Cpus : returning[c] # None /\ returning[c].thread = t =>
               returning'[c] # None /\ returning'[c].thread = t,
           \A c \in Cpus : running[c] # None /\ running[c].thread = t =>
               running'[c] # None /\ running'[c].thread = t
    PROVE  Busy(t)'
BY DEF Busy

LEMMA InitOthers == Init => Once /\ Pairing
<1> SUFFICES ASSUME Init
             PROVE  Once /\ Pairing
  OBVIOUS
<1> USE DEF Init
<1>1. Once
  BY DEF Once, StoredOnce, WorkIsElsewhere, ReportedAreGone
<1>2. Count = {}
  BY DEF Count
<1>3. ReadsAreFollowed /\ OneIsAwaited /\ StoredAreAwaited /\ WorkedAreAwaited
  BY DEF ReadsAreFollowed, OneIsAwaited, StoredAreAwaited, WorkedAreAwaited
<1>4. NeverReopened /\ NumbersDiffer /\ SlotsAreOthers
  BY <1>2 DEF NeverReopened, NumbersDiffer, SlotsAreOthers
<1> QED
  BY <1>1, <1>3, <1>4 DEF Pairing

(* The number of the next request on a connection.                         *)
LEMMA CorrelationGrows ==
    ASSUME Base, NeverReopened, NEW cpu \in Cpus, NEW fd \in Fds, NEW type \in Types,
           NEW stream \in Streams \cup {-1}, trace_enter_write(cpu, fd, type, stream),
           NEW f \in Fds \ Reconnects
    PROVE  /\ Correlation(f) \in Nat
           /\ Correlation(f)' = IF f = fd THEN Correlation(f) + 1 ELSE Correlation(f)
<1>1. PICK new :
        /\ Len(written) \in Nat /\ new = Len(written) + 1 /\ Len(written') = new
        /\ Count' = Count \cup {new} /\ new \notin Count
        /\ \A i \in Count : written'[i] = written[i]
        /\ written'[new] = [fd |-> fd, stream |-> stream, type |-> type,
                            correlation |-> Correlation(fd)]
  BY WriteAppends
<1> DEFINE S == {id \in Count : written[id].fd = f}
           T == {id \in Count' : written'[id].fd = f}
<1>2. opened[f] = 0 /\ opened'[f] = 0
  BY DEF NeverReopened, trace_enter_write
<1>3. Correlation(f) = 1 + Cardinality(S) /\ Correlation(f)' = 1 + Cardinality(T)
  BY <1>1, <1>2 DEF Correlation, Count
<1>4. IsFiniteSet(S) /\ Cardinality(S) \in Nat
  <2>1. 1 \in Int /\ \A n \in Nat : n \in Int
    OBVIOUS
  <2>2. \A n \in Nat : IsFiniteSet(1 .. n)
    BY <2>1, FS_Interval
  <2>3. IsFiniteSet(Count)
    BY <1>1, <2>2 DEF Count
  <2> QED
    BY <2>3, FS_Subset, FS_CardinalityType
<1>5. CASE f = fd
  <2>1. T = S \cup {new} /\ new \notin S
    BY <1>1, <1>5
  <2> HIDE DEF S, T
  <2>2. Cardinality(T) = Cardinality(S) + 1
    BY <1>4, <2>1, FS_AddElement
  <2> QED
    BY <1>3, <1>4, <1>5, <2>2
<1>6. CASE f # fd
  <2>1. T = S
    BY <1>1, <1>6
  <2> HIDE DEF S, T
  <2> QED
    BY <1>3, <1>4, <1>6, <2>1
<1> QED
  BY <1>5, <1>6

LEMMA NumbersUnchanged ==
    ASSUME NeverReopened, NumbersDiffer, UNCHANGED <<setup, written>>,
           \A fd \in Fds \ Reconnects : opened'[fd] = opened[fd]
    PROVE  NeverReopened' /\ NumbersDiffer'
<1>1. UNCHANGED <<Reconnects, Count>>
  BY DEF Reconnects, Count
<1>2. \A fd \in Fds \ Reconnects : Correlation(fd)' = Correlation(fd)
  BY DEF Correlation
<1> QED
  BY <1>1, <1>2 DEF NeverReopened, NumbersDiffer

LEMMA WriteKeepsPairing ==
    ASSUME Base, Pairing, NEW cpu \in Cpus, NEW fd \in Fds, NEW type \in Types,
           NEW stream \in Streams \cup {-1}, trace_enter_write(cpu, fd, type, stream)
    PROVE  Pairing'
<1>1. PICK new :
        /\ new = Len(written) + 1 /\ new # 0 /\ Len(written') = new
        /\ Count' = Count \cup {new} /\ new \notin Count
        /\ \A i \in Count : written'[i] = written[i]
        /\ written'[new] = [fd |-> fd, stream |-> stream, type |-> type,
                            correlation |-> Correlation(fd)]
  BY WriteAppends
<1>2. /\ waiting' = [waiting EXCEPT ![fd] =
                       @ \cup IF Answered(fd, type) THEN {new} ELSE {}]
      /\ fd \in Awaits \/ stream # -1 => \A id \in waiting[fd] : written[id].stream # stream
      /\ stream # -1 <=> Speaks[fd] = "cassandra"
      /\ UNCHANGED <<setup, opened, inRead, active_reads, returning, astray>>
  BY <1>1 DEF trace_enter_write, MaySend
<1>3. /\ UNCHANGED <<Speaks, Awaits, Reconnects, ReadSlots, Roomy>>
      /\ \A f : OneAtATime(f)' = OneAtATime(f) /\ Own(f)' = Own(f)
  BY <1>2 DEF Speaks, Awaits, Reconnects, ReadSlots, Roomy, OneAtATime, Own
<1>4. \/ UNCHANGED <<active_l7_requests, running>>
      \/ /\ Answered(fd, type) /\ <<fd, stream>> \in Keys_
         /\ \E req \in Request :
               /\ req.id = new
               /\ active_l7_requests'[<<fd, stream>>] = req
               /\ \A k \in Keys_ \ {<<fd, stream>>} :
                     active_l7_requests'[k] \in {active_l7_requests[k], None}
               /\ \A c \in Cpus : GoesOn(running'[c], running[c], req)
               /\ \A c \in Cpus : running[c] # None => running'[c] # None
  BY <1>1, WriteStores DEF Answered
<1>5. \E req : /\ UNCHANGED running \/ req.id = new
               /\ \A c \in Cpus : GoesOn(running'[c], running[c], req)
               /\ \A c \in Cpus : running[c] # None => running'[c] # None
  BY <1>4 DEF GoesOn
<1>6. \A f \in Fds : waiting[f] \subseteq Count
  BY DEF Base, WrittenAreSent
<1>7. ReadsAreFollowed'
  <2>1. \A t : Busy(t) => Busy(t)'
    BY <1>2, <1>5, BusyStays DEF GoesOn
  <2> QED
    BY <1>2, <1>3, <2>1 DEF Pairing, ReadsAreFollowed
<1>8. OneIsAwaited'
  <2> SUFFICES ASSUME NEW f \in Fds, OneAtATime(f), NEW i \in waiting'[f], NEW j \in waiting'[f],
                      written'[i].stream = written'[j].stream
               PROVE  i = j
    BY <1>3 DEF OneIsAwaited
  <2>1. CASE f = fd
    <3>1. waiting'[f] \subseteq waiting[f] \cup {new}
      BY <1>2, <2>1 DEF Base, TypeOK
    <3>2. \A id \in waiting[fd] : written'[id].stream # written'[new].stream
      BY <1>1, <1>2, <1>6, <2>1 DEF OneAtATime
    <3> QED
      BY <1>1, <1>6, <2>1, <3>1, <3>2 DEF Pairing, OneIsAwaited
  <2>2. CASE f # fd
    <3>1. waiting'[f] = waiting[f]
      BY <1>2, <2>2 DEF Base, TypeOK
    <3> QED
      BY <1>1, <1>6, <3>1 DEF Pairing, OneIsAwaited
  <2> QED
    BY <2>1, <2>2
<1>9. StoredAreAwaited'
  <2> SUFFICES ASSUME Roomy, NEW k \in Keys_, Own(k[1]), active_l7_requests'[k] # None
               PROVE  /\ active_l7_requests'[k].id \in waiting'[k[1]]
                      /\ written'[active_l7_requests'[k].id].stream = k[2]
    BY <1>3 DEF StoredAreAwaited
  <2>1. CASE active_l7_requests'[k] = active_l7_requests[k]
    <3>1. k[1] \in Fds /\ waiting[k[1]] \subseteq waiting'[k[1]]
      BY <1>2 DEF Base, TypeOK, Keys_
    <3> QED
      BY <1>1, <1>6, <2>1, <3>1 DEF Pairing, StoredAreAwaited
  <2>2. CASE active_l7_requests'[k] # active_l7_requests[k]
    <3>1. /\ k = <<fd, stream>> /\ Answered(fd, type) /\ active_l7_requests'[k].id = new
      BY <1>4, <2>2
    <3>2. k[1] = fd /\ k[2] = stream /\ new \in waiting'[fd]
      BY <1>2, <3>1 DEF Base, TypeOK
    <3> QED
      BY <1>1, <3>1, <3>2
  <2> QED
    BY <2>1, <2>2
<1>10. WorkedAreAwaited'
  BY <1>3, <1>5 DEF Pairing, WorkedAreAwaited, GoesOn
<1>11. NeverReopened'
  BY <1>2, <1>3 DEF Pairing, NeverReopened
<1>12. NumbersDiffer'
  <2> SUFFICES ASSUME NEW f \in Fds \ Reconnects, NEW i \in Count', written'[i].fd = f
               PROVE  /\ written'[i].correlation < Correlation(f)'
                      /\ \A j \in Count' : written'[j].fd = f
                            /\ written'[j].correlation = written'[i].correlation => i = j
    BY <1>3 DEF NumbersDiffer
  <2>1. /\ Correlation(f) \in Nat
        /\ Correlation(f)' = IF f = fd THEN Correlation(f) + 1 ELSE Correlation(f)
    BY CorrelationGrows DEF Pairing
  <2>2. \A j \in Count : written[j].correlation \in Nat
    BY WrittenTypes DEF Base, Ids
  <2>3. \A j \in Count : written[j].fd = f =>
           /\ written[j].correlation < Correlation(f)
           /\ \A l \in Count : written[l].fd = f
                 /\ written[l].correlation = written[j].correlation => l = j
    BY DEF Pairing, NumbersDiffer
  <2>4. \A j \in Count' : j \in Count \/ j = new
    BY <1>1
  <2>5. written'[i].correlation < Correlation(f)'
    BY <1>1, <2>1, <2>2, <2>3, <2>4
  <2>6. ASSUME NEW j \in Count', written'[j].fd = f,
               written'[j].correlation = written'[i].correlation
        PROVE  i = j
    BY <1>1, <2>1, <2>2, <2>3, <2>4, <2>6
  <2> QED
    BY <2>5, <2>6
<1>13. SlotsAreOthers'
  <2>1. \A c \in Cpus : running[c] # None => running[c].data.id \in Count \cup {0}
    BY DEF Base, WorksAreKeyed, WorkIsKeyed, WrittenAreSent, TypeOK, Work, Keys_
  <2> QED
    BY <1>1, <1>5, <2>1 DEF Pairing, SlotsAreOthers, GoesOn
<1> QED
  BY <1>7, <1>8, <1>9, <1>10, <1>11, <1>12, <1>13 DEF Pairing

(* The steps that write nothing and give no connection up: the numbers     *)
(* stay, and so does what is awaited where nothing returns.                *)
LEMMA EnterReadKeepsPairing ==
    ASSUME Base, Pairing, NEW t \in Threads, NEW fd \in Fds, trace_enter_read(t, fd)
    PROVE  Pairing'
<1> USE DEF trace_enter_read
<1>1. UNCHANGED <<Speaks, Awaits, Reconnects, ReadSlots, Count>>
  BY DEF Speaks, Awaits, Reconnects, ReadSlots, Count
<1>2. NeverReopened' /\ NumbersDiffer'
  BY NumbersUnchanged DEF Pairing
<1>3. OneIsAwaited' /\ StoredAreAwaited' /\ WorkedAreAwaited' /\ SlotsAreOthers'
  BY <1>1 DEF Pairing, OneIsAwaited, StoredAreAwaited, WorkedAreAwaited, SlotsAreOthers,
              OneAtATime, Own, Roomy
<1>4. active_reads[t] = None
  BY NoneAssumption DEF Base, ReadsAreOwn, TypeOK
<1>5. ASSUME Roomy
      PROVE  active_reads' = [active_reads EXCEPT ![t] = fd]
  <2>1. Keys(active_reads) \in SUBSET (Threads \ {t})
    BY <1>4 DEF Keys, Base, TypeOK
  <2>2. /\ IsFiniteSet(Threads \ {t})
        /\ Cardinality(Threads \ {t}) = Cardinality(Threads) - 1
    BY ThreadsAssumption, FS_RemoveElement
  <2>3. Cardinality(Keys(active_reads)) <= Cardinality(Threads \ {t})
    BY <2>1, <2>2, FS_Subset
  <2>4. Cardinality(Threads) \in Nat /\ Cardinality(Keys(active_reads)) \in Nat
    BY <2>1, <2>2, ThreadsAssumption, FS_Subset, FS_CardinalityType
  <2>5. ReadSlots \in Nat
    BY SetupsAssumption DEF Base, TypeOK, ReadSlots
  <2>6. HasRoom(active_reads, t, ReadSlots)
    BY <1>5, <2>2, <2>3, <2>4, <2>5 DEF HasRoom, Roomy
  <2> QED
    BY <2>6 DEF HashUpdate
<1>6. ReadsAreFollowed'
  <2>1. \A c \in Cpus : returning[c] # None =>
           returning'[c] # None /\ returning'[c].thread = returning[c].thread
    BY ArgsTakenLemma DEF Base, ReadGoesOn
  <2>2. \A u : Busy(u) => Busy(u)'
    BY <2>1, BusyStays
  <2> QED
    BY <1>1, <1>5, <2>2 DEF Pairing, ReadsAreFollowed, Roomy, Base, TypeOK
<1> QED
  BY <1>2, <1>3, <1>6 DEF Pairing

LEMMA ReconnectKeepsPairing ==
    ASSUME Base, Pairing, NEW fd \in Fds, Reconnect(fd)
    PROVE  Pairing'
<1> USE DEF Reconnect, maps, probe
<1>1. UNCHANGED <<Speaks, Awaits, Reconnects, ReadSlots, Count>>
  BY DEF Speaks, Awaits, Reconnects, ReadSlots, Count
<1>2. \A f \in Fds \ {fd} : waiting'[f] = waiting[f] /\ opened'[f] = opened[f]
  BY DEF Base, TypeOK
<1>3. waiting'[fd] = {} /\ ~ Own(fd)
  BY DEF Base, TypeOK, Own
<1>4. NeverReopened' /\ NumbersDiffer'
  BY <1>2, NumbersUnchanged DEF Pairing
<1>5. ReadsAreFollowed' /\ WorkedAreAwaited' /\ SlotsAreOthers'
  BY <1>1 DEF Pairing, ReadsAreFollowed, WorkedAreAwaited, SlotsAreOthers, OneAtATime, Own, Roomy,
              Busy
<1>6. OneIsAwaited'
  BY <1>1, <1>2, <1>3 DEF Pairing, OneIsAwaited, OneAtATime
<1>7. StoredAreAwaited'
  BY <1>1, <1>2, <1>3 DEF Pairing, StoredAreAwaited, OneAtATime, Own, Roomy, Keys_
<1> QED
  BY <1>4, <1>5, <1>6, <1>7 DEF Pairing

LEMMA ExitReadKeepsPairing ==
    ASSUME Base, Pairing, NEW t \in Threads, NEW cpu \in Cpus, NEW data \in Data,
           trace_exit_read(t, cpu, data)
    PROVE  Pairing'
<1> DEFINE fd == inRead[t]
<1>1. /\ Free(cpu) /\ ~ Busy(t) /\ fd \in Fds /\ fd # None /\ Delivers(fd, data)
      /\ active_reads' = MapDelete(active_reads, t)
      /\ UNCHANGED <<active_l7_requests, running, astray>>
  BY ExitReadCases
<1>2. UNCHANGED <<setup, written, opened>>
  BY ExitReadCases DEF Returns, world
<1>3. UNCHANGED <<Speaks, Awaits, Reconnects, ReadSlots, Count, Roomy>>
      /\ \A f : OneAtATime(f)' = OneAtATime(f) /\ Own(f)' = Own(f)
  BY <1>1, <1>2 DEF Speaks, Awaits, Reconnects, ReadSlots, Count, Roomy, OneAtATime, Own
<1>4. NeverReopened' /\ NumbersDiffer'
  BY <1>2, NumbersUnchanged DEF Pairing
<1>5. \A u \in Threads \ {t} : active_reads'[u] = active_reads[u]
  BY <1>1 DEF MapDelete, Base, TypeOK
<1>6. WorkedAreAwaited' /\ SlotsAreOthers'
  BY <1>1, <1>3 DEF Pairing, WorkedAreAwaited, SlotsAreOthers
<1>7. CASE /\ active_reads[t] = None \/ data.kind = "error"
           /\ Returns(t, data.id) /\ UNCHANGED returning
  <2>1. /\ inRead' = [inRead EXCEPT ![t] = None]
        /\ waiting' = [waiting EXCEPT ![fd] = @ \ {data.id}]
    BY <1>7 DEF Returns
  <2>2. /\ waiting'[fd] = waiting[fd] \ {data.id}
        /\ \A f \in Fds \ {fd} : waiting'[f] = waiting[f]
    BY <1>1, <2>1 DEF Base, TypeOK
  <2>3. ReadsAreFollowed'
    <3>1. \A u : Busy(u)' = Busy(u)
      BY <1>1, <1>7 DEF Busy
    <3> QED
      BY <1>3, <1>5, <2>1, <3>1 DEF Pairing, ReadsAreFollowed, Base, TypeOK
  <2>4. OneIsAwaited'
    BY <1>2, <1>3, <2>2 DEF Pairing, OneIsAwaited
  <2>5. ASSUME Roomy
        PROVE  data.id = 0
    BY <1>1, <1>7, <2>5 DEF Pairing, ReadsAreFollowed, Delivers
  <2>6. StoredAreAwaited'
    <3> SUFFICES ASSUME Roomy, NEW k \in Keys_, Own(k[1]), active_l7_requests[k] # None
                 PROVE  /\ active_l7_requests[k].id \in waiting'[k[1]]
                        /\ written[active_l7_requests[k].id].stream = k[2]
      BY <1>1, <1>2, <1>3 DEF StoredAreAwaited
    <3>1. /\ active_l7_requests[k].id \in waiting[k[1]]
          /\ written[active_l7_requests[k].id].stream = k[2]
          /\ k[1] \in Fds /\ active_l7_requests[k].id # 0
      <4>1. active_l7_requests[k].id \in Ids /\ k[1] \in Fds
        BY DEF Base, TypeOK, Request, Keys_
      <4> QED
        BY <4>1 DEF Pairing, StoredAreAwaited, Ids
    <3> QED
      BY <2>2, <2>5, <3>1
  <2> QED
    BY <1>4, <1>6, <2>3, <2>4, <2>6 DEF Pairing
<1>8. ASSUME UNCHANGED world, NEW read \in Read, read.thread = t,
             returning' = [returning EXCEPT ![cpu] = read]
      PROVE  Pairing'
  <2>1. UNCHANGED <<waiting, inRead>>
    BY <1>8 DEF world
  <2>2. returning'[cpu] = read /\ \A c \in Cpus \ {cpu} : returning'[c] = returning[c]
    BY <1>8 DEF Base, TypeOK
  <2>3. Busy(t)'
    BY <1>8, <2>2, NoneAssumption DEF Busy
  <2>4. \A u : Busy(u) => Busy(u)'
    BY <1>1, <2>2, BusyStays DEF Free
  <2>5. ReadsAreFollowed'
    BY <1>3, <1>5, <2>1, <2>3, <2>4 DEF Pairing, ReadsAreFollowed
  <2>6. OneIsAwaited' /\ StoredAreAwaited'
    BY <1>1, <1>2, <1>3, <2>1 DEF Pairing, OneIsAwaited, StoredAreAwaited
  <2> QED
    BY <1>4, <1>6, <2>5, <2>6 DEF Pairing
<1> QED
  BY <1>7, <1>8, ExitReadCases

LEMMA LookUpKeepsPairing ==
    ASSUME Base, Pairing, NEW cpu \in Cpus, NEW args \in Fds, NEW data \in Data,
           LookUpRequest(cpu, args, data)
    PROVE  Pairing'
<1>0. PICK p, fd, t : p = returning[cpu] /\ fd = p.fd /\ t = p.thread
  OBVIOUS
<1> DEFINE key == LookUpKey(fd, data)
<1>1. /\ p # None /\ fd \in Fds /\ t \in Threads /\ ReadIsKeyed(p)
      /\ running[cpu] = None /\ inRead[t] = fd /\ fd # None
      /\ returning' = [returning EXCEPT ![cpu] = None]
      /\ astray \subseteq astray'
      /\ fd \notin astray' => data = p.data
      /\ key \in Keys_ /\ key[1] = fd
      /\ UNCHANGED <<active_reads, active_l7_requests>>
  <2>1. astray \subseteq astray' /\ (fd \notin astray' => data = p.data)
    BY <1>0, LookUpCases
  <2> QED
    BY <1>0, <2>1, LookUpCases
<1>2. UNCHANGED <<setup, written, opened>>
  BY LookUpCases DEF Returns, world
<1>3. UNCHANGED <<Speaks, Awaits, Reconnects, ReadSlots, Count, Roomy>>
      /\ \A f : OneAtATime(f)' = OneAtATime(f) /\ (Own(f)' => Own(f))
  BY <1>1, <1>2 DEF Speaks, Awaits, Reconnects, ReadSlots, Count, Roomy, OneAtATime, Own
<1>4. NeverReopened' /\ NumbersDiffer'
  BY <1>2, NumbersUnchanged DEF Pairing
<1>5. \A c \in Cpus : returning[c] # None /\ returning[c].thread # t =>
         returning'[c] = returning[c]
  BY <1>0, <1>1 DEF Base, TypeOK
<1>6. Own(fd)' => data = p.data
  BY <1>1 DEF Own
<1> HIDE DEF key
<1>7. CASE /\ Returns(t, p.data.id) /\ UNCHANGED running
           /\ \/ data.kind \in {"error", "message", "frames"}
              \/ active_l7_requests[key] = None
  <2>1. /\ inRead' = [inRead EXCEPT ![t] = None]
        /\ waiting' = [waiting EXCEPT ![fd] = @ \ {p.data.id}]
    BY <1>1, <1>7 DEF Returns
  <2>2. /\ waiting'[fd] = waiting[fd] \ {p.data.id}
        /\ \A f \in Fds \ {fd} : waiting'[f] = waiting[f]
    BY <1>1, <2>1 DEF Base, TypeOK
  <2>3. ReadsAreFollowed'
    <3>1. \A u : u # t /\ Busy(u) => Busy(u)'
      BY <1>5, <1>7, BusyStays
    <3> QED
      BY <1>1, <1>3, <2>1, <3>1 DEF Pairing, ReadsAreFollowed, Base, TypeOK
  <2>4. OneIsAwaited'
    BY <1>2, <1>3, <2>2 DEF Pairing, OneIsAwaited
  <2>5. StoredAreAwaited'
    <3> SUFFICES ASSUME Roomy, NEW k \in Keys_, Own(k[1])', active_l7_requests[k] # None
                 PROVE  /\ active_l7_requests[k].id \in waiting'[k[1]]
                        /\ written[active_l7_requests[k].id].stream = k[2]
      BY <1>1, <1>2, <1>3 DEF StoredAreAwaited
    <3>1. /\ active_l7_requests[k].id \in waiting[k[1]]
          /\ written[active_l7_requests[k].id].stream = k[2]
          /\ k[1] \in Fds /\ k = <<k[1], k[2]>> /\ active_l7_requests[k].id # 0
      <4>1. active_l7_requests[k].id \in Ids /\ k[1] \in Fds /\ k = <<k[1], k[2]>>
        BY DEF Base, TypeOK, Request, Keys_
      <4> QED
        BY <1>3, <4>1 DEF Pairing, StoredAreAwaited, Ids
    <3>2. CASE k[1] = fd /\ active_l7_requests[k].id = p.data.id
      <4>1. data = p.data /\ data.kind = "response"
        BY <1>1, <1>6, <3>1, <3>2 DEF ReadIsKeyed
      <4>2. k = <<fd, Stream(data)>>
        BY <3>1, <3>2, <4>1 DEF Stream
      <4>3. active_l7_requests[key] = None
        BY <1>7, <4>1
      <4> QED
        BY <4>2, <4>3 DEF key, LookUpKey
    <3>3. CASE ~ (k[1] = fd /\ active_l7_requests[k].id = p.data.id)
      BY <2>2, <3>1, <3>3
    <3> QED
      BY <3>2, <3>3
  <2>6. WorkedAreAwaited' /\ SlotsAreOthers'
    BY <1>3, <1>7 DEF Pairing, WorkedAreAwaited, SlotsAreOthers
  <2> QED
    BY <1>4, <2>3, <2>4, <2>5, <2>6 DEF Pairing
<1>8. ASSUME UNCHANGED world, active_l7_requests[key] # None, NEW w \in Work,
             w.thread = t, w.key = key, w.data = data, w.got = p.data.id,
             w.req = active_l7_requests[key], w.slot = {active_l7_requests[key]},
             running' = [running EXCEPT ![cpu] = w]
      PROVE  Pairing'
  <2>1. UNCHANGED <<waiting, inRead>>
    BY <1>8 DEF world
  <2>2. running'[cpu] = w /\ w # None /\ \A c \in Cpus \ {cpu} : running'[c] = running[c]
    BY <1>8, NoneAssumption DEF Base, TypeOK
  <2>3. ReadsAreFollowed'
    <3>1. Busy(t)'
      BY <1>8, <2>2 DEF Busy
    <3>2. \A u : u # t /\ Busy(u) => Busy(u)'
      BY <1>1, <1>5, <2>2, BusyStays
    <3> QED
      BY <1>1, <1>3, <2>1, <3>1, <3>2 DEF Pairing, ReadsAreFollowed
  <2>4. OneIsAwaited' /\ StoredAreAwaited'
    BY <1>1, <1>2, <1>3, <2>1 DEF Pairing, OneIsAwaited, StoredAreAwaited
  <2>5. SlotsAreOthers'
    BY <1>8, <2>2 DEF Pairing, SlotsAreOthers
  <2>6. ASSUME Roomy, Own(w.key[1])', w.data.kind = "response"
        PROVE  w.req.id = w.data.id
    <3>1. w.key[1] = fd /\ Own(fd)' /\ Own(fd) /\ data = p.data /\ data.kind = "response"
      BY <1>1, <1>3, <1>6, <1>8, <2>6
    <3>2. data.id \in waiting[fd] /\ written[data.id].fd = fd /\ data.id \in Count
      <4>1. data.id \in waiting[fd]
        BY <1>0, <1>1, <3>1 DEF ReadIsKeyed
      <4> QED
        BY <1>1, <4>1 DEF Base, WrittenAreSent
    <3>3. /\ active_l7_requests[key].id \in waiting[fd]
          /\ written[active_l7_requests[key].id].stream = key[2]
      BY <1>1, <1>8, <2>6, <3>1 DEF Pairing, StoredAreAwaited
    <3>4. key[2] = written[data.id].stream
      <4>1. key[2] \in {-1, written[data.id].stream}
        BY <3>1 DEF key, LookUpKey, Stream
      <4>2. key[2] # -1 <=> Speaks[fd] = "cassandra"
        BY <1>1, <1>8 DEF Base, EntriesAreKeyed
      <4>3. written[data.id].stream # -1 <=> Speaks[fd] = "cassandra"
        BY <3>2 DEF Base, WrittenAreSent
      <4> QED
        BY <4>1, <4>2, <4>3
    <3> QED
      BY <1>1, <1>8, <3>1, <3>2, <3>3, <3>4 DEF Pairing, OneIsAwaited, Own
  <2>7. WorkedAreAwaited'
    <3> SUFFICES ASSUME Roomy, NEW c \in Cpus, running'[c] # None, Own(running[c].key[1])',
                        running'[c].data.kind = "response"
                 PROVE  running'[c].req.id = running'[c].data.id
      BY <1>3 DEF WorkedAreAwaited, Own
    <3>1. CASE c = cpu
      BY <2>2, <2>6, <3>1 DEF Own
    <3>2. CASE c # cpu
      BY <1>3, <2>2, <3>2 DEF Pairing, WorkedAreAwaited, Own
    <3> QED
      BY <3>1, <3>2
  <2> QED
    BY <1>4, <2>3, <2>4, <2>5, <2>7 DEF Pairing
<1> QED
  <2>0. p = returning[cpu] /\ fd = returning[cpu].fd /\ t = returning[cpu].thread
    BY <1>0
  <2>1. CASE Returns(t, p.data.id) /\ UNCHANGED running
    <3>1. data.kind \in {"error", "message", "frames"} \/ active_l7_requests[key] = None
          \/ \E w \in Work : running' = [running EXCEPT ![cpu] = w]
      BY <2>0, LookUpCases DEF key
    <3>2. ~ \E w \in Work : running' = [running EXCEPT ![cpu] = w]
      BY <1>1, <2>1, NoneAssumption DEF Base, TypeOK
    <3> QED
      BY <1>7, <2>1, <3>1, <3>2
  <2>2. \/ Returns(t, p.data.id) /\ UNCHANGED running
        \/ /\ UNCHANGED world
           /\ active_l7_requests[key] # None
           /\ \E w \in Work :
                 /\ w.thread = t /\ w.key = key
                 /\ w.data = data /\ w.got = p.data.id
                 /\ w.req = active_l7_requests[key] /\ w.slot = {active_l7_requests[key]}
                 /\ running' = [running EXCEPT ![cpu] = w]
    BY <2>0, LookUpCases DEF key
  <2> QED
    BY <1>8, <2>1, <2>2

LEMMA DeleteKeepsPairing ==
    ASSUME Base, Pairing, NEW cpu \in Cpus, DeleteRequest(cpu)
    PROVE  Pairing'
<1>1. /\ running[cpu] # None /\ running[cpu] \in Work /\ running[cpu].key \in Keys_
      /\ \A k \in Keys_ : active_l7_requests'[k] \in {active_l7_requests[k], None}
      /\ running' = [running EXCEPT ![cpu] = [running[cpu] EXCEPT !.step = "use"]]
      /\ UNCHANGED <<world, active_reads, returning, astray>>
  BY DeleteCases
<1>2. UNCHANGED <<setup, written, opened, waiting, inRead, active_reads>>
  BY <1>1 DEF world
<1>3. UNCHANGED <<Speaks, Awaits, Reconnects, ReadSlots, Count, Roomy>>
      /\ \A f : OneAtATime(f)' = OneAtATime(f) /\ Own(f)' = Own(f)
  BY <1>1, <1>2 DEF Speaks, Awaits, Reconnects, ReadSlots, Count, Roomy, OneAtATime, Own
<1>4. /\ \A c \in Cpus : running'[c] # None <=> running[c] # None
      /\ \A c \in Cpus : running[c] # None =>
                          /\ running'[c].thread = running[c].thread
                          /\ running'[c].key = running[c].key /\ running'[c].data = running[c].data
                          /\ running'[c].req = running[c].req /\ running'[c].slot = running[c].slot
  <2>1. [running[cpu] EXCEPT !.step = "use"] \in Work
    BY <1>1 DEF Work
  <2> QED
    BY <1>1, <2>1, NoneAssumption DEF Base, TypeOK, Work
<1>5. NeverReopened' /\ NumbersDiffer'
  BY <1>2, NumbersUnchanged DEF Pairing
<1>6. ReadsAreFollowed' /\ OneIsAwaited'
  <2>1. \A t : Busy(t) => Busy(t)'
    BY <1>1, <1>4, BusyStays
  <2> QED
    BY <1>2, <1>3, <2>1 DEF Pairing, ReadsAreFollowed, OneIsAwaited
<1>7. StoredAreAwaited'
  BY <1>1, <1>2, <1>3 DEF Pairing, StoredAreAwaited
<1>8. WorkedAreAwaited' /\ SlotsAreOthers'
  BY <1>3, <1>4 DEF Pairing, WorkedAreAwaited, SlotsAreOthers
<1> QED
  BY <1>5, <1>6, <1>7, <1>8 DEF Pairing

LEMMA UseKeepsPairing ==
    ASSUME Base, Once, Pairing, NEW cpu \in Cpus, UseRequest(cpu)
    PROVE  Pairing'
<1> DEFINE p  == running[cpu]
           fd == p.key[1]
<1>1. /\ p # None /\ p.step = "use" /\ p \in Work /\ p.key \in Keys_ /\ fd \in Fds
      /\ p.thread \in Threads /\ p.data \in Data /\ p.req \in Request
      /\ WorkIsKeyed(p) /\ active_reads[p.thread] = None
      /\ Returns(p.thread, p.got) /\ UNCHANGED <<active_reads, returning, astray>>
  BY UseCases
<1>2. /\ UNCHANGED <<setup, written, opened>>
      /\ inRead' = [inRead EXCEPT ![p.thread] = None]
      /\ waiting'[fd] = waiting[fd] \ {p.got}
      /\ \A f \in Fds \ {fd} : waiting'[f] = waiting[f]
  BY <1>1 DEF Returns, WorkIsKeyed, Base, TypeOK
<1>3. UNCHANGED <<Speaks, Awaits, Reconnects, ReadSlots, Count, Roomy>>
      /\ \A f : OneAtATime(f)' = OneAtATime(f) /\ Own(f)' = Own(f)
  BY <1>1, <1>2 DEF Speaks, Awaits, Reconnects, ReadSlots, Count, Roomy, OneAtATime, Own
<1>4. PICK r \in p.slot :
        r \in Request /\ (StoresAnew(cpu, p, r) \/ Reports(cpu, p, r) \/ Drops(cpu))
  BY UseCases
<1>5. Again(cpu, r).protocol = "mongo"
  BY <1>4 DEF Again
<1>6. /\ running'[cpu] = None
      /\ \A c \in Cpus : running'[c] # None => GoesOn(running'[c], running[c], Again(cpu, r))
      /\ \A c \in Cpus \ {cpu} : running[c] # None => running'[c] # None
  <2>1. CASE running' = [running EXCEPT ![cpu] = None]
    <3>1. running'[cpu] = None /\ \A c \in Cpus \ {cpu} : running'[c] = running[c]
      BY <2>1 DEF Base, TypeOK
    <3> QED
      BY <3>1 DEF GoesOn
  <2>2. CASE StoresAnew(cpu, p, r)
    BY <2>2 DEF StoresAnew
  <2> QED
    BY <1>4, <2>1, <2>2 DEF Reports, Drops
<1>7. \A k \in Keys_ : active_l7_requests'[k] # None =>
         \/ active_l7_requests'[k] = active_l7_requests[k]
         \/ k = p.key /\ Speaks[k[1]] = "mongo"
  BY <1>1, <1>4 DEF StoresAnew, Reports, Drops, WorkIsKeyed
<1>8. NeverReopened' /\ NumbersDiffer'
  BY <1>2, NumbersUnchanged DEF Pairing
<1>9. ReadsAreFollowed'
  <2> SUFFICES ASSUME Roomy, NEW t \in Threads, inRead'[t] # None
               PROVE  \/ active_reads'[t] = inRead'[t]
                      \/ Busy(t)'
    BY <1>3 DEF ReadsAreFollowed
  <2>1. t # p.thread /\ inRead'[t] = inRead[t]
    BY <1>2 DEF Base, TypeOK
  <2>2. CASE active_reads[t] = inRead[t]
    BY <1>1, <2>1, <2>2
  <2>3. CASE Busy(t)
    BY <1>1, <1>6, <2>1, <2>3, BusyStays DEF GoesOn
  <2> QED
    BY <2>1, <2>2, <2>3 DEF Pairing, ReadsAreFollowed
<1>10. OneIsAwaited'
  BY <1>2, <1>3 DEF Pairing, OneIsAwaited
<1>11. StoredAreAwaited'
  <2> SUFFICES ASSUME Roomy, NEW k \in Keys_, Own(k[1]), active_l7_requests'[k] # None
               PROVE  /\ active_l7_requests'[k].id \in waiting'[k[1]]
                      /\ written[active_l7_requests'[k].id].stream = k[2]
    BY <1>2, <1>3 DEF StoredAreAwaited
  <2>1. active_l7_requests'[k] = active_l7_requests[k] /\ k[1] \in Fds
    BY <1>7 DEF Own, Keys_
  <2>2. /\ active_l7_requests[k].id \in waiting[k[1]]
        /\ written[active_l7_requests[k].id].stream = k[2]
    BY <2>1 DEF Pairing, StoredAreAwaited
  <2>3. ~ (k[1] = fd /\ active_l7_requests[k].id = p.got)
    <3> SUFFICES ASSUME k[1] = fd, active_l7_requests[k].id = p.got
                 PROVE  FALSE
      OBVIOUS
    <3>1. active_l7_requests[k].id \in Ids /\ Own(fd)
      BY <2>1 DEF Base, TypeOK, Request
    <3>2. p.data.id = p.got /\ p.data.kind = "response"
      BY <1>1, <3>1 DEF WorkIsKeyed, Own, Ids
    <3>3. p.req.id = p.data.id
      BY <1>1, <3>1, <3>2 DEF Pairing, WorkedAreAwaited
    <3> QED
      BY <1>1, <2>1, <3>2, <3>3 DEF Once, WorkIsElsewhere
  <2> QED
    BY <1>2, <2>1, <2>2, <2>3
<1>12. WorkedAreAwaited'
  BY <1>3, <1>6 DEF Pairing, WorkedAreAwaited, GoesOn
<1>13. SlotsAreOthers'
  BY <1>5, <1>6 DEF Pairing, SlotsAreOthers, GoesOn
<1> QED
  BY <1>8, <1>9, <1>10, <1>11, <1>12, <1>13 DEF Pairing

(* A record is made with the response that its request is paired with.     *)
LEMMA UseReportsOwn ==
    ASSUME Base, Pairing, NEW cpu \in Cpus, UseRequest(cpu)
    PROVE  OwnResponse'
<1> DEFINE p  == running[cpu]
           fd == p.key[1]
<1>1. /\ p # None /\ p \in Work /\ fd \in Fds /\ WorkIsKeyed(p) /\ Returns(p.thread, p.got)
      /\ UNCHANGED astray
  BY UseCases
<1>2. PICK r \in p.slot :
        r \in Request /\ (StoresAnew(cpu, p, r) \/ Reports(cpu, p, r) \/ Drops(cpu))
  BY UseCases
<1>3. UNCHANGED setup
  BY <1>1 DEF Returns
<1>4. UNCHANGED <<Speaks, Awaits, Reconnects, Roomy>> /\ \A f : Named(f)' = Named(f)
  BY <1>3 DEF Speaks, Awaits, Reconnects, ReadSlots, Roomy, Named
<1> SUFFICES ASSUME Roomy, Reports(cpu, p, r), fd \in Awaits \/ Named(fd),
                    fd \notin Reconnects \cup astray, Speaks[fd] # "mongo"
             PROVE  p.data.id = p.req.id
  BY <1>1, <1>2, <1>4 DEF OwnResponse, Matched, Reports, StoresAnew, Drops, Roomy
<1>5. IsResponse(r, p.req.protocol, p.data) /\ p.data.kind = "response"
  BY DEF Reports, IsResponse
<1>6. CASE OneAtATime(fd)
  BY <1>1, <1>5, <1>6 DEF Pairing, WorkedAreAwaited, Own
<1>7. CASE ~ OneAtATime(fd)
  <2>1. Speaks[fd] = "kafka" /\ \A other \in Fds \ {fd} : Speaks[other] \notin {"kafka", "mongo"}
    BY <1>7 DEF Named, OneAtATime
  <2>2. /\ p.data.id \in Count /\ Speaks[written[p.data.id].fd] = "kafka"
        /\ r.request_id = written[p.data.id].correlation
    BY <1>1, <1>5, <2>1 DEF IsResponse, WorkIsKeyed
  <2>3. written[p.data.id].fd = fd /\ written[p.data.id].correlation \in Ids
    BY <2>1, <2>2, WrittenTypes DEF Base
  <2>4. r.id \in Count /\ r.protocol = "kafka" /\ Speaks[written[r.id].fd] = "kafka"
        /\ written[r.id].correlation = written[p.data.id].correlation
    <3>1. Known(r)
      BY <1>1, <1>2 DEF WorkIsKeyed
    <3>2. r.protocol # "mongo"
      BY <2>1, <3>1 DEF Known
    <3> QED
      BY <2>2, <2>3, <3>1, <3>2 DEF Known, Ids
  <2>5. written[r.id].fd = fd
    BY <2>1, <2>4, WrittenTypes DEF Base
  <2>6. r.id = p.data.id
    BY <1>1, <2>2, <2>3, <2>4, <2>5 DEF Pairing, NumbersDiffer
  <2> QED
    BY <1>1, <1>2, <2>4, <2>6 DEF Pairing, SlotsAreOthers
<1> QED
  BY <1>6, <1>7

(* The other steps report no request.                                      *)
ReportsNothing == reported' = reported /\ (output' # None => output'.id = 0) /\ FreshRecords'

LEMMA SilentReportsNothing == Silent => ReportsNothing
BY DEF Silent, ReportsNothing, FreshRecords

LEMMA ImmediateReportsNothing ==
    ASSUME Base, NEW cpu \in Cpus, NEW fd \in Fds, NEW method, NEW fields \in Fields,
           Immediate(cpu, fd, method, fields),
           \/ method \in {"CLIENT_FRAMES", "PRODUCE", "STATEMENT_CLOSE"}
           \/ method \in {"CONSUME", "SERVER_FRAMES"} /\ Afresh(fields)
    PROVE  ReportsNothing
<1>1. method \in Methods
  BY DEF Methods
<1>2. /\ output'.id = 0 /\ reported' = reported
      /\ output'.fields.method = method /\ output'.fields.status = fields.status
      /\ method \in {"CLIENT_FRAMES", "SERVER_FRAMES"} => output'.fields.duration = "own"
  BY <1>1, ImmediateLemma DEF Base
<1> QED
  BY <1>2 DEF FreshRecords, Afresh, ReportsNothing

LEMMA WriteReportsNothing ==
    ASSUME Base, NEW cpu \in Cpus, NEW fd \in Fds, NEW type \in Types,
           NEW stream \in Streams \cup {-1}, trace_enter_write(cpu, fd, type, stream)
    PROVE  ReportsNothing
<1>1. l7_event_heap[cpu] \in Fields
  BY DEF Base, TypeOK
<1>2. \/ Silent
      \/ \E method \in {"CLIENT_FRAMES", "PRODUCE", "STATEMENT_CLOSE"} :
            Immediate(cpu, fd, method, l7_event_heap[cpu])
  BY DEF trace_enter_write
<1> QED
  BY <1>1, <1>2, SilentReportsNothing, ImmediateReportsNothing

LEMMA LookUpReportsNothing ==
    ASSUME Base, NEW cpu \in Cpus, NEW args \in Fds, NEW data \in Data,
           LookUpRequest(cpu, args, data)
    PROVE  ReportsNothing
<1> DEFINE fd    == returning[cpu].fd
           fresh == Reset(l7_event_heap[cpu])
<1>1. fresh \in Fields /\ Afresh(fresh) /\ fd \in Fds
  BY ResetLemma, LookUpCases DEF Base
<1> HIDE DEF fresh, fd
<1>2. \/ Silent
      \/ \E method \in {"CONSUME", "SERVER_FRAMES"} : Immediate(cpu, fd, method, fresh)
  BY LookUpCases DEF fresh, fd
<1> QED
  BY <1>1, <1>2, SilentReportsNothing, ImmediateReportsNothing

LEMMA UseReportsFresh ==
    ASSUME Base, NEW cpu \in Cpus, UseRequest(cpu)
    PROVE  FreshRecords'
<1>1. PICK r : \/ StoresAnew(cpu, running[cpu], r)
               \/ Reports(cpu, running[cpu], r)
               \/ Drops(cpu)
  BY UseCases
<1> QED
  BY <1>1 DEF StoresAnew, Reports, Drops, FreshRecords

---------------------------------------------------------------------------
(* The inductive invariant.                                                *)

IInv == Base /\ Once /\ Pairing /\ FreshRecords /\ OwnResponse

LEMMA InitIInv == Init => IInv
BY InitBase, InitOthers DEF IInv, Init, FreshRecords, OwnResponse, Matched

(* One step: the invariant again, and no request is reported twice.        *)
LEMMA Inductive ==
    ASSUME IInv, [Next]_vars
    PROVE  /\ IInv'
           /\ ~ UNCHANGED vars /\ output' # None => <<output'.fd, output'.id>> \notin reported
<1> USE DEF IInv
<1>1. ASSUME NEW cpu \in Cpus, NEW fd \in Fds, NEW type \in Types, NEW stream \in Streams \cup {-1},
             trace_enter_write(cpu, fd, type, stream)
      PROVE  Base' /\ Once' /\ Pairing' /\ ReportsNothing
  BY <1>1, WriteKeepsBase, WriteKeepsOnce, WriteKeepsPairing, WriteReportsNothing
<1>2. ASSUME NEW t \in Threads, NEW fd \in Fds, trace_enter_read(t, fd)
      PROVE  Base' /\ Once' /\ Pairing' /\ ReportsNothing
  BY <1>2, EnterReadKeepsBase, EnterReadKeepsPairing, OnceUnchanged,
     SilentReportsNothing
     DEF trace_enter_read, Silent, Count
<1>3. ASSUME NEW fd \in Fds, Reconnect(fd)
      PROVE  Base' /\ Once' /\ Pairing' /\ ReportsNothing
  BY <1>3, ReconnectKeepsBase, ReconnectKeepsPairing, OnceUnchanged,
     SilentReportsNothing
     DEF Reconnect, Silent, maps, probe, Count
<1>4. ASSUME NEW t \in Threads, NEW cpu \in Cpus, NEW data \in Data, trace_exit_read(t, cpu, data)
      PROVE  Base' /\ Once' /\ Pairing' /\ ReportsNothing
  <2>1. Base' /\ Pairing'
    BY <1>4, ExitReadKeepsBase, ExitReadKeepsPairing
  <2>2. Silent /\ UNCHANGED <<active_l7_requests, running, reported, Count>>
    BY <1>4, ExitReadCases DEF Returns, world, Count, Silent
  <2> QED
    BY <2>1, <2>2, OnceUnchanged, SilentReportsNothing
<1>5. ASSUME NEW cpu \in Cpus, NEW fd \in Fds, NEW data \in Data, LookUpRequest(cpu, fd, data)
      PROVE  Base' /\ Once' /\ Pairing' /\ ReportsNothing
  BY <1>5, LookUpKeepsBase, LookUpKeepsOnce, LookUpKeepsPairing, LookUpReportsNothing
<1>6. ASSUME NEW cpu \in Cpus, DeleteRequest(cpu)
      PROVE  Base' /\ Once' /\ Pairing' /\ ReportsNothing
  BY <1>6, DeleteKeepsBase, DeleteKeepsOnce, DeleteKeepsPairing, SilentReportsNothing
     DEF DeleteRequest, DeleteFrom
<1>7. ASSUME NEW cpu \in Cpus, UseRequest(cpu)
      PROVE  /\ Base' /\ Once' /\ Pairing' /\ FreshRecords' /\ OwnResponse'
             /\ output' # None => <<output'.fd, output'.id>> \notin reported
  BY <1>7, UseKeepsBase, UseKeepsOnce, UseKeepsPairing, UseReportsFresh, UseReportsOwn
<1>8. CASE UNCHANGED vars
  <2>1. Base' /\ Once'
    BY <1>8, StutterKeepsBase, OnceUnchanged DEF vars, world, maps, probe, Count
  <2>2. UNCHANGED <<setup, written, opened, waiting, inRead, active_reads, active_l7_requests,
                    returning, running, astray, output>>
    BY <1>8 DEF vars, world, maps, probe
  <2>3. Pairing'
    <3>1. UNCHANGED <<Speaks, Awaits, Reconnects, ReadSlots, Roomy>>
          /\ \A f : OneAtATime(f)' = OneAtATime(f) /\ Own(f)' = Own(f)
      BY <2>2 DEF Speaks, Awaits, Reconnects, ReadSlots, Roomy, OneAtATime, Own
    <3>2. ReadsAreFollowed' /\ OneIsAwaited'
      BY <2>2, <3>1 DEF Pairing, ReadsAreFollowed, OneIsAwaited, Busy
    <3>3. StoredAreAwaited' /\ WorkedAreAwaited' /\ SlotsAreOthers'
      BY <2>2, <3>1 DEF Pairing, StoredAreAwaited, WorkedAreAwaited, SlotsAreOthers
    <3>4. NeverReopened' /\ NumbersDiffer'
      BY <2>2, NumbersUnchanged DEF Pairing
    <3> QED
      BY <3>2, <3>3, <3>4 DEF Pairing
  <2>4. FreshRecords' /\ OwnResponse'
    BY <2>2 DEF FreshRecords, OwnResponse, Matched, Named, Speaks, Awaits, Reconnects, ReadSlots
  <2> QED
    BY <1>8, <2>1, <2>3, <2>4
<1>9. CASE Base' /\ Once' /\ Pairing' /\ ReportsNothing
  <2>1. OwnResponse'
    BY <1>9 DEF OwnResponse, Matched, ReportsNothing
  <2>2. output' # None => <<output'.fd, output'.id>> \notin reported
    BY <1>9 DEF Base, TypeOK, Ids, ReportsNothing
  <2> QED
    BY <1>9, <2>1, <2>2 DEF ReportsNothing
<1> QED
  BY <1>1, <1>2, <1>3, <1>4, <1>6, <1>7, <1>8, <1>9, <1>5 DEF Next

THEOREM Invariant == Spec => []IInv
<1>1. IInv /\ [Next]_vars => IInv'
  BY Inductive
<1> QED
  BY InitIInv, <1>1, PTL DEF Spec

(* The maps hold whole requests, and so does trace_exit_read between its   *)
(* steps, for any programs, sizes and numbers of threads and CPUs.         *)
THEOREM TypeCorrect == Spec => []TypeOK
<1>1. IInv => TypeOK
  BY DEF IInv, Base
<1> QED
  BY Invariant, <1>1, PTL

(* A read() that returns is never taken for one of another descriptor.     *)
THEOREM ReadsOwn == Spec => []ReadsAreOwn
<1>1. IInv => ReadsAreOwn
  BY DEF IInv, Base
<1> QED
  BY Invariant, <1>1, PTL

(* A record of the read side takes neither the method nor the status of    *)
(* the one built before it on its CPU, and one about a request or HTTP/2   *)
(* frames not its duration: the reset leaves that to those who set it.     *)
THEOREM Fresh == Spec => []FreshRecords
<1>1. IInv => FreshRecords
  BY DEF IInv
<1> QED
  BY Invariant, <1>1, PTL

(* A request is reported with the response to it, where there is room to   *)
(* follow every read() and requests are awaited one at a time or named by  *)
(* their responses: however the four steps of trace_exit_read interleave   *)
(* with the other probes and whatever takes the slot of the request; as    *)
(* long as no other read() took the slot of the descriptor's arguments.    *)
THEOREM Responses == Spec => []OwnResponse
<1>1. IInv => OwnResponse
  BY DEF IInv
<1> QED
  BY Invariant, <1>1, PTL

(* No request is reported twice, also when its entry is evicted, stored    *)
(* anew or overwritten between the steps.                                  *)
THEOREM NeverTwice == Spec => ReportedOnce
<1>1. IInv /\ [Next]_vars =>
        [output' # None => <<output'.fd, output'.id>> \notin reported]_vars
  BY Inductive
<1> QED
  BY Invariant, <1>1, PTL DEF Spec, ReportedOnce

=============================================================================
