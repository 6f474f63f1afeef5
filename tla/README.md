# A TLA+ model of sense-agent

sense-agent watches the containers of one host. eBPF probes see processes start
and exit, TCP connections open, and requests go over them; a Go program reads
their records, keeps a table of containers and books what it hears under the
container concerned. This directory models the part of it where the difficulty
lies: everything is learned in pieces, from several CPUs, late and out of
order, and joined by keys (thread, socket address, process and descriptor, pid)
that the kernel reuses.

All paths below are under `src/pkg/`.

## 1. The system

| Part | State | Operations | Talks to |
|---|---|---|---|
| TCP state probes, `ebpftracer/ebpf/tcp/state.c` | maps `fd_by_pid_tgid`, `sk_info`, `connection_timestamps` | `sys_enter_connect`, `sys_exit_connect`, `inet_sock_set_state` | records OPEN, ERROR, CLOSE, LISTEN; timestamps for the L7 probes |
| Process probes, `ebpf/proc.c` | map `oom_info` | `task_newtask`, `sched_process_exit`, `oom_mark_victim` | records START, EXIT |
| File probes, `ebpf/file.c` | map `open_file_info` | enter and exit of `open`, `openat` | record FILE_OPEN |
| Retransmit probe, `ebpf/tcp/retransmit.c` | none | one | record |
| L7 probes, `ebpf/l7/l7.c` | maps `active_reads`, `active_l7_requests`, `l7_event_heap` (per CPU) | `trace_enter_write`, `trace_enter_read`, `trace_exit_read`, under 12 syscall probes | record L7_REQUEST; reads `connection_timestamps` |
| Protocol classifiers, `ebpf/l7/*.c` | none (one writes `request_type`) | `is_*_query`, `is_*_response` | called by the L7 probes |
| TLS uprobes, `openssl.c`, `gotls.c`, attached by `tls.go` | links; entries of `active_reads` under ids of their own | on the entry of a write, on the entry and the return of a read | call the L7 probes |
| EBPFTracer, `ebpftracer/ebpftracer.go` | links, readers, subscribers | `NewTracer`, `Run`, `Reader`, `SubscribeEvents`, `Close` | perf rings -> channels |
| Container registry, `container/container.go` | `containersById`, `containersByCgroupId`, `containersByPid`, channel `events` | `NewContainerContext`, `initContainer`, `handleEvents`, `createContainer` | reads `/proc`, asks the container runtime |
| Container connections, `container/container_provider.go` | `connectionsByPidFd`, `connectionsActive`, `connectsSuccessful`, `connectsFailed` | `OnConnectionOpen`, `OnL7Request` | called by `handleEvents`; asks conntrack |
| Container clients, cgroup reader, conntrack, `system/*` | connections | queries | I/O |
| L7 parsers, `ebpftracer/l7/*.go` | prepared statements; HTTP/2 streams | `Parse` | no caller yet |
| Log pipeline, `log/*`, `exporter/log/*` | subscribers; buffered messages | `fllow`, `Subscribe`, `Unsubscribe`, `Add`, `Start`, `Stop` | journal -> channel -> buffer -> exporter |
| Exporters, `exporter/metrics`, `exporter/trace` | none | adapters | OpenTelemetry |

What is hard:

* *Joins across probes.* Which descriptor a socket belongs to is known to one probe,
  what became of the handshake to another, on another CPU and in another process's
  context. Keys are reused at once, and the maps are bounded: a full hash map refuses
  entries, an LRU map gives some up.
* *Late reading.* The handler reads a process's cgroup, and the L7 probe a
  descriptor's timestamp, when it gets there.
* *Order.* Every kind of record has a ring per CPU and a goroutine of its own.
* *Startup.* Probes are attached, in any order and some perhaps not at all, then /proc
  is listed: a process may be seen by both or exit in between.
* *Use after delete.* `trace_exit_read` goes on with the arguments of a read and with
  a request whose entries it has deleted; the buffers in which a CPU builds its
  records and requests keep what the last one left.
* *Rendezvous.* The log path has no buffered channel: whoever sends waits, some with a
  lock held.
* *Decoders with a memory.* HTTP/2 headers decode only in sequence and whole; a lost
  record, or a block cut by the payload limit, spoils what follows. An execution of a
  prepared statement names it, and its text came in another record.
* *Calls followed by two probes*, which are not attached at the same moment, may fire
  on different threads, and surround calls that are probed as well.

What makes each part correct, in a line: a connection is reported with the descriptor
it was opened on; no entry outlives what it describes; a request is reported once and
with its own response; a request is credited to the connection that carried it; a
process is in the registry only while it runs, and under its own container; startup
ends; a log message is exported once, in order and with its own severity; an HTTP/2
request gets its own status and a sane duration, and leaves the table; an execution is
shown with its own statement's text. `PROJECT.json` lists the hazards at their lines,
with the properties that cover them.

## 2. The modules

    BpfMaps <- ConnTracker <- Attribution        (composition)
       ^  ^         ^             ^
       |  |   ConnTrackerProofs <- AttributionProofs
       |  +-- L7Tracer          <- L7TracerProofs
       +-- ContainerRegistry    <- ContainerRegistryProofs
    LogQueue <= LogPipeline     <- LogPipelineProofs     (refinement)
    StatementCache              <- StatementCacheProofs
    CallProbes                  <- CallProbesProofs
    Http2Streams                <- Http2StreamsProofs

Each `*Proofs` module extends the module it is about, and AttributionProofs also
ConnTrackerProofs, whose invariant it needs.

`MC*` modules give the constants of a module their values for TLC.

**BpfMaps**: a kernel map is a function with `None` for an absent key. A full
hash map ignores an update; a full LRU map gives up *any* entry, because the
kernel's LRU is approximate.

**ConnTracker** (`state.c`). The kernel's side is explicit: `sockState`, which
descriptor a socket has (`desc`, `open`), the `connect()` call each thread is in
(`calling`), and the clock. One action per branch of the probes: `SendSyn` is
the branch CLOSE -> SYN_SENT; `Untracked`, `HandshakeCompletes`,
`HandshakeFails` and `SimultaneousOpen` are the branch on the old state
SYN_SENT; `Finish`, `Listen`, `StopListening` and `Unreported` are the other
transitions. `output` is the record of the last step. `since` is history: which
timestamp a connection was given. Reading the clock and storing it
(`state.c:107, 111`) are one step; a SYN is sent inside `connect()`, which TCP Fast
Open does not do.

**Attribution** composes ConnTracker with reading threads, the timestamp lookup
of `l7.c`, the way of the records (a set, for rings and goroutines do not order
them; a record may also be lost) and the two handlers of
`container_provider.go`. `Probe` is a step of ConnTracker whose record is sent.
`Credits` is the test of `OnL7Request`; as the handler does nothing yet with a
request that passes, the properties speak of what it would credit
(`Creditable`). `untidy` is history: did a program close a descriptor while a
call or a handshake was under way on it? The bounds of the tables are those of
TLC only.

**ContainerRegistry** (`container.go`, `proc.c`, the reader goroutines).
`Fork`, `ExitProcess`, `Reap` and `MoveProcess` are the kernel and the runtime;
`AttachProbe`, `NewTracer`, `ebpfEventSubscribe`, `GetAllPids`, `initContainer`,
`Run` are the startup in the order of `NewContainerContext` and its caller, with the
handler running beside them. `NewTracer` makes its links in the order of a Go map
and ignores one that fails (`ebpftracer.go:57-73`): `links` is what has been
attached, in any order of `Orders`, and the loop may end with any beginning of it.
`NewTracer` itself and `ebpfEventSubscribe` may fail, which ends the startup
(`agent = "failed"`); `Reader` moves one
record from a ring to the channel, where it blocks when the channel is full;
`HandleStart` and `HandleExit` are cases of `handleEvents`, with
`createContainer` inside the first, and in it `GetContainerMetadata`, which may
fail. `client` says whether there was a runtime to ask: without one the provider is
nil (`container_provider.go:96-97`) and the first process of a container panics the
handler. A cgroup has a path, of which `PathOf` keeps what `containerByCgroup` looks at
(its first part, the slice or scope its second part names, the kind of id in it), and
a name, `LabelOf`, from its labels. `oom_info` is the map of processes marked by the
OOM killer. A `Container` is an index into `heap`, so
that two objects of one container can be told apart. `Nil` is the nil that is
stored for skipped containers, and dereferencing it is `agent = "panicked"`.

**L7Tracer** (`l7.c`). A probe is not preempted on its CPU, but
`trace_exit_read` uses two maps in four steps, and probes on other CPUs run between
them. `trace_exit_read` takes the descriptor of its thread's read and deletes the
entry (`l7.c:353-362`); `LookUpRequest` looks at the data through the arguments that
were in it (364-388), and finds and copies the request (412-438, one step);
`DeleteRequest` deletes that; `UseRequest` uses it. The code keeps both pointers
after the deletes; a hash element that is deleted or evicted may be given to another
key at once, so `args` collects the descriptors whose calls may have put their
arguments into the slot by then, and `slot` every request that may be in it; the next
step picks one. `astray` is history: descriptors under which data of another was
looked at. A request is known by its index in `written`. A payload is what its sender
meant it to be; `Data` says what a `read()` gave: nothing, the response to a
request, the first four bytes of a MongoDB message, and so on. `setup` is what the
programs do in a behaviour, chosen once: which protocol each descriptor speaks,
whether responses are awaited, which descriptors are closed early, and how many
requests and reads there are. Two buffers per CPU are kept from one record to the
next: `l7_event_heap`, of which `Reset` (390-397) clears method and status and leaves
the duration, and `l7_request_heap`, from which a MongoDB request whose response is
read in two parts is stored anew (`Again`, 460-470) with the type and the number of
whatever was last written on that CPU. `RequestTypes` keeps one thing of the bytes:
that `is_postgres_query` writes the first byte of the payload to `request_type` before
it refuses the payload (`postgres.c:20`). The bytes of the payload, and its size, that
records without one inherit from the record before are left out.

**LogPipeline** (`log/`, `exporter/log/`). One following goroutine and, per
provider, a reading and an exporting one; a provider stands for its channel. A
send and its receive are one step (`Receive`, `flushMessage`), and a goroutine
between two of them is in a named state: `reader = "flushing"` is `Add` waiting
in `flushMessage` with the lock held, `exporter = "exporting"` is the call to
OpenTelemetry. `sending` is the message and the channel `fllow` looked up, kept
while `Unsubscribe` may remove the channel. A message is its place in
`journal`; the length of a marshalled batch is the sum of its messages' sizes.
`stragglers` is history. The last part has the three maps a
priority passes through: `priority2Levels`, the text of a level,
`Level2OtelLogsLevel`.

**LogQueue** is what the log path promises of a provider: a queue that takes
messages in the order of the journal and gives them up from its front, a batch
at a time. LogPipeline implements it (`ImplementsQueue`): the queue is the batch
the exporter holds, the buffer, and the message whose `Add` waits, in that order
(`Accepted`). `Receive` maps to `Accept`, `Export` to `ExportBatch`; a flush, which
moves messages between the three, changes nothing.

**Http2Streams** (`ebpftracer/l7/http2.go`). `ClientWrites` and `ServerSends` send
header blocks of one or two streams in one payload, of which the record keeps the
frames that fit or begin to; `whole` counts those before the first that is cut, or
that is padded, has a priority or is continued, all of which `Parse` hands to the
decoder as if they were whole blocks (`http2.go:107-122`). `Lose` and the order in
which `Parse` takes records from `path` are the rings. Each decoder counts the blocks
it has seen; once it misses one, or a part of one (`InSync`, `Sound`), it gives any of
the statuses or none. It may also report an error, after which the bytes of the block
are taken for frames (122-124) of any streams (`Named`), and the rest may be missed;
`misread` is history of that. The stream of a block is known from the frame's header,
so a cut block still begins or ends the entry of its own stream. `activeRequests`
keeps the time of each entry. `Minus` is the subtraction of `uint64`.

**CallProbes** (`openssl.c`, `gotls.c`, `file.c`, attached by `tls.go` and
`ebpftracer.go`). `kind` says which of the three families a behaviour is about.
`todo` is the probes still to be attached, in the order of the code, in which the
symbols of a Go program come in any order and any of them may be missing, the next one
following (`tls.go:224-226`); `Attach`
takes the next, `AttachFails` is the error, after which the functions of `tls.go`
return no links and `Collect` closes those made before, one by one, as Go's
collector finds them; the tracer goes on with the next. A call remembers whether
its own entry was kept. `Begin` and `End` are `trace_enter_read` and
`trace_exit_read` (or their counterparts in `file.c`), called with the id of each
family; a uretprobe fires for calls that were entered under it, a probe on Go's
return instructions for any. `sys_exit_read` is the read of ciphertext inside a
call. Of requests the model keeps one key in the clear and one of TLS; L7Tracer
has the rest.

**StatementCache** (`ebpftracer/l7/mysql.go`, `postgres.go`). A program and its
server prepare, execute and close statements; the L7 probes make a record of a
request when its response is read, of a close when it is written; records get
lost and overtake each other in `path`. `Parse` is the parser: `Updated` what it
does to `preparedStatements`, `Text` what it shows. MySQL's server numbers
statements and a refused one gets the 0 that `trace_exit_read` left;
Postgres's clients choose names and use them again. A text is its number.

## 3. The runs

| Run | Instance | Shows |
|---|---|---|
| `conn_tracker` | 2 threads, 2 sockets, 2 descriptors, 1 slot in `sk_info` and for timestamps, 2 establishments | `FdSlotIsOwn`, `SkInfoIsOwn`, `OutcomeNamesCaller`, `NeverOlder`, `AttemptsAreTracked`; `AttemptsEnd` (liveness) |
| `registry_reuse` | 2 pids on 2 CPUs, 2 forks, a container restarted under its name, 1 slot in `oom_info`; the exit probe before the marking one and after it, any probe missing, with and without a runtime | `IndexedIsReferenced`, `NoStalePid`, `AttributionIsOwn`, `MarkedAreRunning` |
| `registry_live` | 1 CPU, a channel of one, a container and a pause container, probes missing | `StartupCompletes`, `ExitedAreForgotten` (liveness) |
| `attribution` | 1 connecting and 1 reading thread, 1 descriptor for 2 sockets, 1 timestamp slot | `NeverCreditedToOlder`, whatever programs do; `CreditedToCarrier`, as long as none is untidy |
| `l7_tracer` | 2 readers, 2 CPUs, 2 slots, 3 descriptors in one of three setups: Postgres, awaited, with Cassandra and Kafka, not awaited (3 requests, 2 reads); MongoDB and a plain protocol, closed early, with Kafka, 1 slot for reads (2 requests, 3 reads); HTTP/2, MySQL with prepared statements and messages (2 requests, 2 reads) | `OwnResponse`, `FreshRecords`, `ReadsAreOwn`, `ReportedOnce` |
| `call_probes` | 2 tasks, 2 threads, 3 requests; every order of attachment, every failure, every symbol missing | `CallsMeetTheirReturns`, `ResponsesAreReported`, `ReportedWithOwn` |
| `statement_cache` | 3 texts, a name and the unnamed statement, 3 records on their way | `TextIsOwn`, `ClosedAreForgotten` |
| `log_pipeline` | 2 units, 2 providers, batches of 2 messages or 3 bytes, 3 entries: a grave one that fills a batch, a short one, one that is not UTF-8, one without text | `ImplementsQueue` (refinement), `AtMostOneStraggler`, `SeverityFollowsPriority`; `FollowProceeds`, `MessagesLeave` (liveness) |
| `http2_streams` | 2 streams, 2 records on their way, 6 ticks, an interval of 1, cuts anywhere | `StatusIsOwn`, `DurationsArePositive`, `CollectionIsExact`, `ReportedOnce` |
| `registry_pause` | as `registry_reuse` with a pause container | *violation*, finding 1 |
| `registry_docker` | as `registry_reuse` with a scope of Docker's | *violation*, finding 2 |
| `l7_closes` | a MySQL connection | *violation*, finding 3 |

Each passing run also checks the type invariant of its module.

**Bounds.** `MaxClock`, `MaxForks`, `MaxRequests`, `MaxObjects`, `MaxEntries` and
`MaxTime` bound what happens in a behaviour; they are at least two (a predecessor and
a successor on the same key; one fork is enough for `registry_live`, whose pids may
already be running), three where one request must be stale while two others race,
where a message must overfill a batch or where a name is used a third time, and six
ticks for two collections with a request before, between and after them. `MaxTexts`,
and the requests and reads of a setup of L7Tracer, are bounds of the same kind.
`RingSlots`, `ChanSlots`, `PathSlots`, `MaxOnTheWay`, `MaxFailed` bound what is on its
way or counted; the map sizes (`FdSlots`, `SkInfoSlots`, `TimestampSlots`,
`RequestSlots`, `ReadSlots`, `OomSlots`) and limits (`maxLines`, `maxBytes`,
`GcInterval`, `Modulus`) are those of the code made small enough to be reached. Two
threads, sockets, descriptors, pids and CPUs are what each of the mix-ups needs, and
`MaxEntries` of three with buffers of two means that `MessagesLeave` speaks of the
first message; the safety properties are also proved, for any number of them, any map
sizes and limits and any length of a behaviour (part 5). Deadlock is not checked in
runs whose bounds, or whose agent (it may panic), stop the system. Symmetry is used
over pids, CPUs, threads and sockets that no constant tells apart, and only in runs
without liveness.

**Fairness.** ConnTracker: a handshake ends, because the kernel gives a SYN up
after `tcp_syn_retries`. ContainerRegistry: the goroutines are scheduled, so the
startup, the readers and the handler are weakly fair; processes and runtimes owe
nothing. LogPipeline: the goroutines of a provider are scheduled and an export
returns; users need not start, stop or subscribe, and the journal need not give
an entry. The other modules have safety properties only.

**The environment.** A descriptor is not duplicated or inherited; `bpf_ktime_get_ns`
gives two establishments different times; all probes of `state.c` and `l7.c` are
attached (those of `proc.c` one by one, in ContainerRegistry, those on calls in
CallProbes); an exit is the exit of the whole process; the record a reader holds
counts as one slot of its ring; one thread at a time reads from a descriptor, and one
descriptor speaks one protocol; a close of a prepared statement needs no answer of its
own; a process is not marked after its exit. An HTTP/2 client sends one header block
per stream and a server one answer and perhaps trailers; two records of a connection
have different times. What a decoder out of step gives is the status of some stream or
none, and what is misread as a frame names one of `Streams`; an incomplete record may
give an error also where hpack would only keep the tail of it. An error of the journal
is `fllow` taking no further step. CallProbes follows one connection, whose program
awaits its responses and which one task at a time reads; its maps have room, and the
ids of threads and goroutines are distinct. A database client of StatementCache awaits
its responses and closes statements only when it awaits none but that of an execution;
DEALLOCATE, which the parser takes for a query, is left out, and so are a simple Query
that makes the Postgres server drop its unnamed statement and MySQL's
COM_RESET_CONNECTION. Its probes pair requests and responses rightly; when they do not
is L7Tracer's matter. The conditions under which a property is claimed are in the
property: `Undisturbed` (the probe of exits is attached, no record was lost, the agent
did not panic, exited processes do not show a cgroup), `ExitFirst`, `untidy`,
`overtaken`, `misread`, `disturbed`, `Awaits`, `Reconnects`, `Named`, `astray`.

## 4. What TLC found

1. **A nil container is dereferenced** (`container.go:86`, run `registry_pause`).
   `createContainer` stores nil for a container that gets no name, such as a
   pause container; when that process exits, `handleEvents` reads `c.Cgroup`.
   The two connection handlers test for nil, this case does not.
2. **Docker's systemd scopes are not Docker's** (`cgroup.go:144`, run
   `registry_docker`). A comment gives `/system.slice/docker-<id>.scope` as a path
   of Docker's, and the test below it looks for it, but every path below
   system.slice has been taken for a service before: `createContainer` ignores the
   processes of such containers.
3. **A MySQL query can be taken for the close of a statement** (`mysql.c:23`,
   run `l7_closes`). `request_type` still holds the low byte of the packet
   length, and 0x19 is the number of COM_STMT_CLOSE: such a query is reported as
   STATEMENT_CLOSE and its response is never paired.

Read off the code, without a run: `container_provider.go:24` promises a count per
destination and actual destination, but the key (line 152) is the source address
and the actual destination, so every connection has its own; and `level.go:3` says
"Higher levels are more important", but critical is -1 and debug 3. Nothing depends
on the latter yet; `SeverityFollowsPriority` shows that what is exported is in order.

Models also showed what is *not* promised, and the properties say so: two `Container`
objects for one cgroup after one of its processes exits; exited processes that stay
registered on cgroup v2; requests without a timestamp, which are credited unchecked; a
registry that never forgets, when the probe of exits could not be attached, and marks
of the OOM killer that stay, when it is attached after the one that makes them;
MongoDB requests stored anew from a slot that is no longer theirs; a Kafka request
reported with the response to an older one, when there are two Kafka connections or a
MongoDB connection beside it (each Kafka client numbers its requests from one, and the
slot in which the number is looked up may by then hold a request of the other, or
MongoDB's with the number of Kafka's last request); a request of a connection that was
given up, which BPF_NOEXIST keeps and pairs with the first response of the next
connection on the descriptor (`l7.c:331`); a response looked at through the arguments
of another thread's read, whose entry took the slot of the one that was returning
(`l7.c:359`); a duration in a message that is consumed, which is that of an earlier
record and which `ebpftracer.go:148` hands on; the status of a stream whose header
block was cut, or came after one that was; a stopped provider, whose channel nobody
reads any more, holds up the journal for everyone until the process ends, and `Stop`
can leave its reading goroutine in a flush nobody takes; the last messages of a quiet
log stay in the buffer, because the timeout it is made with is not used; a call that
was entered before its first probe was attached can take the entry another call of its
id left behind, and be looked at with that one's buffer; a Postgres execution can be
shown with the text of another statement when a Parse of its name was refused or a
record is late.

## 5. What is proved

Every safety property and action property that a passing run checks is also a
theorem: TLC shows it on the instance of part 3, the proof for every value of the
constants, under the assumptions named in the modules. These say that bounds, map
sizes and limits are natural numbers, that `None` is none of the values it is used
beside, and what kind of function a constant is (`Tgid`, `PathOf`, `Dst`, `Answer`,
...). Where a map may have room for every thread, threads are finitely many
(`ThreadsAssumption`). Times are smaller than `Modulus` in Http2Streams, as
nanoseconds are than 2^64.

No property is inductive alone. In each module `IInv` is the invariant that is, a
conjunction of named parts; TLC has checked each of them on the instances of the
runs. One lemma per action, or per group of actions that change the same variables,
shows that it is kept; `Inductive` or `Invariant` puts them together, and each
theorem follows from that. What the parts add, and why they are needed:

**ConnTrackerProofs.** `TypeCorrect`, `SlotsAreOwn` (`FdSlotIsOwn`),
`AttemptsAreOwn` (`SkInfoIsOwn`), `OutcomesNameTheirCaller`,
`TimestampsAreNeverOlder` (`NeverOlder`), `AttemptsTracked`.
`SocketsHaveDescriptors`: a call keeps its socket and the socket its descriptor, so
what `SendSyn` joins agrees with `desc`. `ClockIsLatest`: every stored timestamp is
at most `now`, so a new one is larger. `OnlyConnectionsAreTimed`: a reused socket
address starts with `since = 0`. `LruUpdatesLemma` says of an LRU map of any size
that the new entry is written even when the map is full and that eviction only
loses others. `AttemptsTracked` needs `CallsHaveSlots`: where `fd_by_pid_tgid` is as
large as the number of threads, a call whose SYN is not out has its entry, because
the thread that enters one has none, so that fewer entries than threads are taken.

**AttributionProofs.** `TablesCorrect` (`TablesOK`), `NeverOlderCredited`,
`CarrierCredited`. A probe's step is a step of ConnTracker, so its `IInv` is reused;
`AllInv` adds what is known of reads and records under way. `RequestsAreNeverOlder`
carries `NeverOlder` into the records, and `TimesAreUnique` says that wherever a time
of establishment is kept (`since`, records, the handler's table) it is of one
connection, so a timestamp that is equal identifies it. `Tidiness` is what a program
that closes nothing under a call gives: what is under way is so in an open socket,
open sockets have distinct descriptors (`OpenAreDistinct`), and the timestamp of a
descriptor is that of its socket. `OneErrorUnderWay` bounds the counters.

**L7TracerProofs.** `TypeCorrect`, `ReadsOwn`, `Fresh`, `NeverTwice` (`ReportedOnce`),
`Responses` (`OwnResponse`). `Base` says what an entry and the work of a CPU belong
to, and that one thread works on one CPU. `Once` is the argument for `ReportedOnce`:
of a descriptor's requests each is in one entry or on one CPU, never both but between
lookup and delete of that entry, however the data was seen, and one that was reported
is in none, nor in a slot from where MongoDB's would be stored anew. `Pairing` is that
for `OwnResponse`: reads are followed, so the requests kept are those awaited, one per
key at a time; Kafka's are told apart by their number (`NumbersDiffer`), and what took
the slot of a request meanwhile has another (`SlotsAreOthers`). The last one holds
with one Kafka connection and no MongoDB beside it: without the condition in `Named`,
`OwnResponse` is false, as part 4 says. A descriptor outside `astray` has only had its
own data looked at, so what was taken for a response is one it was given. `Fresh`
needs only that the fields of a CPU are between its steps what `Reset` left.

**ContainerRegistryProofs.** `TypeCorrect`, `Referenced` (`IndexedIsReferenced`),
`Marked`, `NeverStale`, `Attributed` (`AttributionIsOwn`). `IndexesAreKeyed`: an index
leads to an object of its key, so deleting by the keys of an object removes that
object. `NothingKnownBefore`: nothing is known before the loop that attaches the
probes has ended, so the exit of whatever is known later gets recorded, if that probe
is among them. `Marks`: there are marks only where the probe that makes them is
attached (`MarksAreMade`), and, where that of exits was there first, only of running
processes. `InOwnCgroup`: a cgroup that is read is one the process has been in.

**LogPipelineProofs.** `TypeCorrect`, `StragglersAreFew` (`AtMostOneStraggler`),
`SeveritiesFollow`, and `Refinement`: `Spec => ImplementsQueue`. `SentIsLatest`: the
message on its way is the last one read and nobody has it or a later one, so what
`Receive` appends is in the order of the journal. `GoroutinesAgree`: a flush has
something to flush. `StragglersAreCounted`: after one straggler none is under way. For
the refinement, one lemma per action shows it is an `Accept` (a message received and
not refused), an `ExportBatch` (of a prefix of the queue) or a stutter (a flush, which
moves messages from one part of `Accepted` to another). For the severities, the text
of a level gives the level back, also the gravest, which has none
(`LevelsSurviveTheirTexts`), and a level's severity is `17 - 4 * l`. A second
invariant, `BInv`, says that no buffer and no batch is longer than a buffer may be
(`BuffersAreBounded`; `Most` is `maxLines`, or 1, since an empty buffer takes a
message in any case), and that the goroutines of a provider that has started and is
not stopped have not left (`StartedGoOn`). Two theorems follow: `KeepsLittle`, a
provider keeps two buffers and one message at most, however slow the exporter is; and
`NobodyWaitsInACircle`, whenever such a provider cannot take the journal's message, or
more is kept than one buffer holds, a flush or an export has its guards true. That is
what `FollowProceeds` and `MessagesLeave` need besides fairness; the step from there
to the liveness itself is TLC's.

**CallProbesProofs.** `TypeCorrect`, `CallsMeetReturns`, `ResponsesReported`,
`OwnRequests` (`ReportedWithOwn`). `AttachedOnce`: no probe is attached twice, and
what was dropped was not complete. `FollowedAreWatched`: a call begun when all probes
were attached still has them when it returns. `KeptHaveEntries` and `LiveAreCalls`
tie entries to calls, both ways. `RequestsAreDue`: the request in the map is the one
whose response is due, or one whose response escaped.

**Http2StreamsProofs.** `TypeCorrect`, `NeverTwice` (`ReportedOnce`),
`StatusesAreOwn`, `NoNegativeDuration` (`DurationsArePositive`),
`CollectionsAreExact`. Each carries the condition of its property on what was
`misread`. `FramesAgree`: a client's record has the time of its streams' requests, a
server's a later one; `RecordsAreSent`: no two records have the same time. So one
record can open a stream's entry, whatever is lost or overtaken, and none once it is
open or reported (`OpenedOnce`), and what ends an entry is later than what began it,
so that the subtraction modulo `Modulus` is the ordinary one (`MinusOfEarlier`).
`AnswersComeFirst` is the argument for `StatusIsOwn`: either the decoder has seen the
block of the answer, whereupon the entry was ended and cannot be opened in order any
more, or the decoder is before that block, and trailers that come in a record without
the answer come after it.

**StatementCacheProofs.** `TypeCorrect`, `MysqlTextsAreOwn`, `TextsAreOwn`
(`TextIsOwn`), `Forgotten` (`ClosedAreForgotten`). `Numbered`: MySQL's server numbers
a statement as its text, records carry a text and its number, or 0, which no
execution has, so no text is under another's number, without any condition on what
is lost or overtaken. `Followed` is a second invariant, for as long as nothing was
disturbed: the path is then a queue, and `Gives(s, table, k, n, t, gone)` says what
its first n records make of the table. An execution under way will find its text
when the records before it have been parsed (`ExecutionsWillFind`), the table will
have what the server has (`TableWillFollow`), and what the server has not is followed
by its close (`ClosesFollow`).

Only model-checked is what holds under fairness: `AttemptsEnd`, `StartupCompletes`,
`ExitedAreForgotten`, `FollowProceeds` and `MessagesLeave`. Weak fairness is defined
with ENABLED, which the provers do not support.

## 6. What is not modelled, and the plan

Recognising protocols from bytes, decoding records, ELF files, parsing of `/proc`
and RPCs are I/O or pure data; the exporters of metrics and traces are adapters
without state; `retransmit.c` and `init.go` keep nothing and nobody uses what they
give. `EBPFTracer.Close` has no caller, and readers go on after it as after any
error, so there is no order to check. That the address of a goroutine overlaps the
process in the id of a Go read (`gotls.c:58`) depends on memory layouts.
`PROJECT.json` says of each part what is left out.

What the proofs leave open: the liveness properties, which stay with TLC, and the
properties of the three runs that find a violation, which do not hold. What could be
added is the other direction of two results: that a registry whose records are not
lost forgets a process no later than its exit is handled, stated as a refinement of a
plain set of running processes, and that ConnTracker with Attribution implements a
table of connections in which a lookup gives the carrier or nothing.
