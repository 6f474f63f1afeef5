------------------------- MODULE ContainerRegistry -------------------------
(***************************************************************************)
(* pkg/container/container.go with the process probes of                   *)
(* pkg/ebpftracer/ebpf/proc.c: the agent learns of processes from the      *)
(* tracepoints and from one listing of /proc, and keeps three maps from a  *)
(* process, a cgroup and a container name to its Container object.         *)
(*                                                                         *)
(* Records travel through one perf ring per CPU and then through the       *)
(* channel "events"; whatever the handler reads about a process it reads   *)
(* when it gets to the event, not when the event happened.                 *)
(***************************************************************************)
EXTENDS BpfMaps, Sequences, SequencesExt

CONSTANTS
    Pids,
    Cpus,
    Cgroups,             \* cgroups that processes run in
    PathOf,              \* cgroup -> its path, what matters of it
    LabelOf,             \* cgroup -> name its container's labels give, "" if none
    ExitedReadable,      \* does an exited, unreaped process keep its cgroup
                         \* (cgroup v2) or show the root one (cgroup v1)?
    Orders,              \* in what orders the links of the probes are made
    RingSlots, ChanSlots,             \* room in a perf ring, in the channel
    OomSlots,                         \* max_entries of oom_info
    MaxForks, MaxObjects              \* bounds: processes started, objects made

(* A path of one part, or its first part, the slice its second part is in  *)
(* and the id it has: none, one of 64 digits, or one after cri-containerd. *)
Paths == [parts : {1, 2}, prefix : {"user.slice", "init.scope", "system.slice",
                                    "runtime.slice", "docker", "kubepods.slice", "other"},
          scope : {"docker", "other"}, id : {"none", "plain", "cri-containerd"}]

Probes == {"task_newtask", "sched_process_exit", "oom_mark_victim"}

Names == {LabelOf[g] : g \in Cgroups} \ {""}

ASSUME ExitedReadableAssumption == ExitedReadable \in BOOLEAN
ASSUME PathOfAssumption == PathOf \in [Cgroups -> Paths]
ASSUME BoundsAssumption == {RingSlots, ChanSlots, OomSlots, MaxForks, MaxObjects} \subseteq Nat
ASSUME NoneAssumption == None \notin Pids \cup Cgroups \cup Nat
ASSUME OrdersAssumption == Orders \subseteq Seq(Probes)
ASSUME LabelOfAssumption == DOMAIN LabelOf = Cgroups /\ None \notin Names

VARIABLES
    proc,        \* "none", "running" or "exited" (not yet reaped)
    cgroupOf,    \* the cgroup of a process
    was,         \* every cgroup a process has been in during this life
    forks,       \* processes started so far
    oom_info,    \* pid -> pid, the processes marked by the OOM killer
    ring, lost,  \* proc_events, one sequence per CPU; was a record dropped?
    client,      \* was a containerd or a dockerd found to ask?
    links,       \* trace.links: the probes attached, in that order
    agent,       \* "off", "attached", "subscribed", "sending", "running";
                 \* "failed" before its handler ran, "panicked" in the handler
    listed,      \* pids initContainer has still to send
    events,      \* ContainerContext.events
    heap,        \* every Container made, in order; an object is its index
    containersByPid, containersByCgroupId, containersById

kernel   == <<proc, cgroupOf, was, forks, oom_info, ring, lost>>
registry == <<heap, containersByPid, containersByCgroupId, containersById>>
context  == <<client, links>>
vars     == <<kernel, context, agent, listed, events, registry>>

Nil == 0                         \* a nil *Container in containersByPid
Start(p) == [type |-> "PROCESS_START", pid |-> p]
Exit(p)  == [type |-> "PROCESS_EXIT", pid |-> p]
Events   == [type : {"PROCESS_START", "PROCESS_EXIT"}, pid : Pids]
Objects  == DOMAIN heap

(* Processes run, and some have exited, before the agent is started.       *)
Init ==
    /\ proc \in [Pids -> {"none", "running", "exited"}]
    /\ cgroupOf \in {f \in [Pids -> Cgroups \cup {None}] :
                       \A p \in Pids : f[p] = None <=> proc[p] = "none"}
    /\ was = [p \in Pids |-> {cgroupOf[p]}]
    /\ forks = 0
    /\ oom_info = [p \in Pids |-> None]
    /\ ring = [c \in Cpus |-> <<>>]
    /\ lost = FALSE
    /\ client \in BOOLEAN
    /\ links = <<>>
    /\ agent = "off"
    /\ listed = {}
    /\ events = <<>>
    /\ heap = <<>>
    /\ containersByPid = [p \in Pids |-> None]
    /\ containersByCgroupId = [g \in Cgroups |-> None]
    /\ containersById = [n \in Names |-> None]

---------------------------------------------------------------------------
(* The kernel.  An attached probe writes a record to the ring of the CPU   *)
(* it runs on; the record is dropped when the ring is full, and while      *)
(* NewTracer has not made the readers, which is after all links.  What     *)
(* probes do when the agent is gone is left out.                           *)

Attached(probe) == \E i \in DOMAIN links : links[i] = probe
Fires(probe)    == Attached(probe) /\ agent \notin {"failed", "panicked"}

(* A mistake: probes attached by Run, after /proc was listed.              *)
EmitFromRun(probe, cpu, e) ==
    IF Attached(probe) /\ agent = "running" /\ Len(ring[cpu]) < RingSlots
    THEN ring' = [ring EXCEPT ![cpu] = Append(@, e)] /\ UNCHANGED lost
    ELSE UNCHANGED <<ring, lost>>

Emit(probe, cpu, e) ==
    CASE agent = "off" \/ ~ Fires(probe) -> UNCHANGED <<ring, lost>>
      [] Len(ring[cpu]) < RingSlots      -> /\ ring' = [ring EXCEPT ![cpu] = Append(@, e)]
                                            /\ UNCHANGED lost
      [] OTHER                           -> lost' = TRUE /\ UNCHANGED ring

(* task_newtask runs on the CPU of the parent.                             *)
Fork(p, g, cpu) ==
    /\ proc[p] = "none"
    /\ forks < MaxForks
    /\ forks' = forks + 1
    /\ proc' = [proc EXCEPT ![p] = "running"]
    /\ cgroupOf' = [cgroupOf EXCEPT ![p] = g]
    /\ was' = [was EXCEPT ![p] = {g}]
    /\ Emit("task_newtask", cpu, Start(p))
    /\ UNCHANGED <<oom_info, context, agent, listed, events, registry>>

(* A mistake: the mark is read and left.                                   *)
ExitProcessKeepingMark(p, cpu) ==
    /\ proc[p] = "running"
    /\ proc' = [proc EXCEPT ![p] = "exited"]
    /\ Emit("sched_process_exit", cpu, Exit(p))
    /\ UNCHANGED <<cgroupOf, was, forks, oom_info, context, agent, listed, events, registry>>

(* sched_process_exit runs on the CPU of the process.  The reason it adds  *)
(* to the record, whether there was a mark, is read by nobody.             *)
ExitProcess(p, cpu) ==
    /\ proc[p] = "running"
    /\ proc' = [proc EXCEPT ![p] = "exited"]
    /\ oom_info' = IF Fires("sched_process_exit") THEN MapDelete(oom_info, p) ELSE oom_info
    /\ Emit("sched_process_exit", cpu, Exit(p))
    /\ UNCHANGED <<cgroupOf, was, forks, context, agent, listed, events, registry>>

(* The OOM killer marks a process that still has its memory.               *)
oom_mark_victim(p) ==
    /\ Fires("oom_mark_victim")
    /\ proc[p] = "running"
    /\ oom_info' = HashUpdate(oom_info, p, p, OomSlots)
    /\ UNCHANGED <<proc, cgroupOf, was, forks, ring, lost, context, agent, listed, events, registry>>

Reap(p) ==
    /\ proc[p] = "exited"
    /\ proc' = [proc EXCEPT ![p] = "none"]
    /\ cgroupOf' = [cgroupOf EXCEPT ![p] = None]
    /\ was' = [was EXCEPT ![p] = {None}]
    /\ UNCHANGED <<forks, oom_info, ring, lost, context, agent, listed, events, registry>>

(* A runtime moves a process into the cgroup of its container.             *)
MoveProcess(p, g) ==
    /\ proc[p] = "running"
    /\ cgroupOf[p] # g
    /\ cgroupOf' = [cgroupOf EXCEPT ![p] = g]
    /\ was' = [was EXCEPT ![p] = @ \cup {g}]
    /\ UNCHANGED <<proc, forks, oom_info, ring, lost, context, agent, listed, events, registry>>

---------------------------------------------------------------------------
(* NewContainerContext and then, by its caller, Run.                       *)

(* The loop over collectionSpec.Programs, a Go map, attaches the probes in *)
(* any order and ignores a link that fails.                                *)
AttachProbe(probe) ==
    /\ agent = "off"
    /\ ~ Attached(probe)
    /\ \E order \in Orders : IsPrefix(Append(links, probe), order)
    /\ links' = Append(links, probe)
    /\ UNCHANGED <<kernel, client, agent, listed, events, registry>>

(* The loop ends with the probes that could be attached.  Without a tracer *)
(* the context gets no further than SubscribeEvents, which locks a mutex   *)
(* inside the nil pointer.                                                 *)
NewTracer ==
    /\ agent = "off"
    /\ agent' \in {"attached", "failed"}
    /\ UNCHANGED <<kernel, context, listed, events, registry>>

(* When the connection to conntrack fails there is no context, and nobody  *)
(* reads the records of the probes left attached.                          *)
ebpfEventSubscribe ==
    /\ agent = "attached"
    /\ agent' \in {"subscribed", "failed"}
    /\ UNCHANGED <<kernel, context, listed, events, registry>>

GetAllPids ==
    /\ agent = "subscribed"
    /\ agent' = "sending"
    /\ listed' = {p \in Pids : proc[p] # "none"}
    /\ UNCHANGED <<kernel, context, events, registry>>

initContainer(p) ==
    /\ agent = "sending"
    /\ p \in listed
    /\ Len(events) < ChanSlots
    /\ events' = Append(events, Start(p))
    /\ listed' = listed \ {p}
    /\ UNCHANGED <<kernel, context, agent, registry>>

Run ==
    /\ agent = "sending"
    /\ listed = {}
    /\ agent' = "running"
    /\ UNCHANGED <<kernel, context, listed, events, registry>>

(* The reader of proc_events: records of one CPU in order, CPUs in any.    *)
(* The one record it may hold while the channel is full is still counted   *)
(* in the ring.                                                            *)
Reader(cpu) ==
    /\ agent = "running"
    /\ ring[cpu] # <<>>
    /\ Len(events) < ChanSlots
    /\ events' = Append(events, Head(ring[cpu]))
    /\ ring' = [ring EXCEPT ![cpu] = Tail(@)]
    /\ UNCHANGED <<proc, cgroupOf, was, forks, oom_info, lost, context, agent, listed, registry>>

---------------------------------------------------------------------------
(* handleEvents                                                            *)

(* A mistake: the handler started after initContainer.                     *)
ReceiveFromRun(e) ==
    /\ agent = "running"
    /\ events # <<>>
    /\ e = Head(events)
    /\ events' = Tail(events)
    /\ UNCHANGED <<kernel, context, listed>>

Receive(e) ==
    /\ agent \in {"subscribed", "sending", "running"}
    /\ events # <<>>
    /\ e = Head(events)
    /\ events' = Tail(events)
    /\ UNCHANGED <<kernel, context, listed>>

(* The type of container a path is for, None when there is an error.  The  *)
(* first test that fits decides.                                           *)
containerByCgroup(path) ==
    CASE path.parts = 1 \/ path.prefix \in {"user.slice", "init.scope"} -> "standalone"
      [] path.parts > 1 /\ path.prefix \in {"system.slice", "runtime.slice"} -> "systemd"
      [] path.parts > 1 /\ path.prefix = "docker" ->
            IF path.id = "none" THEN None ELSE "docker"
      [] path.parts > 1 /\ path.prefix = "kubepods.slice" ->
            CASE path.id = "cri-containerd" -> "containerd"
              [] path.id = "plain"          -> "docker"
              [] path.id = "none"           -> "sandbox"
      [] OTHER -> None

ContainerType(g) == containerByCgroup(PathOf[g])

(* What /proc/<pid>/cgroup shows, None when the read fails or nothing is   *)
(* known of such a path.                                                   *)
ReadCgroupByPid(p) ==
    IF /\ proc[p] = "running" \/ (proc[p] = "exited" /\ ExitedReadable)
       /\ ContainerType(cgroupOf[p]) # None
    THEN cgroupOf[p] ELSE None

Ignore == UNCHANGED registry

Share(p, c) ==
    /\ containersByPid' = [containersByPid EXCEPT ![p] = c]
    /\ UNCHANGED <<heap, containersByCgroupId, containersById>>

NewContainer(p, g) ==
    /\ Len(heap) < MaxObjects
    /\ heap' = Append(heap, [id |-> LabelOf[g], cgroup |-> g, pid |-> p])
    /\ containersByPid' = [containersByPid EXCEPT ![p] = Len(heap')]
    /\ containersByCgroupId' = [containersByCgroupId EXCEPT ![g] = Len(heap')]
    /\ containersById' = [containersById EXCEPT ![LabelOf[g]] = Len(heap')]

(* The name a container gets from its metadata, None when they cannot be   *)
(* had: a timeout, or a container its runtime does not know.               *)
GetContainerMetadata(g) == {LabelOf[g], None}

(* createContainer: a pid that is known keeps its entry; processes of one  *)
(* cgroup share an object; a failed lookup of the metadata is not retried; *)
(* a container without a name is remembered as nil.  Only containers of    *)
(* Docker and containerd are made.                                         *)
createContainer(p) ==
    LET g == ReadCgroupByPid(p) IN
    IF containersByPid[p] # None \/ g = None THEN Ignore
    ELSE IF containersByCgroupId[g] # None THEN Share(p, containersByCgroupId[g])
    ELSE IF ContainerType(g) \notin {"docker", "containerd"} THEN Ignore
    ELSE \E name \in GetContainerMetadata(g) :
            \/ name = None /\ Ignore
            \/ name = "" /\ Share(p, Nil)
            \/ name \in Names /\ NewContainer(p, g)

AsksForMetadata(p) ==
    LET g == ReadCgroupByPid(p) IN
    /\ containersByPid[p] = None /\ g # None
    /\ containersByCgroupId[g] = None
    /\ ContainerType(g) \in {"docker", "containerd"}

(* NewContainerClientProvider returns nil when there is neither runtime,   *)
(* and ctx.client reads a field of it.                                     *)
HandleStart ==
    \E p \in Pids :
        /\ Receive(Start(p))
        /\ IF AsksForMetadata(p) /\ ~ client
           THEN Ignore /\ agent' = "panicked"
           ELSE createContainer(p) /\ UNCHANGED agent

(* A mistake: the index entry set to nil where it should be deleted.       *)
ForgetByNil(p, c) ==
    /\ containersByCgroupId' = [containersByCgroupId EXCEPT ![heap[c].cgroup] = Nil]
    /\ containersById' = [containersById EXCEPT ![heap[c].id] = None]
    /\ containersByPid' = [containersByPid EXCEPT ![p] = None]
    /\ UNCHANGED heap

(* Mistakes: one of the three entries not deleted.                         *)
ForgetKeepingCgroup(p, c) ==
    /\ containersById' = [containersById EXCEPT ![heap[c].id] = None]
    /\ containersByPid' = [containersByPid EXCEPT ![p] = None]
    /\ UNCHANGED <<heap, containersByCgroupId>>

ForgetKeepingPid(p, c) ==
    /\ containersByCgroupId' = [containersByCgroupId EXCEPT ![heap[c].cgroup] = None]
    /\ containersById' = [containersById EXCEPT ![heap[c].id] = None]
    /\ UNCHANGED <<heap, containersByPid>>

Forget(p, c) ==
    /\ containersByCgroupId' = [containersByCgroupId EXCEPT ![heap[c].cgroup] = None]
    /\ containersById' = [containersById EXCEPT ![heap[c].id] = None]
    /\ containersByPid' = [containersByPid EXCEPT ![p] = None]
    /\ UNCHANGED heap

HandleExit ==
    \E p \in Pids :
        /\ Receive(Exit(p))
        /\ CASE containersByPid[p] = None -> Ignore /\ UNCHANGED agent
             [] containersByPid[p] = Nil  -> Ignore /\ agent' = "panicked"   \* nil.Cgroup
             [] OTHER -> Forget(p, containersByPid[p]) /\ UNCHANGED agent

Next ==
    \/ \E p \in Pids, g \in Cgroups, cpu \in Cpus : Fork(p, g, cpu)
    \/ \E p \in Pids, cpu \in Cpus : ExitProcess(p, cpu)
    \/ \E p \in Pids, g \in Cgroups : MoveProcess(p, g)
    \/ \E p \in Pids : Reap(p) \/ oom_mark_victim(p) \/ initContainer(p)
    \/ \E probe \in Probes : AttachProbe(probe)
    \/ NewTracer \/ ebpfEventSubscribe \/ GetAllPids \/ Run
    \/ \E cpu \in Cpus : Reader(cpu)
    \/ HandleStart \/ HandleExit

(* The goroutines of the agent are scheduled; processes owe nothing.       *)
Fairness ==
    /\ WF_vars(NewTracer) /\ WF_vars(ebpfEventSubscribe)
    /\ WF_vars(GetAllPids) /\ WF_vars(Run)
    /\ \A p \in Pids : WF_vars(initContainer(p))
    /\ \A cpu \in Cpus : WF_vars(Reader(cpu))
    /\ WF_vars(HandleStart) /\ WF_vars(HandleExit)

Spec == Init /\ [][Next]_vars /\ Fairness

---------------------------------------------------------------------------
(* Properties                                                              *)

(* Every variable stays in its type: an object has a name and a cgroup,    *)
(* and the maps only lead to objects that were made (container.go:15-23).  *)
TypeOK ==
    /\ proc \in [Pids -> {"none", "running", "exited"}]
    /\ cgroupOf \in [Pids -> Cgroups \cup {None}]
    /\ was \in [Pids -> SUBSET (Cgroups \cup {None})]
    /\ forks \in 0 .. MaxForks
    /\ oom_info \in [Pids -> Pids \cup {None}]
    /\ ring \in [Cpus -> Seq(Events)] /\ \A c \in Cpus : Len(ring[c]) <= RingSlots
    /\ lost \in BOOLEAN
    /\ client \in BOOLEAN /\ links \in Seq(Probes)
    /\ agent \in {"off", "attached", "subscribed", "sending", "running",
                  "failed", "panicked"}
    /\ listed \subseteq Pids
    /\ events \in Seq(Events) /\ Len(events) <= ChanSlots
    /\ heap \in Seq([id : Names, cgroup : Cgroups, pid : Pids])
    /\ containersByPid \in [Pids -> Objects \cup {None, Nil}]
    /\ containersByCgroupId \in [Cgroups -> Objects \cup {None}]
    /\ containersById \in [Names -> Objects \cup {None}]

(* A Container that can still be found by its cgroup or by its name is the *)
(* one its first process is attributed to: none outlives the exit of that  *)
(* process in an index, to be handed to processes started later            *)
(* (container.go:84-89, 119-122, 145-147).                                 *)
IndexedIsReferenced ==
    \A c \in Objects :
        \/ \E g \in Cgroups : containersByCgroupId[g] = c
        \/ \E n \in Names : containersById[n] = c
        => containersByPid[heap[c].pid] = c

ExitFirst ==
    \A i \in DOMAIN links : links[i] = "oom_mark_victim" =>
        \E j \in DOMAIN links : j < i /\ links[j] = "sched_process_exit"

(* A mark belongs to a process that still runs, so that the exit of a later *)
(* process with the same pid is not reported as an OOM kill                *)
(* (proc.c:61-64), also while the probes are attached one by one: the one  *)
(* that deletes must be there before the one that marks                    *)
(* (ebpftracer.go:62-76).                                                  *)
MarkedAreRunning ==
    ExitFirst /\ agent \notin {"failed", "panicked"} =>
        \A p \in Pids : oom_info[p] # None => proc[p] = "running"

Pending(e) ==
    \/ \E i \in DOMAIN events : events[i] = e
    \/ \E cpu \in Cpus : \E i \in DOMAIN ring[cpu] : ring[cpu][i] = e

Undisturbed == Fires("sched_process_exit") /\ ~ lost /\ ~ ExitedReadable

(* A pid is known only while its process runs or its exit is still on the  *)
(* way, whatever order the CPUs' records are read in and however late the  *)
(* handler is: attaching the probes before listing /proc, and reading the  *)
(* cgroup afresh for each event, leave no gap (container.go:35-47, 74-118).*)
NoStalePid ==
    Undisturbed => \A p \in Pids : containersByPid[p] # None =>
                       proc[p] = "running" \/ Pending(Exit(p))

(* A running process is attributed to a container whose cgroup it has been *)
(* in itself, not one that an earlier process with its pid was in          *)
(* (container.go:84-89, 110-122).                                          *)
AttributionIsOwn ==
    Undisturbed => \A p \in Pids :
        (containersByPid[p] \in Objects /\ proc[p] = "running" /\ ~ Pending(Exit(p)))
            => heap[containersByPid[p]].cgroup \in was[p]

(* The entry of a process that has exited does not stay for ever           *)
(* (container.go:84-89).                                                   *)
ExitedAreForgotten ==
    \A p \in Pids : (containersByPid[p] # None /\ proc[p] # "running")
                      ~> (containersByPid[p] = None \/ proc[p] = "running" \/ ~ Undisturbed)

(* Startup fails or comes to its end: it does not block on the channel it  *)
(* fills, since the consumer already runs (container.go:46-47).            *)
StartupCompletes == <>(agent \in {"running", "failed", "panicked"})

(* container.go:174 says of the containers that get no name: "skip pause   *)
(* containers"; :133 logs that they are ignored.                           *)
PauseContainersAreSkipped == client => agent # "panicked"

(* cgroup.go:151 gives the path of a container whose cgroup Docker's       *)
(* systemd driver made, /system.slice/docker-<id>.scope, as one of         *)
(* Docker's.                                                               *)
DockerScopesAreDocker ==
    agent = "running" =>
    \A p \in Pids :
        LET path == PathOf[cgroupOf[p]] IN
        proc[p] = "running" /\ path.prefix = "system.slice" /\ path.scope = "docker"
            => containerByCgroup(path) = "docker"

=============================================================================
