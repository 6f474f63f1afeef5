----------------------- MODULE ContainerRegistryProofs -----------------------
(***************************************************************************)
(* Proofs about ContainerRegistry, for any pids, CPUs, cgroups, names and  *)
(* paths and any room in the rings, the channel and oom_info.              *)
(***************************************************************************)
EXTENDS ContainerRegistry, SequenceTheorems, TLAPS

In(s, e) == \E i \in DOMAIN s : s[i] = e

LEMMA AppendIn ==
    \A s \in Seq(Events), x \in Events :
        /\ Append(s, x) \in Seq(Events) /\ Len(Append(s, x)) = Len(s) + 1
        /\ Len(s) \in Nat
        /\ In(Append(s, x), x)
        /\ \A e : In(s, e) => In(Append(s, x), e)
<1> TAKE s \in Seq(Events), x \in Events
<1>1. /\ Append(s, x) \in Seq(Events) /\ Len(Append(s, x)) = Len(s) + 1
      /\ \A i \in 1 .. Len(s) : Append(s, x)[i] = s[i]
      /\ Append(s, x)[Len(s) + 1] = x
  BY AppendProperties
<1>2. Len(s) \in Nat /\ DOMAIN s = 1 .. Len(s) /\ DOMAIN Append(s, x) = 1 .. Len(s) + 1
  BY <1>1, LenProperties
<1> QED
  BY <1>1, <1>2 DEF In

LEMMA TailIn ==
    \A s \in Seq(Events) : s # <<>> =>
        /\ Head(s) \in Events /\ Tail(s) \in Seq(Events)
        /\ Len(s) \in Nat /\ Len(Tail(s)) = Len(s) - 1
        /\ In(s, Head(s))
        /\ \A e : In(s, e) => e = Head(s) \/ In(Tail(s), e)
<1> SUFFICES ASSUME NEW s \in Seq(Events), s # <<>>
             PROVE  /\ Head(s) \in Events /\ Tail(s) \in Seq(Events)
                    /\ Len(s) \in Nat /\ Len(Tail(s)) = Len(s) - 1
                    /\ In(s, Head(s))
                    /\ \A e : In(s, e) => e = Head(s) \/ In(Tail(s), e)
  OBVIOUS
<1>1. /\ Head(s) \in Events /\ Tail(s) \in Seq(Events) /\ Len(Tail(s)) = Len(s) - 1
      /\ \A i \in 1 .. Len(Tail(s)) : Tail(s)[i] = s[i + 1]
  BY HeadTailProperties
<1>2. /\ Len(s) \in Nat /\ Len(s) # 0 /\ Head(s) = s[1]
      /\ DOMAIN s = 1 .. Len(s) /\ DOMAIN Tail(s) = 1 .. Len(s) - 1
  BY <1>1, LenProperties, EmptySeq
<1>3. \A i \in 2 .. Len(s) : i - 1 \in DOMAIN Tail(s) /\ Tail(s)[i - 1] = s[i]
  BY <1>1, <1>2
<1>4. In(s, Head(s))
  BY <1>2 DEF In
<1>5. ASSUME NEW e, In(s, e)
      PROVE  e = Head(s) \/ In(Tail(s), e)
  <2>1. PICK i \in 1 .. Len(s) : s[i] = e
    BY <1>2, <1>5 DEF In
  <2>2. i = 1 \/ i \in 2 .. Len(s)
    BY <1>2
  <2> QED
    BY <1>2, <1>3, <2>1, <2>2 DEF In
<1> QED
  BY <1>1, <1>2, <1>4, <1>5

---------------------------------------------------------------------------
(* The invariant.                                                          *)

(* The two indexes lead to the objects of their keys.                      *)
IndexesAreKeyed ==
    /\ \A g \in Cgroups : containersByCgroupId[g] # None => heap[containersByCgroupId[g]].cgroup = g
    /\ \A n \in Names : containersById[n] # None => heap[containersById[n]].id = n

MarksAreMade == (\E p \in Pids : oom_info[p] # None) => Attached("oom_mark_victim")

(* Nothing is known before the probes are attached, so every exit of a     *)
(* known process is recorded.                                              *)
NothingKnownBefore == agent = "off" => \A p \in Pids : containersByPid[p] = None

InOwnCgroup == \A p \in Pids : cgroupOf[p] \in was[p]

Marks == MarksAreMade /\ MarkedAreRunning

IInv == /\ TypeOK /\ IndexesAreKeyed /\ IndexedIsReferenced /\ Marks
        /\ NothingKnownBefore /\ InOwnCgroup /\ NoStalePid /\ AttributionIsOwn

LEMMA InitIInv == Init => IInv
<1> SUFFICES ASSUME Init
             PROVE  IInv
  OBVIOUS
<1> USE DEF Init
<1>1. \A c \in Cpus : ring[c] \in Seq(Events) /\ Len(ring[c]) <= RingSlots
  BY BoundsAssumption, EmptySeq
<1>2. events \in Seq(Events) /\ Len(events) <= ChanSlots
  BY BoundsAssumption, EmptySeq
<1>3. heap \in Seq([id : Names, cgroup : Cgroups, pid : Pids])
  BY EmptySeq
<1>4. TypeOK
  <2>1. /\ proc \in [Pids -> {"none", "running", "exited"}]
        /\ cgroupOf \in [Pids -> Cgroups \cup {None}]
    OBVIOUS
  <2>2. was \in [Pids -> SUBSET (Cgroups \cup {None})] /\ forks \in 0 .. MaxForks
    BY <2>1, BoundsAssumption
  <2>3. ring \in [Cpus -> Seq(Events)]
    BY EmptySeq
  <2> QED
    BY <1>1, <1>2, <1>3, <2>1, <2>2, <2>3, EmptySeq DEF TypeOK
<1>5. IndexesAreKeyed /\ Marks /\ NothingKnownBefore /\ InOwnCgroup
  BY DEF IndexesAreKeyed, Marks, MarksAreMade, MarkedAreRunning, NothingKnownBefore, InOwnCgroup
<1>6. IndexedIsReferenced /\ NoStalePid /\ AttributionIsOwn
  BY NoneAssumption DEF IndexedIsReferenced, NoStalePid, AttributionIsOwn, Objects
<1> QED
  BY <1>4, <1>5, <1>6 DEF IInv

---------------------------------------------------------------------------
(* What the handlers do to the registry.                                   *)

Container == [id : Names, cgroup : Cgroups, pid : Pids]

LEMMA HeapTypes ==
    ASSUME TypeOK
    PROVE  /\ Len(heap) \in Nat /\ Objects = 1 .. Len(heap) /\ None \notin Objects /\ Nil \notin Objects
           /\ \A c \in Objects : heap[c] \in Container
<1>1. \A s \in Seq(Container) : Len(s) \in Nat /\ DOMAIN s = 1 .. Len(s)
                              /\ \A i \in 1 .. Len(s) : s[i] \in Container
  BY LenProperties, ElementOfSeq
<1>2. heap \in Seq(Container)
  BY DEF TypeOK, Container
<1> QED
  BY <1>1, <1>2, NoneAssumption DEF Objects, Nil

(* A start: nothing, or an entry for a pid that has none.                  *)
LEMMA CreateCases ==
    ASSUME TypeOK, NEW p \in Pids, createContainer(p)
    PROVE  \/ UNCHANGED registry
           \/ /\ containersByPid[p] = None
              /\ ReadCgroupByPid(p) \in Cgroups
              /\ \/ /\ containersByCgroupId[ReadCgroupByPid(p)] \in Objects
                    /\ Share(p, containersByCgroupId[ReadCgroupByPid(p)])
                 \/ Share(p, Nil)
                 \/ LabelOf[ReadCgroupByPid(p)] \in Names /\ NewContainer(p, ReadCgroupByPid(p))
<1>1. ReadCgroupByPid(p) # None => ReadCgroupByPid(p) \in Cgroups
  BY DEF ReadCgroupByPid, TypeOK
<1> DEFINE g == ReadCgroupByPid(p)
<1>2. CASE UNCHANGED registry
  BY <1>2
<1>3. CASE ~ UNCHANGED registry
  <2>1. containersByPid[p] = None /\ g # None
    BY <1>3 DEF createContainer, Ignore
  <2>2. CASE containersByCgroupId[g] # None
    BY <1>1, <2>1, <2>2 DEF createContainer, TypeOK
  <2>3. CASE containersByCgroupId[g] = None
    <3>1. \E name \in {LabelOf[g], None} :
             \/ name = None /\ Ignore
             \/ name = "" /\ Share(p, Nil)
             \/ name \in Names /\ NewContainer(p, g)
      BY <1>3, <2>1, <2>3 DEF createContainer, Ignore, GetContainerMetadata
    <3>2. Share(p, Nil) \/ (LabelOf[g] \in Names /\ NewContainer(p, g))
      BY <1>3, <3>1, LabelOfAssumption DEF Ignore
    <3> QED
      BY <1>1, <2>1, <3>2
  <2> QED
    BY <2>2, <2>3
<1> QED
  BY <1>2, <1>3

(* What a new container is.                                                *)
LEMMA NewContainerFields ==
    ASSUME TypeOK, NEW p \in Pids, NEW g \in Cgroups, LabelOf[g] \in Names, NewContainer(p, g)
    PROVE  LET new == Len(heap) + 1 IN
           /\ heap' \in Seq(Container) /\ Objects' = Objects \cup {new} /\ new \notin Objects
           /\ new \in Nat /\ new # None
           /\ \A c \in Objects : heap'[c] = heap[c]
           /\ heap'[new] = [id |-> LabelOf[g], cgroup |-> g, pid |-> p]
           /\ containersByPid' = [containersByPid EXCEPT ![p] = new]
           /\ containersByCgroupId' = [containersByCgroupId EXCEPT ![g] = new]
           /\ containersById' = [containersById EXCEPT ![LabelOf[g]] = new]
<1> DEFINE record == [id |-> LabelOf[g], cgroup |-> g, pid |-> p]
<1>1. record \in Container /\ heap \in Seq(Container) /\ heap' = Append(heap, record)
  BY DEF Container, TypeOK, NewContainer
<1> HIDE DEF record
<1>2. \A s \in Seq(Container), e \in Container :
         /\ Append(s, e) \in Seq(Container) /\ Len(Append(s, e)) = Len(s) + 1
         /\ DOMAIN Append(s, e) = 1 .. Len(s) + 1 /\ DOMAIN s = 1 .. Len(s) /\ Len(s) \in Nat
         /\ \A i \in 1 .. Len(s) : Append(s, e)[i] = s[i]
         /\ Append(s, e)[Len(s) + 1] = e
  BY AppendProperties, LenProperties
<1>3. /\ heap' \in Seq(Container) /\ Len(heap') = Len(heap) + 1 /\ Len(heap) \in Nat
      /\ DOMAIN heap' = 1 .. Len(heap) + 1 /\ DOMAIN heap = 1 .. Len(heap)
      /\ \A i \in 1 .. Len(heap) : heap'[i] = heap[i]
      /\ heap'[Len(heap) + 1] = record
  BY <1>1, <1>2
<1>4. /\ Objects' = Objects \cup {Len(heap) + 1} /\ Len(heap) + 1 \notin Objects
      /\ Len(heap) + 1 \in Nat /\ Len(heap) + 1 # None
      /\ \A c \in Objects : heap'[c] = heap[c]
  BY <1>3, NoneAssumption DEF Objects
<1> QED
  BY <1>3, <1>4 DEF NewContainer, record

RegistryTypes ==
    /\ heap \in Seq([id : Names, cgroup : Cgroups, pid : Pids])
    /\ containersByPid \in [Pids -> Objects \cup {None, Nil}]
    /\ containersByCgroupId \in [Cgroups -> Objects \cup {None}]
    /\ containersById \in [Names -> Objects \cup {None}]

Indexes == RegistryTypes /\ IndexesAreKeyed /\ IndexedIsReferenced

(* The indexes and the first processes of what they lead to agree after a  *)
(* start.                                                                  *)
LEMMA CreateKeepsIndexes ==
    ASSUME TypeOK, IndexesAreKeyed, IndexedIsReferenced, NEW p \in Pids, createContainer(p)
    PROVE  Indexes'
<1> USE DEF Indexes
<1>1. RegistryTypes
  BY DEF TypeOK, RegistryTypes
<1>2. CASE UNCHANGED registry
  <2>1. UNCHANGED <<heap, containersByPid, containersByCgroupId, containersById, Objects>>
    BY <1>2 DEF registry, Objects
  <2> QED
    BY <1>1, <2>1 DEF RegistryTypes, IndexesAreKeyed, IndexedIsReferenced
<1>3. ASSUME containersByPid[p] = None, NEW c \in Objects \cup {Nil}, Share(p, c)
      PROVE  Indexes'
  <2>1. /\ UNCHANGED <<heap, containersByCgroupId, containersById, Objects>>
        /\ containersByPid' = [containersByPid EXCEPT ![p] = c]
    BY <1>3 DEF Share, Objects
  <2>2. RegistryTypes'
    BY <1>1, <2>1 DEF RegistryTypes
  <2>3. IndexesAreKeyed'
    BY <2>1 DEF IndexesAreKeyed
  <2>4. IndexedIsReferenced'
    <3>1. \A d \in Objects : containersByPid[heap[d].pid] = d => heap[d].pid # p
      BY <1>3, HeapTypes
    <3>2. \A q \in Pids \ {p} : containersByPid'[q] = containersByPid[q]
      BY <1>1, <2>1 DEF RegistryTypes
    <3>3. \A d \in Objects : heap[d].pid \in Pids
      BY HeapTypes DEF Container
    <3> QED
      BY <2>1, <3>1, <3>2, <3>3 DEF IndexedIsReferenced
  <2> QED
    BY <2>2, <2>3, <2>4
<1>4. ASSUME containersByPid[p] = None, NEW g \in Cgroups, LabelOf[g] \in Names, NewContainer(p, g)
      PROVE  Indexes'
  <2>1. PICK new :
          /\ heap' \in Seq(Container) /\ Objects' = Objects \cup {new} /\ new \notin Objects
          /\ new \in Nat /\ new # None
          /\ \A c \in Objects : heap'[c] = heap[c]
          /\ heap'[new] = [id |-> LabelOf[g], cgroup |-> g, pid |-> p]
          /\ containersByPid' = [containersByPid EXCEPT ![p] = new]
          /\ containersByCgroupId' = [containersByCgroupId EXCEPT ![g] = new]
          /\ containersById' = [containersById EXCEPT ![LabelOf[g]] = new]
    BY <1>4, NewContainerFields
  <2>2. RegistryTypes'
    BY <1>1, <2>1 DEF RegistryTypes, Container
  <2>3. IndexesAreKeyed'
    BY <1>1, <1>4, <2>1 DEF IndexesAreKeyed, RegistryTypes
  <2>4. IndexedIsReferenced'
    <3> SUFFICES ASSUME NEW d \in Objects',
                        \/ \E h \in Cgroups : containersByCgroupId'[h] = d
                        \/ \E n \in Names : containersById'[n] = d
                 PROVE  containersByPid'[heap'[d].pid] = d
      BY DEF IndexedIsReferenced
    <3>1. CASE d = new
      BY <1>1, <2>1, <3>1 DEF RegistryTypes
    <3>2. CASE d \in Objects /\ d # new
      <4>1. \/ \E h \in Cgroups : containersByCgroupId[h] = d
            \/ \E n \in Names : containersById[n] = d
        BY <1>1, <1>4, <2>1, <3>2 DEF RegistryTypes
      <4>2. containersByPid[heap[d].pid] = d /\ d # None /\ heap[d].pid \in Pids
        BY <3>2, <4>1, HeapTypes DEF IndexedIsReferenced, Container
      <4> QED
        BY <1>1, <1>4, <2>1, <3>2, <4>2 DEF RegistryTypes
    <3> QED
      BY <2>1, <3>1, <3>2
  <2> QED
    BY <2>2, <2>3, <2>4
<1> QED
  BY <1>2, <1>3, <1>4, CreateCases

(* After an exit nothing leads to the container any more.                  *)
LEMMA ForgetKeepsIndexes ==
    ASSUME TypeOK, IndexesAreKeyed, IndexedIsReferenced, NEW p \in Pids, NEW c \in Objects,
           containersByPid[p] = c, Forget(p, c)
    PROVE  Indexes'
<1>1. RegistryTypes /\ heap[c].cgroup \in Cgroups /\ heap[c].id \in Names
  BY HeapTypes DEF TypeOK, RegistryTypes, Container
<1>2. /\ containersByCgroupId' = [containersByCgroupId EXCEPT ![heap[c].cgroup] = None]
      /\ containersById' = [containersById EXCEPT ![heap[c].id] = None]
      /\ containersByPid' = [containersByPid EXCEPT ![p] = None]
      /\ UNCHANGED <<heap, Objects>>
  BY DEF Forget, Objects
<1>3. RegistryTypes'
  BY <1>1, <1>2 DEF RegistryTypes
<1>4. IndexesAreKeyed'
  BY <1>1, <1>2 DEF IndexesAreKeyed, RegistryTypes
<1>5. IndexedIsReferenced'
  <2> SUFFICES ASSUME NEW d \in Objects,
                      \/ \E h \in Cgroups : containersByCgroupId'[h] = d
                      \/ \E n \in Names : containersById'[n] = d
               PROVE  containersByPid'[heap[d].pid] = d
    BY <1>2 DEF IndexedIsReferenced
  <2>1. d # None
    BY HeapTypes
  <2>2. \/ \E h \in Cgroups : containersByCgroupId[h] = d /\ h # heap[c].cgroup
        \/ \E n \in Names : containersById[n] = d /\ n # heap[c].id
    BY <1>1, <1>2, <2>1 DEF RegistryTypes
  <2>3. d # c
    BY <2>1, <2>2 DEF IndexesAreKeyed
  <2>4. containersByPid[heap[d].pid] = d /\ heap[d].pid \in Pids
    BY <2>2, HeapTypes DEF IndexedIsReferenced, Container
  <2> QED
    BY <1>1, <1>2, <2>3, <2>4 DEF RegistryTypes
<1> QED
  BY <1>3, <1>4, <1>5 DEF Indexes

---------------------------------------------------------------------------
(* The records.                                                            *)

RecordTypes ==
    /\ ring \in [Cpus -> Seq(Events)] /\ \A c \in Cpus : Len(ring[c]) <= RingSlots
    /\ events \in Seq(Events) /\ Len(events) <= ChanSlots

LEMMA PendingIn ==
    \A e : Pending(e) <=> In(events, e) \/ \E cpu \in Cpus : In(ring[cpu], e)
BY DEF Pending, In

(* A record is written, or it is known that one was dropped.               *)
LEMMA EmitCases ==
    ASSUME TypeOK, NEW probe, NEW cpu \in Cpus, NEW e \in Events, Emit(probe, cpu, e), UNCHANGED events
    PROVE  /\ RecordTypes' /\ lost' \in BOOLEAN
           /\ lost => lost'
           /\ \A x : Pending(x) => Pending(x)'
           /\ agent # "off" /\ Fires(probe) /\ ~ lost' => Pending(e)'
<1>1. RecordTypes
  BY DEF TypeOK, RecordTypes
<1>2. CASE /\ UNCHANGED ring
           /\ ((agent = "off" \/ ~ Fires(probe)) /\ UNCHANGED lost) \/ lost' = TRUE
  <2>1. RecordTypes' /\ lost' \in BOOLEAN
    BY <1>1, <1>2 DEF RecordTypes, TypeOK
  <2>2. \A x : Pending(x) => Pending(x)'
    BY <1>2 DEF Pending
  <2>3. (lost => lost') /\ (agent # "off" /\ Fires(probe) /\ ~ lost' => FALSE)
    BY <1>2
  <2> QED
    BY <2>1, <2>2, <2>3
<1>3. CASE /\ Len(ring[cpu]) < RingSlots /\ UNCHANGED lost
           /\ ring' = [ring EXCEPT ![cpu] = Append(@, e)]
  <2>1. PICK s \in Seq(Events) : s = ring[cpu]
    BY <1>1 DEF RecordTypes
  <2>2. /\ Append(s, e) \in Seq(Events) /\ Len(Append(s, e)) = Len(s) + 1
        /\ Len(s) \in Nat /\ In(Append(s, e), e)
        /\ \A x : In(s, x) => In(Append(s, e), x)
    BY AppendIn
  <2>3. ring'[cpu] = Append(s, e) /\ \A c \in Cpus \ {cpu} : ring'[c] = ring[c]
    BY <1>1, <1>3, <2>1 DEF RecordTypes
  <2>4. RecordTypes'
    BY <1>1, <1>3, <2>1, <2>2, <2>3, BoundsAssumption DEF RecordTypes
  <2>5. \A x : \A c \in Cpus : In(ring[c], x) => In(ring'[c], x)
    BY <2>1, <2>2, <2>3
  <2>6. \A x : Pending(x)' <=> In(events', x) \/ \E c \in Cpus : In(ring'[c], x)
    BY DEF Pending, In
  <2>7. (\A x : Pending(x) => Pending(x)') /\ Pending(e)'
    BY <2>2, <2>3, <2>5, <2>6, PendingIn
  <2> QED
    BY <1>3, <2>4, <2>7 DEF TypeOK
<1> QED
  BY <1>2, <1>3 DEF Emit

(* The handler takes a record out of the channel.                          *)
LEMMA ReceiveCases ==
    ASSUME TypeOK, NEW e, Receive(e)
    PROVE  /\ RecordTypes' /\ e \in Events /\ Pending(e)
           /\ \A x : Pending(x) => x = e \/ Pending(x)'
<1>1. PICK s \in Seq(Events) : s = events /\ s # <<>> /\ e = Head(s) /\ events' = Tail(s)
  BY DEF TypeOK, Receive
<1>2. /\ Head(s) \in Events /\ Tail(s) \in Seq(Events)
      /\ Len(s) \in Nat /\ Len(Tail(s)) = Len(s) - 1
      /\ In(s, Head(s))
      /\ \A x : In(s, x) => x = Head(s) \/ In(Tail(s), x)
  BY <1>1, TailIn
<1>3. RecordTypes'
  BY <1>1, <1>2, BoundsAssumption DEF RecordTypes, TypeOK, Receive, kernel
<1>4. \A x : Pending(x)' <=> In(events', x) \/ \E c \in Cpus : In(ring'[c], x)
  BY DEF Pending, In
<1> QED
  BY <1>1, <1>2, <1>3, <1>4, PendingIn DEF Receive, kernel

(* The reader moves one on, and the listing sends starts.                  *)
LEMMA ReaderCases ==
    ASSUME TypeOK, NEW cpu \in Cpus, Reader(cpu)
    PROVE  /\ RecordTypes'
           /\ \A x : Pending(x) => Pending(x)'
<1>1. PICK s \in Seq(Events) : s = ring[cpu] /\ s # <<>> /\ ring' = [ring EXCEPT ![cpu] = Tail(s)]
  BY DEF TypeOK, Reader
<1>2. /\ Head(s) \in Events /\ Tail(s) \in Seq(Events)
      /\ Len(s) \in Nat /\ Len(Tail(s)) = Len(s) - 1
      /\ \A x : In(s, x) => x = Head(s) \/ In(Tail(s), x)
  BY <1>1, TailIn
<1>3. PICK q \in Seq(Events) : q = events /\ events' = Append(q, Head(s)) /\ Len(q) < ChanSlots
  BY <1>1 DEF TypeOK, Reader
<1>4. /\ Append(q, Head(s)) \in Seq(Events) /\ Len(Append(q, Head(s))) = Len(q) + 1
      /\ Len(q) \in Nat /\ In(Append(q, Head(s)), Head(s))
      /\ \A x : In(q, x) => In(Append(q, Head(s)), x)
  BY <1>2, AppendIn
<1>5. ring'[cpu] = Tail(s) /\ \A c \in Cpus \ {cpu} : ring'[c] = ring[c]
  BY <1>1 DEF TypeOK
<1>6. RecordTypes'
  <2>1. ring' \in [Cpus -> Seq(Events)] /\ \A c \in Cpus : Len(ring'[c]) <= RingSlots
    BY <1>1, <1>2, <1>5, BoundsAssumption DEF TypeOK
  <2> QED
    BY <1>3, <1>4, <2>1, BoundsAssumption DEF RecordTypes
<1>7. \A x : Pending(x)' <=> In(events', x) \/ \E c \in Cpus : In(ring'[c], x)
  BY DEF Pending, In
<1> QED
  BY <1>1, <1>2, <1>3, <1>4, <1>5, <1>6, <1>7, PendingIn

LEMMA SendCases ==
    ASSUME TypeOK, NEW p \in Pids, initContainer(p)
    PROVE  /\ RecordTypes'
           /\ \A x : Pending(x) => Pending(x)'
<1>1. PICK q \in Seq(Events) : q = events /\ events' = Append(q, Start(p)) /\ Len(q) < ChanSlots
  BY DEF TypeOK, initContainer
<1>2. Start(p) \in Events
  BY DEF Start, Events
<1>3. /\ Append(q, Start(p)) \in Seq(Events) /\ Len(Append(q, Start(p))) = Len(q) + 1
      /\ Len(q) \in Nat /\ \A x : In(q, x) => In(Append(q, Start(p)), x)
  BY <1>2, AppendIn
<1>4. RecordTypes'
  BY <1>1, <1>3, BoundsAssumption DEF RecordTypes, TypeOK, initContainer, kernel
<1>5. \A x : Pending(x)' <=> In(events', x) \/ \E c \in Cpus : In(ring'[c], x)
  BY DEF Pending, In
<1> QED
  BY <1>1, <1>3, <1>4, <1>5, PendingIn DEF initContainer, kernel

---------------------------------------------------------------------------
(* The steps.                                                              *)

(* What no step of the kernel or of the startup disturbs.                  *)
LEMMA RegistryStays ==
    ASSUME IInv, UNCHANGED registry, agent' = "off" => agent = "off"
    PROVE  Indexes' /\ NothingKnownBefore'
<1>1. UNCHANGED <<heap, containersByPid, containersByCgroupId, containersById, Objects>>
  BY DEF registry, Objects
<1> QED
  BY <1>1 DEF IInv, TypeOK, Indexes, RegistryTypes, IndexesAreKeyed, IndexedIsReferenced,
              NothingKnownBefore

(* The probes attached stay so; those of an agent that is gone are silent. *)
LEMMA ProbesStay ==
    ASSUME UNCHANGED links,
           agent \in {"failed", "panicked"} => agent' \in {"failed", "panicked"}
    PROVE  /\ \A probe : Attached(probe)' <=> Attached(probe)
           /\ \A probe : Fires(probe)' => Fires(probe)
           /\ ExitFirst' <=> ExitFirst
<1>1. \A probe : Attached(probe)' <=> Attached(probe)
  BY DEF Attached
<1>2. ExitFirst' <=> ExitFirst
  BY DEF ExitFirst
<1> QED
  BY <1>1, <1>2 DEF Fires

LEMMA MarksStay ==
    ASSUME IInv, UNCHANGED links,
           agent \in {"failed", "panicked"} => agent' \in {"failed", "panicked"},
           \A p \in Pids : oom_info'[p] # None =>
               oom_info[p] # None /\ (proc[p] = "running" => proc'[p] = "running")
    PROVE  Marks'
BY ProbesStay DEF IInv, Marks, MarksAreMade, MarkedAreRunning

(* A process stays known, and rightly so, while it runs or its exit is on  *)
(* its way.                                                                *)
Known(p) == containersByPid[p] # None

LEMMA KnowledgeStays ==
    ASSUME IInv, UNCHANGED registry, Undisturbed' => Undisturbed,
           \A p \in Pids : Pending(Exit(p)) => Pending(Exit(p))',
           \A p \in Pids : proc[p] = "running" /\ proc'[p] # "running" /\ Known(p) /\ Undisturbed'
                           => Pending(Exit(p))',
           \A p \in Pids : proc'[p] = "running" => was[p] \subseteq was'[p] \/ proc[p] # "running"
    PROVE  NoStalePid' /\ AttributionIsOwn'
<1>1. UNCHANGED <<heap, containersByPid, Objects>>
  BY DEF registry, Objects
<1>2. NoStalePid'
  BY <1>1 DEF IInv, NoStalePid, Known
<1>3. AttributionIsOwn'
  <2>1. \A p \in Pids : containersByPid[p] \in Objects => containersByPid[p] # None
    BY HeapTypes DEF IInv
  <2> QED
    BY <1>1, <2>1 DEF IInv, NoStalePid, AttributionIsOwn
<1> QED
  BY <1>2, <1>3

LEMMA ForkKeeps ==
    ASSUME IInv, NEW p \in Pids, NEW g \in Cgroups, NEW cpu \in Cpus, Fork(p, g, cpu)
    PROVE  IInv'
<1> USE DEF Fork
<1>1. Start(p) \in Events
  BY DEF Start, Events
<1>2. /\ RecordTypes' /\ lost' \in BOOLEAN /\ (lost => lost')
      /\ \A x : Pending(x) => Pending(x)'
  BY <1>1, EmitCases DEF IInv
<1>3. Indexes' /\ NothingKnownBefore'
  BY RegistryStays
<1>4. NoStalePid' /\ AttributionIsOwn'
  BY <1>2, ProbesStay, KnowledgeStays DEF context, Undisturbed, IInv, TypeOK
<1>5. Marks' /\ InOwnCgroup'
  <2>1. Marks'
    BY MarksStay DEF context, IInv, TypeOK
  <2>2. InOwnCgroup'
    BY DEF IInv, TypeOK, InOwnCgroup
  <2> QED
    BY <2>1, <2>2
<1>6. /\ proc' \in [Pids -> {"none", "running", "exited"}]
      /\ cgroupOf' \in [Pids -> Cgroups \cup {None}]
      /\ was' \in [Pids -> SUBSET (Cgroups \cup {None})]
      /\ forks' \in 0 .. MaxForks
      /\ UNCHANGED <<oom_info, client, links, agent, listed>>
  BY BoundsAssumption DEF context, IInv, TypeOK
<1> QED
  BY <1>2, <1>3, <1>4, <1>5, <1>6 DEF IInv, TypeOK, RecordTypes, Indexes, RegistryTypes

LEMMA ExitKeeps ==
    ASSUME IInv, NEW p \in Pids, NEW cpu \in Cpus, ExitProcess(p, cpu)
    PROVE  IInv'
<1> USE DEF ExitProcess
<1>1. Exit(p) \in Events
  BY DEF Exit, Events
<1>2. /\ RecordTypes' /\ lost' \in BOOLEAN /\ (lost => lost')
      /\ \A x : Pending(x) => Pending(x)'
      /\ agent # "off" /\ Fires("sched_process_exit") /\ ~ lost' => Pending(Exit(p))'
  BY <1>1, EmitCases DEF IInv
<1>3. Indexes' /\ NothingKnownBefore'
  BY RegistryStays
<1>4. NoStalePid' /\ AttributionIsOwn'
  <2>1. Known(p) /\ Undisturbed' => Pending(Exit(p))'
    BY <1>2, ProbesStay DEF context, Undisturbed, Known, IInv, NothingKnownBefore
  <2>2. \A q \in Pids \ {p} : proc'[q] = proc[q]
    BY DEF IInv, TypeOK
  <2> QED
    BY <1>2, <2>1, <2>2, ProbesStay, KnowledgeStays DEF context, Undisturbed
<1>5. /\ proc' \in [Pids -> {"none", "running", "exited"}]
      /\ oom_info' \in [Pids -> Pids \cup {None}]
      /\ UNCHANGED <<cgroupOf, was, forks, client, links, agent, listed>>
  BY DEF context, IInv, TypeOK, MapDelete
<1>6. Marks' /\ InOwnCgroup'
  <2>1. CASE Fires("sched_process_exit")
    <3>1. oom_info' = [oom_info EXCEPT ![p] = None]
      BY <2>1 DEF MapDelete
    <3> QED
      BY <1>5, <3>1, MarksStay DEF IInv, TypeOK, InOwnCgroup
  <2>2. CASE ~ Fires("sched_process_exit")
    <3>1. MarksAreMade'
      BY <1>5, <2>2, ProbesStay DEF IInv, Marks, MarksAreMade
    <3>2. MarkedAreRunning'
      <4> SUFFICES ASSUME ExitFirst, agent \notin {"failed", "panicked"}
                   PROVE  \A q \in Pids : oom_info[q] = None
        BY <1>5, <2>2, ProbesStay DEF MarkedAreRunning
      <4>1. Attached("oom_mark_victim") => Attached("sched_process_exit")
        BY DEF ExitFirst, Attached
      <4> QED
        BY <2>2, <4>1 DEF Fires, IInv, Marks, MarksAreMade
    <3> QED
      BY <1>5, <3>1, <3>2 DEF Marks, IInv, InOwnCgroup
  <2> QED
    BY <2>1, <2>2
<1> QED
  BY <1>2, <1>3, <1>4, <1>5, <1>6 DEF IInv, TypeOK, RecordTypes, Indexes, RegistryTypes

LEMMA RecordsStay ==
    ASSUME IInv, UNCHANGED <<ring, events>>
    PROVE  RecordTypes' /\ \A x : Pending(x) => Pending(x)'
BY DEF IInv, TypeOK, RecordTypes, Pending

LEMMA MarkKeeps ==
    ASSUME IInv, NEW p \in Pids, oom_mark_victim(p)
    PROVE  IInv'
<1> USE DEF oom_mark_victim
<1>1. /\ oom_info' \in [Pids -> Pids \cup {None}]
      /\ \A q \in Pids \ {p} : oom_info'[q] = oom_info[q]
  BY DEF IInv, TypeOK, HashUpdate
<1>2. RecordTypes' /\ (\A x : Pending(x) => Pending(x)') /\ Indexes' /\ NothingKnownBefore'
  BY RecordsStay, RegistryStays
<1>3. NoStalePid' /\ AttributionIsOwn'
  BY <1>2, ProbesStay, KnowledgeStays DEF context, Undisturbed
<1>4. Marks' /\ InOwnCgroup'
  BY <1>1, ProbesStay DEF context, Fires, IInv, Marks, MarksAreMade, MarkedAreRunning, InOwnCgroup
<1> QED
  BY <1>1, <1>2, <1>3, <1>4 DEF context, IInv, TypeOK, RecordTypes, Indexes, RegistryTypes

LEMMA ReapKeeps ==
    ASSUME IInv, NEW p \in Pids, Reap(p)
    PROVE  IInv'
<1> USE DEF Reap
<1>1. RecordTypes' /\ (\A x : Pending(x) => Pending(x)') /\ Indexes' /\ NothingKnownBefore'
  BY RecordsStay, RegistryStays
<1>2. NoStalePid' /\ AttributionIsOwn'
  BY <1>1, ProbesStay, KnowledgeStays DEF context, Undisturbed, IInv, TypeOK
<1>3. Marks' /\ InOwnCgroup'
  <2>1. Marks'
    BY MarksStay DEF context, IInv, TypeOK
  <2>2. InOwnCgroup'
    BY DEF IInv, TypeOK, InOwnCgroup
  <2> QED
    BY <2>1, <2>2
<1>4. /\ proc' \in [Pids -> {"none", "running", "exited"}]
      /\ cgroupOf' \in [Pids -> Cgroups \cup {None}]
      /\ was' \in [Pids -> SUBSET (Cgroups \cup {None})]
  BY DEF IInv, TypeOK
<1> QED
  BY <1>1, <1>2, <1>3, <1>4 DEF context, IInv, TypeOK, RecordTypes, Indexes, RegistryTypes

LEMMA MoveKeeps ==
    ASSUME IInv, NEW p \in Pids, NEW g \in Cgroups, MoveProcess(p, g)
    PROVE  IInv'
<1> USE DEF MoveProcess
<1>1. RecordTypes' /\ (\A x : Pending(x) => Pending(x)') /\ Indexes' /\ NothingKnownBefore'
  BY RecordsStay, RegistryStays
<1>2. NoStalePid' /\ AttributionIsOwn'
  BY <1>1, ProbesStay, KnowledgeStays DEF context, Undisturbed, IInv, TypeOK
<1>3. Marks' /\ InOwnCgroup'
  <2>1. Marks'
    BY MarksStay DEF context, IInv, TypeOK
  <2>2. InOwnCgroup'
    BY DEF IInv, TypeOK, InOwnCgroup
  <2> QED
    BY <2>1, <2>2
<1>4. /\ cgroupOf' \in [Pids -> Cgroups \cup {None}]
      /\ was' \in [Pids -> SUBSET (Cgroups \cup {None})]
  BY DEF IInv, TypeOK
<1> QED
  BY <1>1, <1>2, <1>3, <1>4 DEF context, IInv, TypeOK, RecordTypes, Indexes, RegistryTypes

LEMMA AttachKeeps ==
    ASSUME IInv, NEW probe \in Probes, AttachProbe(probe)
    PROVE  IInv'
<1> USE DEF AttachProbe
<1>1. /\ UNCHANGED <<proc, cgroupOf, was, forks, oom_info, ring, lost, client, agent, listed, events>>
      /\ UNCHANGED registry /\ agent = "off"
  BY DEF kernel
<1>2. PICK s \in Seq(Probes) : s = links /\ links' = Append(s, probe)
  BY DEF IInv, TypeOK
<1>3. /\ links' \in Seq(Probes) /\ Len(s) \in Nat
      /\ DOMAIN links = 1 .. Len(s) /\ DOMAIN links' = 1 .. Len(s) + 1
      /\ \A i \in 1 .. Len(s) : links'[i] = links[i]
  BY <1>2, AppendProperties, LenProperties
<1>4. RecordTypes' /\ (\A x : Pending(x) => Pending(x)') /\ Indexes' /\ NothingKnownBefore'
  BY <1>1, RecordsStay, RegistryStays
<1>5. NoStalePid' /\ AttributionIsOwn'
  <2>1. \A p \in Pids : containersByPid'[p] = None
    BY <1>1 DEF registry, IInv, NothingKnownBefore
  <2>2. None \notin Objects'
    BY <1>1, HeapTypes DEF registry, Objects, IInv
  <2> QED
    BY <2>1, <2>2 DEF NoStalePid, AttributionIsOwn
<1>6. Marks'
  <2>1. Attached("oom_mark_victim") => Attached("oom_mark_victim")'
    BY <1>3 DEF Attached
  <2>2. ExitFirst' => ExitFirst
    BY <1>3 DEF ExitFirst
  <2> QED
    BY <1>1, <2>1, <2>2 DEF IInv, Marks, MarksAreMade, MarkedAreRunning
<1>7. InOwnCgroup'
  BY <1>1 DEF IInv, InOwnCgroup
<1> QED
  BY <1>1, <1>3, <1>4, <1>5, <1>6, <1>7 DEF IInv, TypeOK, RecordTypes, Indexes, RegistryTypes

(* The startup and the reader leave processes and registry alone.          *)
LEMMA StartupKeeps ==
    ASSUME IInv,
           \/ NewTracer \/ ebpfEventSubscribe \/ GetAllPids \/ Run
           \/ \E p \in Pids : initContainer(p)
           \/ \E cpu \in Cpus : Reader(cpu)
           \/ UNCHANGED vars
    PROVE  IInv'
<1> USE DEF NewTracer, ebpfEventSubscribe, GetAllPids, Run, initContainer, Reader, vars
<1>1. /\ UNCHANGED <<proc, cgroupOf, was, forks, oom_info, lost, client, links>>
      /\ UNCHANGED registry
      /\ agent' \in {"off", "attached", "subscribed", "sending", "running", "failed", "panicked"}
      /\ agent' = "off" => agent = "off"
      /\ agent \in {"failed", "panicked"} => agent' = agent
      /\ listed' \subseteq Pids
  BY DEF kernel, context, registry, IInv, TypeOK
<1>2. RecordTypes' /\ \A x : Pending(x) => Pending(x)'
  <2>1. \/ UNCHANGED <<ring, events>>
        \/ \E p \in Pids : initContainer(p)
        \/ \E cpu \in Cpus : Reader(cpu)
    BY DEF kernel
  <2> QED
    BY <2>1, RecordsStay, SendCases, ReaderCases DEF IInv
<1>3. Indexes' /\ NothingKnownBefore'
  BY <1>1, RegistryStays
<1>4. NoStalePid' /\ AttributionIsOwn'
  BY <1>1, <1>2, ProbesStay, KnowledgeStays DEF Undisturbed
<1>5. Marks' /\ InOwnCgroup'
  BY <1>1, MarksStay DEF IInv, InOwnCgroup
<1> QED
  BY <1>1, <1>2, <1>3, <1>4, <1>5 DEF IInv, TypeOK, RecordTypes, Indexes, RegistryTypes

LEMMA HandleStartKeeps ==
    ASSUME IInv, HandleStart
    PROVE  IInv'
<1>1. PICK p \in Pids : /\ Receive(Start(p))
                        /\ \/ UNCHANGED registry /\ agent' = "panicked"
                           \/ createContainer(p) /\ UNCHANGED agent
  BY DEF HandleStart, Ignore
<1>2. /\ UNCHANGED <<proc, cgroupOf, was, forks, oom_info, ring, lost, client, links, listed>>
      /\ agent # "off" /\ agent' \in {agent, "panicked"}
  BY <1>1 DEF Receive, kernel, context
<1>3. /\ RecordTypes'
      /\ \A q \in Pids : Pending(Exit(q)) => Pending(Exit(q))'
  BY <1>1, ReceiveCases DEF IInv, Start, Exit
<1>4. Indexes'
  BY <1>1, <1>2, RegistryStays, CreateKeepsIndexes DEF IInv
<1>5. NothingKnownBefore' /\ Marks' /\ InOwnCgroup'
  <2>1. Marks'
    BY <1>2, MarksStay
  <2> QED
    BY <1>2, <2>1 DEF IInv, NothingKnownBefore, InOwnCgroup
<1>6. NoStalePid' /\ AttributionIsOwn'
  <2> Undisturbed' => Undisturbed
    BY <1>2, ProbesStay DEF Undisturbed
  <2>1. CASE UNCHANGED registry
    BY <1>2, <1>3, <2>1, KnowledgeStays
  <2>2. CASE ~ UNCHANGED registry
    <3> DEFINE g == ReadCgroupByPid(p)
    <3>1. /\ containersByPid[p] = None /\ g \in Cgroups
          /\ \/ /\ containersByCgroupId[g] \in Objects
                /\ Share(p, containersByCgroupId[g])
             \/ Share(p, Nil)
             \/ LabelOf[g] \in Names /\ NewContainer(p, g)
      BY <1>1, <2>2, CreateCases DEF IInv
    <3>2. Undisturbed => proc[p] = "running"
      BY <3>1, NoneAssumption DEF ReadCgroupByPid, Undisturbed
    <3>3. g \in was[p]
      BY <3>1, NoneAssumption DEF ReadCgroupByPid, IInv, InOwnCgroup
    <3>4. \A q \in Pids \ {p} : containersByPid'[q] = containersByPid[q]
      BY <3>1 DEF Share, NewContainer, IInv, TypeOK
    <3>5. Objects \subseteq Objects' /\ \A c \in Objects : heap'[c] = heap[c]
      BY <3>1, NewContainerFields DEF Share, IInv, Objects
    <3>6. containersByPid'[p] \in Objects' => heap'[containersByPid'[p]].cgroup = g
      <4>1. CASE /\ containersByCgroupId[g] \in Objects /\ Share(p, containersByCgroupId[g])
        BY <3>1, <4>1, HeapTypes DEF Share, IInv, TypeOK, IndexesAreKeyed
      <4>2. CASE Share(p, Nil)
        BY <4>2, HeapTypes DEF Share, IInv, TypeOK, Objects
      <4>3. CASE LabelOf[g] \in Names /\ NewContainer(p, g)
        <5>1. PICK new : /\ heap'[new] = [id |-> LabelOf[g], cgroup |-> g, pid |-> p]
                         /\ containersByPid' = [containersByPid EXCEPT ![p] = new]
          BY <3>1, <4>3, NewContainerFields DEF IInv
        <5> QED
          BY <5>1 DEF IInv, TypeOK
      <4> QED
        BY <3>1, <4>1, <4>2, <4>3
    <3> HIDE DEF g
    <3>7. NoStalePid'
      BY <1>2, <1>3, <3>2, <3>4 DEF NoStalePid, IInv
    <3>8. \A q \in Pids \ {p} : containersByPid'[q] \in Objects' => containersByPid[q] \in Objects
      <4>1. \A q \in Pids : containersByPid[q] \in Objects \cup {None, Nil}
        BY DEF IInv, TypeOK
      <4>2. None \notin Objects' /\ Nil \notin Objects'
        <5>1. Objects' \subseteq Nat \ {0}
          <6>1. \A s \in Seq([id : Names, cgroup : Cgroups, pid : Pids]) : DOMAIN s \subseteq Nat \ {0}
            BY LenProperties
          <6> QED
            BY <1>4, <6>1 DEF Indexes, RegistryTypes, Objects
        <5> QED
          BY <5>1, NoneAssumption DEF Nil
      <4> QED
        BY <3>4, <4>1, <4>2
    <3>9. AttributionIsOwn'
      BY <1>2, <1>3, <3>3, <3>4, <3>5, <3>6, <3>8 DEF AttributionIsOwn, IInv
    <3> QED
      BY <3>7, <3>9
  <2> QED
    BY <2>1, <2>2
<1> QED
  BY <1>2, <1>3, <1>4, <1>5, <1>6 DEF IInv, TypeOK, RecordTypes, Indexes, RegistryTypes

LEMMA HandleExitKeeps ==
    ASSUME IInv, HandleExit
    PROVE  IInv'
<1>1. PICK p \in Pids : /\ Receive(Exit(p))
                        /\ \/ containersByPid[p] = None /\ UNCHANGED registry /\ UNCHANGED agent
                           \/ UNCHANGED registry /\ agent' = "panicked"
                           \/ /\ containersByPid[p] \in Objects
                              /\ Forget(p, containersByPid[p]) /\ UNCHANGED agent
  BY DEF HandleExit, Ignore, IInv, TypeOK
<1>2. /\ UNCHANGED <<proc, cgroupOf, was, forks, oom_info, ring, lost, client, links, listed>>
      /\ agent # "off"
  BY <1>1 DEF Receive, kernel, context
<1>3. agent' \in {agent, "panicked"}
  BY <1>1
<1>4. /\ RecordTypes'
      /\ \A q \in Pids \ {p} : Pending(Exit(q)) => Pending(Exit(q))'
  BY <1>1, ReceiveCases DEF IInv, Exit
<1>5. Indexes'
  <2>1. CASE UNCHANGED registry
    BY <1>2, <1>3, <2>1, RegistryStays
  <2>2. CASE containersByPid[p] \in Objects /\ Forget(p, containersByPid[p])
    BY <2>2, ForgetKeepsIndexes DEF IInv
  <2> QED
    BY <1>1, <2>1, <2>2
<1>6. NothingKnownBefore' /\ Marks' /\ InOwnCgroup'
  <2>1. Marks'
    BY <1>2, <1>3, MarksStay
  <2> QED
    BY <1>2, <1>3, <2>1 DEF IInv, NothingKnownBefore, InOwnCgroup
<1>7. NoStalePid' /\ AttributionIsOwn'
  <2>1. CASE agent' = "panicked"
    BY <2>1 DEF NoStalePid, AttributionIsOwn, Undisturbed, Fires
  <2>2. CASE agent' # "panicked"
    <3>1. /\ containersByPid'[p] = None /\ UNCHANGED <<heap, agent, Objects>>
          /\ \A q \in Pids \ {p} : containersByPid'[q] = containersByPid[q]
      BY <1>1, <2>2 DEF registry, Forget, IInv, TypeOK, Objects
    <3>2. None \notin Objects
      BY HeapTypes DEF IInv
    <3> Undisturbed' => Undisturbed
      BY <1>2, <1>3, ProbesStay DEF Undisturbed
    <3>3. NoStalePid'
      BY <1>2, <1>4, <3>1 DEF NoStalePid, IInv
    <3>4. AttributionIsOwn'
      BY <1>2, <1>4, <3>1, <3>2 DEF AttributionIsOwn, IInv
    <3> QED
      BY <3>3, <3>4
  <2> QED
    BY <2>1, <2>2
<1> QED
  BY <1>2, <1>3, <1>4, <1>5, <1>6, <1>7 DEF IInv, TypeOK, RecordTypes, Indexes, RegistryTypes

---------------------------------------------------------------------------
(* The theorems.                                                           *)

THEOREM Invariant == Spec => []IInv
<1>1. IInv /\ [Next]_vars => IInv'
  BY ForkKeeps, ExitKeeps, MarkKeeps, ReapKeeps, MoveKeeps, StartupKeeps,
     AttachKeeps, HandleStartKeeps, HandleExitKeeps DEF Next
<1> QED
  BY InitIInv, <1>1, PTL DEF Spec

(* The maps lead to objects that were made, and objects have a name and a  *)
(* cgroup, for any pids, cgroups and paths.                                *)
THEOREM TypeCorrect == Spec => []TypeOK
<1>1. IInv => TypeOK
  BY DEF IInv
<1> QED
  BY Invariant, <1>1, PTL

(* No container can be found by its cgroup or name after the exit of its   *)
(* first process was handled.                                              *)
THEOREM Referenced == Spec => []IndexedIsReferenced
<1>1. IInv => IndexedIsReferenced
  BY DEF IInv
<1> QED
  BY Invariant, <1>1, PTL

(* The mark of the OOM killer does not outlive its process when the exit   *)
(* probe, which takes it away, is attached before the one that makes it    *)
(* (proc.c:61-65, 82-86, ebpftracer.go:57-64).                             *)
THEOREM Marked == Spec => []MarkedAreRunning
<1>1. IInv => MarkedAreRunning
  BY DEF IInv, Marks
<1> QED
  BY Invariant, <1>1, PTL

(* What is known of a pid is of a process that runs, or whose exit is on   *)
(* its way, in whatever order the rings are read; as long as exits are     *)
(* recorded and no record is lost (container.go:82-137).                   *)
THEOREM NeverStale == Spec => []NoStalePid
<1>1. IInv => NoStalePid
  BY DEF IInv
<1> QED
  BY Invariant, <1>1, PTL

(* A process is attributed to a container whose cgroup it was in itself.   *)
THEOREM Attributed == Spec => []AttributionIsOwn
<1>1. IInv => AttributionIsOwn
  BY DEF IInv
<1> QED
  BY Invariant, <1>1, PTL

=============================================================================
