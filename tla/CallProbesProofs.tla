-------------------------- MODULE CallProbesProofs --------------------------
(***************************************************************************)
(* Proofs about CallProbes, for any tasks, threads and requests and every  *)
(* order in which the probes of open and openat are attached.              *)
(***************************************************************************)
EXTENDS CallProbes, SequenceTheorems, FiniteSetTheorems, TLAPS

(* The probes that make an attachment complete.                            *)
All == CASE kind = "openssl" -> ToSet(OpenSslProgs)
         [] kind = "go"      -> ToSet(GoRead \o GoWrite)
         [] kind = "file"    -> FileProgs

Distinct(s) == \A i, j \in 1 .. Len(s) : i # j => s[i] # s[j]

(* No probe is attached twice, and what was dropped was not complete.      *)
AttachedOnce ==
    /\ attached \subseteq All
    /\ \A i \in 1 .. Len(todo) : todo[i] \in All \ attached
    /\ Distinct(todo)
    /\ dropped => todo = <<>> /\ ~ Complete

(* Threads do not exchange what they run, except Go's.                     *)
ThreadsAreOwn ==
    kind # "go" => on \in [Tasks -> Threads] /\ \A t, u \in Tasks : on[t] = on[u] => t = u

Attachment == AttachedOnce /\ ThreadsAreOwn

(* The id of a task's calls, and what they are calls of.                   *)
Id(t) == CASE kind = "openssl" -> OpenSslId(t)
           [] kind = "go"      -> GoId(t)
           [] kind = "file"    -> FileId(t)

Probed == CASE kind = "openssl" -> {"SSL_read", "SSL_read_ex"}
            [] kind = "go"      -> {"Read"}
            [] kind = "file"    -> {"open", "openat"}

(* A call that was begun when all probes were attached still has them, its *)
(* uretprobe included.                                                     *)
FollowedAreWatched ==
    \A t \in Tasks : call[t] # None =>
        /\ call[t].fn \in Probed
        /\ call[t].followed => Complete /\ call[t].uretprobe

(* A call that left an entry finds it under its id, and an entry is that   *)
(* of a call under way or was left when not all probes were attached.      *)
KeptHaveEntries ==
    \A t \in Tasks : call[t] # None /\ call[t].kept =>
        /\ entries[Id(t)] # None
        /\ entries[Id(t)].task = t /\ entries[Id(t)].live

LiveAreCalls ==
    \A k \in EntryKeys : entries[k] # None =>
        /\ entries[k].followed => entries[k].live
        /\ entries[k].live =>
              /\ k = Id(entries[k].task)
              /\ call[entries[k].task] # None
              /\ call[entries[k].task].followed = entries[k].followed

(* A request that is in the map is the one whose response is due, or one   *)
(* whose response escaped the probes.                                      *)
RequestsAreDue ==
    /\ awaited # None /\ awaited.probed => requests[Tls] # None
    /\ requests[Tls] # None =>
          \/ awaited # None /\ requests[Tls] = awaited.id
          \/ requests[Tls] \in unseen

IInv == TypeOK /\ Attachment /\ FollowedAreWatched /\ KeptHaveEntries /\ LiveAreCalls
        /\ RequestsAreDue
        /\ CallsMeetTheirReturns /\ ResponsesAreReported /\ ReportedWithOwn

---------------------------------------------------------------------------
(* The programs.                                                           *)

LEMMA OpenSslProbes ==
    /\ OpenSslProgs \in Seq(Probes) /\ Len(OpenSslProgs) = 6
    /\ Distinct(OpenSslProgs)
BY DEF OpenSslProgs, Distinct, Probes, Reads, Writes, Places

LEMMA ConcatDistinct ==
    ASSUME NEW S, NEW s \in Seq(S), NEW t \in Seq(S), Distinct(s), Distinct(t),
           ToSet(s) \cap ToSet(t) = {}
    PROVE  /\ s \o t \in Seq(S)
           /\ Distinct(s \o t)
           /\ ToSet(s \o t) = ToSet(s) \cup ToSet(t)
<1>1. /\ s \o t \in Seq(S) /\ DOMAIN (s \o t) = 1 .. Len(s \o t)
      /\ DOMAIN s = 1 .. Len(s) /\ DOMAIN t = 1 .. Len(t)
      /\ Len(s) \in Nat /\ Len(t) \in Nat /\ Len(s \o t) = Len(s) + Len(t)
  BY ConcatProperties, LenProperties
<1>2. ASSUME NEW i \in 1 .. Len(s \o t)
      PROVE  \/ i \in 1 .. Len(s) /\ (s \o t)[i] = s[i]
             \/ i - Len(s) \in 1 .. Len(t) /\ (s \o t)[i] = t[i - Len(s)]
  BY <1>1, ConcatProperties
<1>3. ASSUME NEW i \in 1 .. Len(s)
      PROVE  i \in 1 .. Len(s \o t) /\ (s \o t)[i] = s[i]
  BY <1>1, ConcatProperties
<1>4. ASSUME NEW i \in 1 .. Len(t)
      PROVE  Len(s) + i \in 1 .. Len(s \o t) /\ (s \o t)[Len(s) + i] = t[i]
  <2>1. Len(s) + i \in 1 .. Len(s) + Len(t) /\ ~ (Len(s) + i <= Len(s))
        /\ (Len(s) + i) - Len(s) = i
    BY <1>1
  <2> QED
    BY <1>1, <2>1, ConcatProperties
<1>5. ToSet(s \o t) = ToSet(s) \cup ToSet(t)
  <2>1. ToSet(s \o t) \subseteq ToSet(s) \cup ToSet(t)
    BY <1>1, <1>2 DEF ToSet
  <2>2. ToSet(s) \subseteq ToSet(s \o t)
    BY <1>1, <1>3 DEF ToSet
  <2>3. ToSet(t) \subseteq ToSet(s \o t)
    BY <1>1, <1>4 DEF ToSet
  <2> QED
    BY <2>1, <2>2, <2>3
<1>6. Distinct(s \o t)
  <2>1. \A i \in 1 .. Len(s), j \in 1 .. Len(t) : s[i] # t[j]
    BY <1>1 DEF ToSet
  <2> SUFFICES ASSUME NEW i \in 1 .. Len(s \o t), NEW j \in 1 .. Len(s \o t), i # j
               PROVE  (s \o t)[i] # (s \o t)[j]
    BY DEF Distinct
  <2>2. i \in Int /\ j \in Int /\ Len(s) \in Int
    BY <1>1
  <2>3. CASE i \in 1 .. Len(s) /\ (s \o t)[i] = s[i]
    BY <1>2, <2>1, <2>2, <2>3 DEF Distinct
  <2>4. CASE i - Len(s) \in 1 .. Len(t) /\ (s \o t)[i] = t[i - Len(s)]
    BY <1>2, <2>1, <2>2, <2>4 DEF Distinct
  <2> QED
    BY <1>2, <2>3, <2>4
<1> QED
  BY <1>1, <1>5, <1>6

LEMMA GoPrograms ==
    /\ GoRead \in Seq(Probes) /\ Distinct(GoRead) /\ Len(GoRead) = 3
    /\ ToSet(GoRead) = {<<"Read", "enter">>, <<"Read", "exit">>, <<"Read", "exit2">>}
    /\ GoWrite \in Seq(Probes) /\ Distinct(GoWrite)
    /\ ToSet(GoWrite) = {<<"Write", "enter">>}
    /\ ToSet(GoRead \o GoWrite) = ToSet(GoRead) \cup ToSet(GoWrite)
    /\ GoRead \o GoWrite \in Seq(Probes) /\ Distinct(GoRead \o GoWrite)
    /\ ToSet(GoWrite \o GoRead) = ToSet(GoRead) \cup ToSet(GoWrite)
    /\ GoWrite \o GoRead \in Seq(Probes) /\ Distinct(GoWrite \o GoRead)
<1>1. /\ GoRead \in Seq(Probes) /\ Distinct(GoRead) /\ Len(GoRead) = 3
      /\ ToSet(GoRead) = {<<"Read", "enter">>, <<"Read", "exit">>, <<"Read", "exit2">>}
  BY DEF GoRead, Distinct, ToSet, Probes, Reads, Writes, Places
<1>2. /\ GoWrite \in Seq(Probes) /\ Distinct(GoWrite)
      /\ ToSet(GoWrite) = {<<"Write", "enter">>}
  BY DEF GoWrite, Distinct, ToSet, Probes, Reads, Writes, Places
<1>3. ToSet(GoRead) \cap ToSet(GoWrite) = {}
  BY <1>1, <1>2
<1>4. /\ ToSet(GoRead \o GoWrite) = ToSet(GoRead) \cup ToSet(GoWrite)
      /\ GoRead \o GoWrite \in Seq(Probes) /\ Distinct(GoRead \o GoWrite)
  BY <1>1, <1>2, <1>3, ConcatDistinct
<1>5. /\ ToSet(GoWrite \o GoRead) = ToSet(GoRead) \cup ToSet(GoWrite)
      /\ GoWrite \o GoRead \in Seq(Probes) /\ Distinct(GoWrite \o GoRead)
  BY <1>1, <1>2, <1>3, ConcatDistinct
<1> QED
  BY <1>1, <1>2, <1>4, <1>5

LEMMA GoProbes ==
    ASSUME NEW p \in GoProgs
    PROVE  /\ p \in Seq(Probes)
           /\ ToSet(p) \subseteq ToSet(GoRead \o GoWrite)
           /\ Distinct(p)
<1>1. PICK first \in Seq(Probes) : /\ first = SubSeq(GoRead, 1, 1)
                                   /\ Distinct(first) /\ ToSet(first) \subseteq ToSet(GoRead)
  <2> DEFINE first == SubSeq(GoRead, 1, 1)
  <2>1. first \in Seq(Probes) /\ Len(first) = 1 /\ first[1] = GoRead[1]
    BY GoPrograms, SubSeqProperties
  <2>2. Distinct(first)
    BY <2>1 DEF Distinct
  <2>3. ToSet(first) \subseteq ToSet(GoRead)
    BY <2>1, GoPrograms, LenProperties DEF ToSet
  <2> QED
    BY <2>1, <2>2, <2>3
<1> DEFINE Write == {<<>>, GoWrite}
           Read  == {<<>>, GoRead, first}
<1>2. PICK write \in Write, read \in Read : p = write \o read \/ p = read \o write
  BY <1>1 DEF GoProgs
<1>3. /\ write \in Seq(Probes) /\ Distinct(write) /\ ToSet(write) \subseteq ToSet(GoWrite)
      /\ read \in Seq(Probes) /\ Distinct(read) /\ ToSet(read) \subseteq ToSet(GoRead)
  <2>1. <<>> \in Seq(Probes) /\ Distinct(<<>>) /\ ToSet(<<>>) = {}
    BY EmptySeq DEF Distinct, ToSet
  <2> QED
    BY <1>1, <2>1, GoPrograms
<1>4. ToSet(write) \cap ToSet(read) = {}
  BY <1>3, GoPrograms
<1>5. /\ p \in Seq(Probes) /\ Distinct(p) /\ ToSet(p) = ToSet(write) \cup ToSet(read)
  <2> HIDE DEF Write, Read
  <2>1. /\ write \o read \in Seq(Probes) /\ Distinct(write \o read)
        /\ ToSet(write \o read) = ToSet(write) \cup ToSet(read)
    BY <1>3, <1>4, ConcatDistinct
  <2>2. /\ read \o write \in Seq(Probes) /\ Distinct(read \o write)
        /\ ToSet(read \o write) = ToSet(write) \cup ToSet(read)
    <3>1. ToSet(read) \cap ToSet(write) = {} /\ ToSet(read) \cup ToSet(write) = ToSet(write) \cup ToSet(read)
      BY <1>4
    <3>2. /\ read \o write \in Seq(Probes) /\ Distinct(read \o write)
          /\ ToSet(read \o write) = ToSet(read) \cup ToSet(write)
      BY <1>3, <3>1, ConcatDistinct
    <3> QED
      BY <3>1, <3>2
  <2> QED
    BY <1>2, <2>1, <2>2
<1> QED
  BY <1>3, <1>5, GoPrograms

LEMMA FileProbes ==
    ASSUME NEW s \in SetToSeqs(FileProgs)
    PROVE  /\ s \in Seq(FileProgs)
           /\ Distinct(s)
<1> DEFINE D == 1 .. Cardinality(FileProgs)
<1>1. \A a, b : IsFiniteSet({a, b})
  <2> TAKE a, b
  <2>1. IsFiniteSet({a})
    BY FS_Singleton
  <2>2. IsFiniteSet({a} \cup {b})
    BY <2>1, FS_AddElement
  <2>3. {a} \cup {b} = {a, b}
    OBVIOUS
  <2> QED
    BY <2>2, <2>3
<1>2. IsFiniteSet(FileProgs)
  BY <1>1, FS_Product DEF FileProgs
<1>3. Cardinality(FileProgs) \in Nat
  BY <1>2, FS_CardinalityType
<1>4. s \in [D -> FileProgs] /\ \A i, j \in D : i # j => s[i] # s[j]
  BY DEF SetToSeqs
<1>5. s \in Seq(FileProgs) /\ Len(s) = Cardinality(FileProgs)
  BY <1>3, <1>4
<1> QED
  BY <1>4, <1>5 DEF Distinct

LEMMA InitAttachment == Init => Attachment
<1> SUFFICES ASSUME Init
             PROVE  AttachedOnce /\ ThreadsAreOwn
  BY DEF Attachment
<1>1. ThreadsAreOwn
  BY DEF Init, ThreadsAreOwn, IsInjective
<1>2. CASE kind = "openssl"
  <2>1. todo = OpenSslProgs /\ All = ToSet(todo)
    BY <1>2 DEF Init, Orders, All
  <2> QED
    BY <1>1, <1>2, <2>1, OpenSslProbes DEF Init, AttachedOnce, ToSet
<1>3. CASE kind = "go"
  <2>1. todo \in GoProgs /\ All = ToSet(GoRead \o GoWrite)
    BY <1>3 DEF Init, Orders, All
  <2> QED
    BY <1>1, <1>3, <2>1, GoProbes, LenProperties DEF Init, AttachedOnce, ToSet
<1>4. CASE kind = "file"
  <2>1. todo \in SetToSeqs(FileProgs) /\ All = FileProgs
    BY <1>4 DEF Init, Orders, All
  <2> QED
    BY <1>1, <1>4, <2>1, FileProbes, LenProperties, ElementOfSeq DEF Init, AttachedOnce
<1> QED
  BY <1>2, <1>3, <1>4 DEF Init, Kinds

LEMMA AllIsComplete == Complete <=> attached = All
BY DEF Complete, All

---------------------------------------------------------------------------
(* The steps of the attachment.                                            *)

(* Attaching the next probe and giving up on it both leave the rest.       *)
LEMMA NextProbe ==
    ASSUME TypeOK, AttachedOnce, todo # <<>>
    PROVE  /\ Tail(todo) \in Seq(Probes)
           /\ Head(todo) \in Probes /\ Head(todo) \in All \ attached
           /\ \A i \in 1 .. Len(Tail(todo)) : Tail(todo)[i] \in All \ (attached \cup {Head(todo)})
           /\ Distinct(Tail(todo))
<1>1. todo \in Seq(Probes) /\ Len(todo) \in Nat \ {0}
  BY EmptySeq DEF TypeOK
<1>2. /\ Tail(todo) \in Seq(Probes) /\ Len(Tail(todo)) = Len(todo) - 1
      /\ \A i \in 1 .. Len(Tail(todo)) : Tail(todo)[i] = todo[i + 1]
      /\ Head(todo) \in Probes /\ Head(todo) = todo[1]
  BY <1>1, HeadTailProperties
<1>3. \A i \in 1 .. Len(Tail(todo)) : i + 1 \in 1 .. Len(todo) /\ i + 1 # 1
  BY <1>1, <1>2
<1>4. 1 \in 1 .. Len(todo)
  BY <1>1
<1>5. \A i, j \in 1 .. Len(Tail(todo)) : i # j => i + 1 # j + 1
  OBVIOUS
<1>6. \A i \in 1 .. Len(Tail(todo)) : Tail(todo)[i] \in All \ attached /\ Tail(todo)[i] # todo[1]
  BY <1>2, <1>3, <1>4 DEF AttachedOnce, Distinct
<1>7. Distinct(Tail(todo))
  BY <1>2, <1>3, <1>5 DEF AttachedOnce, Distinct
<1> QED
  BY <1>2, <1>4, <1>6, <1>7 DEF AttachedOnce

LEMMA AttachAttaches ==
    ASSUME TypeOK, AttachedOnce, Attach
    PROVE  AttachedOnce' /\ ~ Complete /\ ~ dropped
<1>1. UNCHANGED All
  BY DEF Attach, All
<1>2. ~ Complete /\ ~ dropped
  BY NextProbe, AllIsComplete DEF Attach, AttachedOnce
<1> QED
  BY <1>1, <1>2, NextProbe DEF Attach, AttachedOnce

LEMMA AttachFailsAttaches ==
    ASSUME TypeOK, AttachedOnce, AttachFails
    PROVE  AttachedOnce' /\ ~ Complete /\ ~ dropped
<1>1. UNCHANGED All
  BY DEF AttachFails, All
<1>2. ~ Complete /\ ~ dropped
  BY NextProbe, AllIsComplete DEF AttachFails, AttachedOnce
<1>3. ~ Complete'
  BY <1>2 DEF AttachFails, Complete
<1>4. CASE kind = "file"
  BY <1>1, <1>2, <1>4, NextProbe DEF AttachFails, AttachedOnce
<1>5. CASE kind # "file"
  BY <1>1, <1>2, <1>3, <1>5 DEF AttachFails, AttachedOnce, Distinct
<1> QED
  BY <1>4, <1>5

LEMMA CollectAttaches ==
    ASSUME TypeOK, AttachedOnce, NEW probe, Collect(probe)
    PROVE  AttachedOnce' /\ ~ Complete
<1>1. UNCHANGED All
  BY DEF Collect, All
<1>2. ~ Complete /\ todo = <<>>
  BY DEF Collect, AttachedOnce
<1>3. attached' # All
  BY DEF Collect, AttachedOnce
<1> QED
  BY <1>1, <1>2, <1>3, AllIsComplete DEF Collect, AttachedOnce, Complete, All

---------------------------------------------------------------------------
(* Ids.                                                                    *)

LEMMA CompleteIsBoolean == Complete \in BOOLEAN
BY DEF Complete

LEMMA IdIsOwn ==
    ASSUME TypeOK, ThreadsAreOwn, NEW t \in Tasks, NEW u \in Tasks
    PROVE  /\ Id(t) = Id(u) => t = u
           /\ Id(t) # PlainId(u)
BY DEF TypeOK, Kinds, ThreadsAreOwn, Id, OpenSslId, GoId, FileId, PlainId

LEMMA IdIsKey ==
    ASSUME TypeOK, ThreadsAreOwn, NEW t \in Tasks
    PROVE  Id(t) \in EntryKeys
BY DEF TypeOK, ThreadsAreOwn, Kinds, Id, OpenSslId, GoId, FileId, EntryKeys

LEMMA CompleteWatches ==
    ASSUME TypeOK, Complete, NEW fn \in Probed
    PROVE  <<fn, "exit">> \in attached
<1>1. CASE kind = "openssl"
  <2>1. attached = ToSet(OpenSslProgs) /\ fn \in {"SSL_read", "SSL_read_ex"}
    BY <1>1 DEF Complete, Probed
  <2> QED
    BY <2>1 DEF OpenSslProgs, ToSet
<1>2. CASE kind = "go"
  <2>1. attached = ToSet(GoRead \o GoWrite) /\ fn = "Read"
    BY <1>2 DEF Complete, Probed
  <2> QED
    BY <2>1, GoPrograms
<1>3. CASE kind = "file"
  BY <1>3 DEF Complete, Probed, FileProgs
<1> QED
  BY <1>1, <1>2, <1>3 DEF TypeOK, Kinds

---------------------------------------------------------------------------
(* The steps.                                                              *)

LEMMA InitInvariant == Init => IInv
<1> SUFFICES ASSUME Init
             PROVE  IInv
  OBVIOUS
<1> USE DEF Init
<1>1. todo \in Seq(Probes)
  <2>1. CASE kind = "openssl"
    BY <2>1, OpenSslProbes DEF Orders
  <2>2. CASE kind = "go"
    BY <2>2, GoProbes DEF Orders
  <2>3. CASE kind = "file"
    <3>1. todo \in Seq(FileProgs)
      BY <2>3, FileProbes DEF Orders
    <3>2. FileProgs \subseteq Probes
      BY DEF FileProgs, Probes, Reads, Places
    <3> QED
      BY <3>1, <3>2, SeqMonotonic
  <2> QED
    BY <2>1, <2>2, <2>3 DEF Kinds
<1>2. TypeOK
  BY <1>1 DEF TypeOK, Kinds, Clear, Tls
<1>3. FollowedAreWatched /\ KeptHaveEntries /\ LiveAreCalls /\ RequestsAreDue
  BY DEF FollowedAreWatched, KeptHaveEntries, LiveAreCalls, RequestsAreDue, Clear, Tls
<1> QED
  BY <1>2, <1>3, InitAttachment DEF IInv, CallsMeetTheirReturns, ResponsesAreReported, ReportedWithOwn

(* Attaching and detaching probes, while calls go on.                      *)
LEMMA IdlePreserves ==
    ASSUME IInv, Idle, UNCHANGED kind, AttachedOnce', ~ Complete,
           todo' \in Seq(Probes), attached' \subseteq Probes, dropped' \in BOOLEAN
    PROVE  IInv'
<1> USE DEF IInv, Idle
<1>1. TypeOK'
  BY DEF TypeOK
<1>2. Attachment'
  BY DEF Attachment, ThreadsAreOwn
<1>3. \A t \in Tasks : Id(t)' = Id(t)
  BY DEF Id, OpenSslId, GoId, FileId
<1>4. UNCHANGED Probed
  BY DEF Probed
<1>5. FollowedAreWatched' /\ KeptHaveEntries'
  BY <1>3, <1>4 DEF FollowedAreWatched, KeptHaveEntries
<1>6. LiveAreCalls'
  BY <1>3 DEF LiveAreCalls, TypeOK, Entry
<1>7. RequestsAreDue'
  BY DEF RequestsAreDue
<1> QED
  BY <1>1, <1>2, <1>5, <1>6, <1>7 DEF CallsMeetTheirReturns, ResponsesAreReported, ReportedWithOwn

LEMMA AttachPreserves ==
    ASSUME IInv, Attach
    PROVE  IInv'
<1>1. AttachedOnce' /\ ~ Complete
  BY AttachAttaches DEF IInv, Attachment
<1>2. todo' \in Seq(Probes) /\ attached' \subseteq Probes /\ dropped' \in BOOLEAN
  BY NextProbe DEF IInv, Attachment, Attach, TypeOK
<1> QED
  BY <1>1, <1>2, IdlePreserves DEF Attach

LEMMA AttachFailsPreserves ==
    ASSUME IInv, AttachFails
    PROVE  IInv'
<1>1. AttachedOnce' /\ ~ Complete
  BY AttachFailsAttaches DEF IInv, Attachment
<1>2. todo' \in Seq(Probes) /\ attached' \subseteq Probes /\ dropped' \in BOOLEAN
  BY NextProbe DEF IInv, Attachment, AttachFails, TypeOK
<1> QED
  BY <1>1, <1>2, IdlePreserves DEF AttachFails

LEMMA CollectPreserves ==
    ASSUME IInv, NEW probe \in attached, Collect(probe)
    PROVE  IInv'
<1>1. AttachedOnce' /\ ~ Complete
  BY CollectAttaches DEF IInv, Attachment
<1>2. todo' \in Seq(Probes) /\ attached' \subseteq Probes /\ dropped' \in BOOLEAN
  BY DEF IInv, Collect, TypeOK
<1> QED
  BY <1>1, <1>2, IdlePreserves DEF Collect

LEMMA SchedulePreserves ==
    ASSUME IInv, NEW task \in Tasks, NEW thread \in Threads \cup {None}, Schedule(task, thread)
    PROVE  IInv'
<1> USE DEF IInv, Schedule, probing
<1>1. TypeOK'
  BY DEF TypeOK
<1>2. Attachment'
  BY DEF Attachment, AttachedOnce, ThreadsAreOwn, All, Complete
<1>3. \A t \in Tasks : Id(t)' = Id(t)
  BY DEF Id, OpenSslId, GoId, FileId
<1>4. UNCHANGED <<Probed, Complete>>
  BY DEF Probed, Complete
<1>5. FollowedAreWatched' /\ KeptHaveEntries'
  BY <1>3, <1>4 DEF FollowedAreWatched, KeptHaveEntries
<1>6. LiveAreCalls'
  BY <1>3 DEF LiveAreCalls, TypeOK, Entry
<1>7. RequestsAreDue'
  BY DEF RequestsAreDue
<1> QED
  BY <1>1, <1>2, <1>5, <1>6, <1>7 DEF CallsMeetTheirReturns, ResponsesAreReported, ReportedWithOwn

(* Steps of the programs attach nothing and leave the threads alone.       *)
LEMMA ProgramFrame ==
    ASSUME IInv, UNCHANGED <<probing, on>>
    PROVE  /\ Attachment'
           /\ \A t \in Tasks : Id(t)' = Id(t)
           /\ UNCHANGED <<Probed, Complete>>
BY DEF IInv, probing, Attachment, AttachedOnce, ThreadsAreOwn, All, Complete, Probed,
       Id, OpenSslId, GoId, FileId

LEMMA WritePreserves ==
    ASSUME IInv, NEW task \in Tasks, NEW fn, NEW found \in BOOLEAN,
           trace_enter_write(task, fn, found)
    PROVE  IInv'
<1> USE DEF IInv, trace_enter_write
<1>1. /\ Attachment' /\ UNCHANGED <<Probed, Complete>>
      /\ \A t \in Tasks : Id(t)' = Id(t)
  BY ProgramFrame
<1>2. written' \in Ids /\ awaited' \in Awaited /\ awaited'.id = written'
  BY RequestsAssumption DEF TypeOK, Ids, Awaited
<1>3. requests' \in [{Clear, Tls} -> Ids \cup {None}]
  BY <1>2 DEF TypeOK
<1>4. TypeOK'
  BY <1>2, <1>3 DEF TypeOK, probing
<1>5. FollowedAreWatched' /\ KeptHaveEntries'
  BY <1>1 DEF FollowedAreWatched, KeptHaveEntries
<1>9. LiveAreCalls'
  BY <1>1 DEF LiveAreCalls, TypeOK, Entry
<1>6. RequestsAreDue'
  <2>1. written' # None /\ awaited' # None
    BY <1>2, NoneAssumption DEF Ids
  <2>2. requests'[Tls] # None => requests'[Tls] = written' \/ requests'[Tls] \in unseen
    BY DEF RequestsAreDue, TypeOK, RequestKey, Tls
  <2>3. awaited'.probed => requests'[Tls] # None
    BY <2>1 DEF TypeOK, RequestKey, Tls
  <2> QED
    BY <1>2, <2>1, <2>2, <2>3 DEF RequestsAreDue
<1> QED
  BY <1>1, <1>4, <1>5, <1>6, <1>9 DEF CallsMeetTheirReturns, ResponsesAreReported, ReportedWithOwn

LEMMA BeginPreserves ==
    ASSUME IInv, NEW task \in Tasks, NEW fn \in Reads \cap Probed, NEW keeps \in BOOLEAN,
           Begin(task, fn, Id(task), keeps)
    PROVE  IInv'
<1> USE DEF IInv
<1> DEFINE kept == keeps /\ <<fn, "enter">> \in attached
<1>1. /\ UNCHANGED <<probing, on, written, awaited, unseen, requests>> /\ last' = None
      /\ on[task] # None /\ call[task] = None
      /\ call' = [call EXCEPT ![task] =
                    [fn |-> fn, kept |-> kept, followed |-> Complete,
                     uretprobe |-> <<fn, "exit">> \in attached]]
      /\ entries' = IF kept THEN [entries EXCEPT ![Id(task)] =
                                    [task |-> task, followed |-> Complete, live |-> TRUE]]
                    ELSE entries
  BY DEF Begin
<1>2. /\ Attachment' /\ UNCHANGED <<Probed, Complete>>
      /\ \A t \in Tasks : Id(t)' = Id(t)
  BY <1>1, ProgramFrame
<1>3. \A t \in Tasks : Id(t) = Id(task) => t = task
  BY IdIsOwn DEF Attachment
<1>4. Id(task) \in EntryKeys
  BY IdIsKey DEF Attachment
<1>5. call'[task] \in Call /\ \A t \in Tasks \ {task} : call'[t] = call[t]
  BY <1>1, CompleteIsBoolean DEF TypeOK, Call
<1>6. call'[task] # None
  BY <1>5, NoneAssumption
<1>7. entries' \in [EntryKeys -> Entry \cup {None}]
  BY <1>1, CompleteIsBoolean DEF TypeOK, Entry
<1>8. TypeOK'
  <2>1. call' \in [Tasks -> Call \cup {None}]
    BY <1>1, <1>5 DEF TypeOK
  <2> QED
    BY <1>1, <1>7, <2>1 DEF TypeOK, probing
<1>9. FollowedAreWatched'
  <2>1. Complete => <<fn, "exit">> \in attached
    BY CompleteWatches
  <2> QED
    BY <1>1, <1>2, <1>5, <2>1 DEF FollowedAreWatched, TypeOK
<1>10. kept => /\ entries'[Id(task)] # None
               /\ entries'[Id(task)] = [task |-> task, followed |-> Complete, live |-> TRUE]
  <2>1. [task |-> task, followed |-> Complete, live |-> TRUE] \in Entry
    BY CompleteIsBoolean DEF Entry
  <2> QED
    BY <1>1, <1>4, <2>1, NoneAssumption DEF TypeOK
<1>11. KeptHaveEntries'
  <2> SUFFICES ASSUME NEW t \in Tasks, call'[t] # None, call'[t].kept
               PROVE  /\ entries'[Id(t)] # None
                      /\ entries'[Id(t)].task = t /\ entries'[Id(t)].live
    BY <1>2 DEF KeptHaveEntries
  <2>1. CASE t = task
    <3>1. kept
      BY <1>1, <2>1 DEF TypeOK
    <3> HIDE DEF kept
    <3> QED
      BY <1>10, <2>1, <3>1
  <2>2. CASE t # task
    <3>1. entries'[Id(t)] = entries[Id(t)]
      BY <1>1, <1>3, <2>2 DEF TypeOK
    <3> QED
      BY <1>5, <2>2, <3>1 DEF KeptHaveEntries
  <2> QED
    BY <2>1, <2>2
<1>12. LiveAreCalls'
  <2> SUFFICES ASSUME NEW k \in EntryKeys, entries'[k] # None
               PROVE  /\ entries'[k].followed => entries'[k].live
                      /\ entries'[k].live =>
                            /\ k = Id(entries'[k].task)
                            /\ entries'[k].task \in Tasks
                            /\ call'[entries'[k].task] # None
                            /\ call'[entries'[k].task].followed = entries'[k].followed
    BY <1>2 DEF LiveAreCalls
  <2>1. CASE kept /\ k = Id(task)
    BY <1>1, <1>6, <1>10, <2>1 DEF TypeOK
  <2>2. CASE ~ (kept /\ k = Id(task))
    <3>1. entries'[k] = entries[k]
      BY <1>1, <2>2 DEF TypeOK
    <3>2. entries[k].task \in Tasks
      BY <3>1 DEF TypeOK, Entry
    <3>3. entries[k].live => entries[k].task # task
      BY <1>1, <3>1 DEF LiveAreCalls
    <3> QED
      BY <1>5, <3>1, <3>2, <3>3 DEF LiveAreCalls
  <2> QED
    BY <2>1, <2>2
<1>13. RequestsAreDue'
  BY <1>1 DEF RequestsAreDue
<1> QED
  BY <1>1, <1>2, <1>8, <1>9, <1>11, <1>12, <1>13
     DEF CallsMeetTheirReturns, ResponsesAreReported, ReportedWithOwn

LEMMA ReadPreserves ==
    ASSUME IInv, NEW task \in Tasks, sys_exit_read(task)
    PROVE  IInv'
<1> USE DEF IInv, sys_exit_read, RequestKey, Clear, Tls
<1>1. /\ Attachment' /\ UNCHANGED <<Probed, Complete>>
      /\ \A t \in Tasks : Id(t)' = Id(t)
  BY ProgramFrame
<1>2. \A t \in Tasks : Id(t) # PlainId(task)
  BY IdIsOwn DEF Attachment
<1>3. TypeOK'
  BY DEF TypeOK, probing
<1>4. \A k \in EntryKeys : entries'[k] = IF k = PlainId(task) THEN None ELSE entries[k]
  BY DEF TypeOK
<1>5. FollowedAreWatched'
  BY <1>1 DEF FollowedAreWatched
<1>6. KeptHaveEntries'
  <2>1. \A t \in Tasks : entries'[Id(t)] = entries[Id(t)]
    BY <1>2 DEF TypeOK
  <2> QED
    BY <1>1, <2>1 DEF KeptHaveEntries
<1>7. LiveAreCalls'
  BY <1>1, <1>4 DEF LiveAreCalls, TypeOK, Entry
<1>8. RequestsAreDue'
  BY DEF RequestsAreDue, TypeOK
<1> QED
  BY <1>1, <1>3, <1>5, <1>6, <1>7, <1>8
     DEF CallsMeetTheirReturns, ResponsesAreReported, ReportedWithOwn

(* The end of a call meets the entry that the call left, or none.          *)
LEMMA EndPreserves ==
    ASSUME IInv, NEW task \in Tasks, NEW fires \in BOOLEAN, NEW data \in BOOLEAN,
           call[task] # None, call[task].followed => fires,
           End(task, Id(task), fires, data)
    PROVE  IInv'
<1> USE DEF IInv
<1> DEFINE found  == IF fires THEN entries[Id(task)] ELSE None
           own    == found # None /\ found.task = task /\ found.live
           looked == found # None /\ data
           rest   == IF found # None THEN [entries EXCEPT ![Id(task)] = None] ELSE entries
           seen   == call[task].followed /\ call[task].kept
<1>1. /\ UNCHANGED <<probing, on, written>>
      /\ on[task] # None
      /\ data => awaited # None
      /\ entries' = Left(task, rest)
      /\ requests' = IF looked THEN [requests EXCEPT ![Tls] = None] ELSE requests
      /\ call' = [call EXCEPT ![task] = None]
      /\ awaited' = IF data THEN None ELSE awaited
      /\ unseen' = unseen \cup IF data /\ ~ seen THEN {awaited.id} ELSE {}
  BY DEF End, RequestKey
<1>2. PICK recognised \in BOOLEAN :
        /\ own => recognised
        /\ last' = [kept |-> call[task].kept, followed |-> call[task].followed,
                    found |-> found, own |-> own,
                    response |-> IF data THEN awaited ELSE None,
                    paired |-> IF looked /\ recognised /\ requests[Tls] # None
                               THEN <<requests[Tls]>> ELSE <<>>]
  BY DEF End, Lookup, Response, RequestKey
<1>3. /\ Attachment' /\ UNCHANGED <<Probed, Complete>>
      /\ \A t \in Tasks : Id(t)' = Id(t)
  BY <1>1, ProgramFrame
<1>4. \A t \in Tasks : Id(t) = Id(task) => t = task
  BY IdIsOwn DEF Attachment
<1>5. Id(task) \in EntryKeys
  BY IdIsKey DEF Attachment
<1>6. \A t \in Tasks : call'[t] = IF t = task THEN None ELSE call[t]
  BY <1>1 DEF TypeOK
<1>7. \A k \in EntryKeys : rest[k] = IF k = Id(task) /\ found # None THEN None ELSE entries[k]
  BY DEF TypeOK
<1>8. \A k \in EntryKeys :
         entries'[k] = IF rest[k] # None /\ rest[k].task = task
                       THEN [rest[k] EXCEPT !.live = FALSE] ELSE rest[k]
  BY <1>1 DEF Left
<1>9. data => awaited \in Awaited /\ awaited.id \in Ids
  BY <1>1 DEF TypeOK, Awaited
<1>10. found \in Entry \cup {None} /\ call[task] \in Call
  BY <1>5 DEF TypeOK
<1>11. entries' \in [EntryKeys -> Entry \cup {None}]
  <2>1. rest \in [EntryKeys -> Entry \cup {None}]
    BY DEF TypeOK
  <2>2. \A k \in EntryKeys : entries'[k] \in Entry \cup {None}
    BY <1>8, <2>1 DEF Entry
  <2> QED
    BY <1>1, <2>2 DEF Left
<1>12. TypeOK'
  <2>1. call' \in [Tasks -> Call \cup {None}]
    BY <1>1 DEF TypeOK
  <2>2. awaited' \in Awaited \cup {None}
    BY <1>1 DEF TypeOK
  <2>3. requests' \in [{Clear, Tls} -> Ids \cup {None}]
    BY <1>1 DEF TypeOK
  <2>4. unseen' \subseteq Ids
    BY <1>1, <1>9 DEF TypeOK
  <2>5. last'.paired \in {<<>>} \cup {<<id>> : id \in Ids}
    <3>1. requests[Tls] \in Ids \cup {None}
      BY DEF TypeOK
    <3> QED
      BY <1>2, <3>1
  <2> QED
    BY <1>1, <1>11, <2>1, <2>2, <2>3, <2>4, <2>5 DEF TypeOK, probing
(* A followed call finds what it left.                                     *)
<1>13. seen => own
  BY <1>10, NoneAssumption DEF KeptHaveEntries
(* What it finds is live only if it is its own.                            *)
<1>14. found # None /\ found.live => own
  <2> SUFFICES ASSUME found # None, found.live
               PROVE  found.task = task
    OBVIOUS
  <2>1. found = entries[Id(task)] /\ found.task \in Tasks
    BY <1>10 DEF Entry
  <2>2. Id(task) = Id(found.task)
    BY <1>5, <2>1 DEF LiveAreCalls
  <2> QED
    BY <1>4, <2>1, <2>2
<1>15. FollowedAreWatched'
  BY <1>3, <1>6 DEF FollowedAreWatched
<1>16. KeptHaveEntries'
  <2> SUFFICES ASSUME NEW t \in Tasks, call'[t] # None, call'[t].kept
               PROVE  /\ entries'[Id(t)] # None
                      /\ entries'[Id(t)].task = t /\ entries'[Id(t)].live
    BY <1>3 DEF KeptHaveEntries
  <2>1. t # task /\ call'[t] = call[t]
    BY <1>6
  <2>2. /\ entries[Id(t)] # None
        /\ entries[Id(t)].task = t /\ entries[Id(t)].live
    BY <2>1 DEF KeptHaveEntries
  <2>3. Id(t) \in EntryKeys /\ Id(t) # Id(task)
    BY <1>4, <2>1, IdIsKey DEF Attachment
  <2>4. entries'[Id(t)] = entries[Id(t)]
    BY <1>7, <1>8, <2>1, <2>2, <2>3
  <2> QED
    BY <2>2, <2>4
<1>17. LiveAreCalls'
  <2> SUFFICES ASSUME NEW k \in EntryKeys, entries'[k] # None
               PROVE  /\ entries'[k].followed => entries'[k].live
                      /\ entries'[k].live =>
                            /\ k = Id(entries'[k].task)
                            /\ entries'[k].task \in Tasks
                            /\ call'[entries'[k].task] # None
                            /\ call'[entries'[k].task].followed = entries'[k].followed
    BY <1>3 DEF LiveAreCalls
  <2>1. rest[k] # None /\ rest[k] = entries[k] /\ entries[k] \in Entry
    BY <1>7, <1>8 DEF TypeOK
  <2>2. CASE entries[k].task = task
    <3>1. entries'[k] = [entries[k] EXCEPT !.live = FALSE]
      BY <1>8, <2>1, <2>2
    <3>2. ~ entries[k].followed
      <4> SUFFICES ASSUME entries[k].followed
                   PROVE  FALSE
        OBVIOUS
      <4>1. entries[k].live
        BY <2>1 DEF LiveAreCalls
      <4>2. k = Id(task) /\ call[task].followed
        BY <2>1, <2>2, <4>1 DEF LiveAreCalls
      <4>3. found # None
        BY <2>1, <4>2
      <4> QED
        BY <1>7, <2>1, <4>2, <4>3
    <3> QED
      BY <2>1, <3>1, <3>2 DEF Entry
  <2>3. CASE entries[k].task # task
    <3>1. entries'[k] = entries[k]
      BY <1>8, <2>1, <2>3
    <3> QED
      BY <1>6, <2>1, <2>3, <3>1 DEF LiveAreCalls, Entry
  <2> QED
    BY <2>2, <2>3
<1>18. RequestsAreDue'
  <2>1. CASE data
    <3>1. awaited' = None
      BY <1>1, <2>1
    <3>2. CASE looked
      BY <1>1, <3>1, <3>2 DEF RequestsAreDue, TypeOK
    <3>3. CASE ~ looked
      <4>1. ~ seen /\ requests' = requests
        BY <1>1, <1>13, <2>1, <3>3
      <4>2. unseen' = unseen \cup {awaited.id}
        BY <1>1, <2>1, <4>1
      <4> QED
        BY <3>1, <4>1, <4>2 DEF RequestsAreDue
    <3> QED
      BY <3>2, <3>3
  <2>2. CASE ~ data
    <3>1. UNCHANGED <<awaited, requests>> /\ unseen \subseteq unseen'
      BY <1>1, <2>2
    <3> QED
      BY <3>1 DEF RequestsAreDue
  <2> QED
    BY <2>1, <2>2
<1>19. CallsMeetTheirReturns'
  <2>1. call[task].kept => found = None \/ own
    BY <1>10 DEF KeptHaveEntries
  <2>2. found # None /\ found.followed => own
    BY <1>5, <1>14 DEF LiveAreCalls
  <2> HIDE DEF found, own, looked, rest, seen
  <2>3. /\ last'.kept = call[task].kept /\ last'.followed = call[task].followed
        /\ last'.found = found /\ last'.own = own
    BY <1>2
  <2>4. call[task].followed /\ call[task].kept => own
    BY <1>13 DEF seen
  <2> QED
    BY <2>1, <2>2, <2>3, <2>4 DEF CallsMeetTheirReturns
<1>20. ResponsesAreReported'
  <2> SUFFICES ASSUME data, own, awaited.probed
               PROVE  looked /\ recognised /\ requests[Tls] # None
    BY <1>2 DEF ResponsesAreReported
  <2> QED
    BY <1>1, <1>2 DEF RequestsAreDue
<1>21. ReportedWithOwn'
  <2> SUFFICES ASSUME looked, requests[Tls] # None
               PROVE  requests[Tls] = awaited.id \/ requests[Tls] \in unseen'
    BY <1>2 DEF ReportedWithOwn
  <2> QED
    BY <1>1 DEF RequestsAreDue
<1> QED
  BY <1>3, <1>12, <1>15, <1>16, <1>17, <1>18, <1>19, <1>20, <1>21

LEMMA NextPreserves ==
    ASSUME IInv, Next
    PROVE  IInv'
<1>1. CASE Attach
  BY <1>1, AttachPreserves
<1>2. CASE AttachFails
  BY <1>2, AttachFailsPreserves
<1>3. CASE \E probe \in attached : Collect(probe)
  BY <1>3, CollectPreserves
<1>4. CASE \E task \in Tasks, thread \in Threads \cup {None} : Schedule(task, thread)
  BY <1>4, SchedulePreserves
<1>5. CASE \E task \in Tasks, fn \in Reads \cup Writes, b \in BOOLEAN :
               openssl_SSL_write_enter(task, fn, b)
  BY <1>5, WritePreserves DEF openssl_SSL_write_enter
<1>6. CASE \E task \in Tasks, fn \in Reads \cup Writes, b \in BOOLEAN :
               openssl_SSL_read_enter(task, fn, b)
  <2>1. PICK task \in Tasks, fn \in Reads \cup Writes, b \in BOOLEAN :
          openssl_SSL_read_enter(task, fn, b)
    BY <1>6
  <2>2. fn \in Reads \cap Probed /\ Begin(task, fn, Id(task), b)
    BY <2>1 DEF openssl_SSL_read_enter, Probed, Reads, Id
  <2> QED
    BY <2>2, BeginPreserves
<1>7. CASE \E task \in Tasks, fn \in Reads \cup Writes, b \in BOOLEAN : trace_enter(task, fn, b)
  <2>1. PICK task \in Tasks, fn \in Reads \cup Writes, b \in BOOLEAN : trace_enter(task, fn, b)
    BY <1>7
  <2>2. fn \in Reads \cap Probed /\ Begin(task, fn, Id(task), b)
    BY <2>1 DEF trace_enter, Probed, Reads, Id
  <2> QED
    BY <2>2, BeginPreserves
<1>8. CASE \E task \in Tasks, b \in BOOLEAN : go_crypto_tls_write_enter(task, b)
  BY <1>8, WritePreserves DEF go_crypto_tls_write_enter
<1>9. CASE \E task \in Tasks, b \in BOOLEAN : go_crypto_tls_read_enter(task, b)
  <2>1. PICK task \in Tasks, b \in BOOLEAN : go_crypto_tls_read_enter(task, b)
    BY <1>9
  <2>2. "Read" \in Reads \cap Probed /\ Begin(task, "Read", Id(task), b)
    BY <2>1 DEF go_crypto_tls_read_enter, Probed, Reads, Id
  <2> QED
    BY <2>2, BeginPreserves
<1>10. CASE \E task \in Tasks, b \in BOOLEAN : openssl_SSL_read_exit(task, b)
  <2>1. PICK task \in Tasks, b \in BOOLEAN : openssl_SSL_read_exit(task, b)
    BY <1>10
  <2> DEFINE fires == call[task].uretprobe /\ <<call[task].fn, "exit">> \in attached
  <2>2. call[task] # None /\ End(task, Id(task), fires, b)
    BY <2>1 DEF openssl_SSL_read_exit, Id
  <2>3. call[task].followed => fires
    BY <2>2, CompleteWatches DEF IInv, FollowedAreWatched
  <2>4. fires \in BOOLEAN
    BY <2>2 DEF IInv, TypeOK, Call
  <2> QED
    BY <2>2, <2>3, <2>4, EndPreserves
<1>11. CASE \E task \in Tasks, b \in BOOLEAN, place \in {"exit", "exit2"} :
                go_crypto_tls_read_exit(task, place, b)
  <2>1. PICK task \in Tasks, b \in BOOLEAN, place \in {"exit", "exit2"} :
          go_crypto_tls_read_exit(task, place, b)
    BY <1>11
  <2> DEFINE fires == <<"Read", place>> \in attached
  <2>2. call[task] # None /\ kind = "go" /\ End(task, Id(task), fires, b)
    BY <2>1 DEF go_crypto_tls_read_exit, Id
  <2>3. call[task].followed => fires
    <3>1. Complete => attached = ToSet(GoRead \o GoWrite)
      BY <2>2 DEF Complete
    <3> QED
      BY <2>2, <3>1, GoPrograms DEF IInv, FollowedAreWatched
  <2>4. fires \in BOOLEAN
    OBVIOUS
  <2> HIDE DEF fires
  <2> QED
    BY <2>2, <2>3, <2>4, EndPreserves
<1>12. CASE \E task \in Tasks : sys_exit_read(task)
  BY <1>12, ReadPreserves
<1>13. CASE \E task \in Tasks : trace_exit(task)
  <2>1. PICK task \in Tasks : trace_exit(task)
    BY <1>13
  <2> DEFINE fires == <<call[task].fn, "exit">> \in attached
  <2>2. call[task] # None /\ End(task, Id(task), fires, FALSE)
    BY <2>1 DEF trace_exit, Id
  <2>3. call[task].followed => fires
    BY <2>2, CompleteWatches DEF IInv, FollowedAreWatched
  <2>4. fires \in BOOLEAN
    OBVIOUS
  <2> HIDE DEF fires
  <2> QED
    BY <2>2, <2>3, <2>4, EndPreserves
<1> QED
  BY <1>1, <1>2, <1>3, <1>4, <1>5, <1>6, <1>7, <1>8, <1>9, <1>10, <1>11, <1>12, <1>13 DEF Next

LEMMA StutterPreserves ==
    ASSUME IInv, UNCHANGED vars
    PROVE  IInv'
<1> USE DEF vars
<1>1. /\ Attachment' /\ UNCHANGED <<Probed, Complete>>
      /\ \A t \in Tasks : Id(t)' = Id(t)
  BY ProgramFrame
<1>2. TypeOK' /\ RequestsAreDue'
  BY DEF IInv, TypeOK, probing, RequestsAreDue
<1>3. FollowedAreWatched' /\ KeptHaveEntries'
  BY <1>1 DEF IInv, FollowedAreWatched, KeptHaveEntries
<1>4. LiveAreCalls'
  BY <1>1 DEF IInv, LiveAreCalls, TypeOK, Entry
<1> QED
  BY <1>1, <1>2, <1>3, <1>4 DEF IInv, CallsMeetTheirReturns, ResponsesAreReported, ReportedWithOwn

LEMMA Inductive == Spec => []IInv
<1>1. IInv /\ [Next]_vars => IInv'
  BY NextPreserves, StutterPreserves
<1> QED
  BY InitInvariant, <1>1, PTL DEF Spec

---------------------------------------------------------------------------
(* The results.                                                            *)

(* Whatever is attached, fails and is collected while programs run, and    *)
(* however the goroutines change threads, the maps keep their types.       *)
THEOREM TypeCorrect == Spec => []TypeOK
BY Inductive, PTL DEF IInv

(* The return of a call begun under all the probes meets the entry of that *)
(* call; what is met wrongly is left from before the last was attached.    *)
THEOREM CallsMeetReturns == Spec => []CallsMeetTheirReturns
BY Inductive, PTL DEF IInv

(* TLS: no response of a followed read is missed if its request was seen.  *)
THEOREM ResponsesReported == Spec => []ResponsesAreReported
BY Inductive, PTL DEF IInv

(* TLS: a followed read reports its own request, unless an earlier         *)
(* response was read past the probes.                                      *)
THEOREM OwnRequests == Spec => []ReportedWithOwn
BY Inductive, PTL DEF IInv

=============================================================================
