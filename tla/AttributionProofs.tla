-------------------------- MODULE AttributionProofs --------------------------
(***************************************************************************)
(* Proofs about Attribution, for any threads, readers, descriptors,        *)
(* sockets and addresses, any size of the maps and any room on the path.   *)
(* The invariant of ConnTracker, proved there, is kept by every step of    *)
(* the composition and is a part of the one here.                          *)
(***************************************************************************)
EXTENDS Attribution, ConnTrackerProofs

Requests == {e \in path : e.type = "L7_REQUEST"}
Opens    == {e \in path : e.type = "CONNECTION_OPEN"}
Errors   == {e \in path : e.type = "CONNECTION_ERROR"}

(* A read() is in the socket that its descriptor was created for.          *)
ReadsAreOwn ==
    \A r \in Readers : reading[r] # None =>
        /\ sockState[reading[r].sk] # "FREE"
        /\ desc[reading[r].sk] = reading[r].desc

(* A request never has a timestamp from before its connection.             *)
RequestsAreNeverOlder ==
    \A e \in Requests : e.timestamp # 0 /\ e.since > 0 => e.timestamp >= e.since

(* One failure at a time is on its way, and there is room to count it.     *)
OneErrorUnderWay ==
    /\ \A e, f \in Errors : e = f
    /\ \A e \in Errors : connectsFailed[Dst[e.sk]] < MaxFailed

(* Every place that holds a time of establishment, with its socket.        *)
Timed(s, n) ==
    \/ since[s] = n
    \/ \E e \in Opens : e.sk = s /\ e.timestamp = n
    \/ \E e \in Requests : e.sk = s /\ e.since = n
    \/ \E d \in Descriptors : /\ connectionsByPidFd[d] # None
                              /\ connectionsByPidFd[d].sk = s
                              /\ connectionsByPidFd[d].timestamp = n

(* A time is of one connection only, and has been.                         *)
TimesAreUnique ==
    \A n \in Nat \ {0} : \A s \in Socks : Timed(s, n) =>
        /\ n <= now
        /\ \A u \in Socks : Timed(u, n) => u = s

(* No two open sockets share a descriptor.                                 *)
OpenAreDistinct == \A s, u \in open : desc[s] = desc[u] => s = u

(* While programs are tidy, whatever is under way is under way in an open  *)
(* socket, and a descriptor's timestamp is that of the socket it refers to.*)
Tidiness ==
    ~ untidy =>
        /\ \A s \in Socks : sockState[s] = "SYN_SENT" => s \in open
        /\ \A t \in Threads : calling[t] # None => calling[t].sk \in open
        /\ \A r \in Readers : reading[r] # None => reading[r].sk \in open
        /\ \A s \in open : since[s] > 0 =>
              connection_timestamps[desc[s]] \in {None, since[s]}
        /\ \A e \in Requests : e.timestamp # 0 /\ e.since > 0 => e.timestamp = e.since

AllInv == /\ IInv /\ TablesOK /\ ReadsAreOwn /\ RequestsAreNeverOlder /\ OneErrorUnderWay
          /\ TimesAreUnique /\ OpenAreDistinct /\ Tidiness

---------------------------------------------------------------------------
(* What a probe's step may do to the kernel's side and to the times.       *)

(* No connection is timed.                                                 *)
Quiet ==
    /\ UNCHANGED <<now, connection_timestamps>>
    /\ \A s \in Socks : since'[s] \in {0, since[s]}
    /\ output' # None => output'.type # "CONNECTION_OPEN"

(* No socket comes or goes, and no call.                                   *)
Settled(s) ==
    /\ UNCHANGED <<desc, open, calling>>
    /\ \E new \in TcpStates \ {"SYN_SENT"} : sockState' = [sockState EXCEPT ![s] = new]
    /\ sockState[s] # "FREE"

LEMMA SettledSteps ==
    ASSUME NEW s \in Socks, IInv,
           \/ \E new \in {"ESTABLISHED", "CLOSE", "SYN_RECV"} : Untracked(s, new)
           \/ HandshakeFails(s) \/ SimultaneousOpen(s)
           \/ \E new \in Fin : Finish(s, new)
           \/ Listen(s) \/ StopListening(s) \/ Unreported(s)
    PROVE  Settled(s) /\ Quiet
<1>1. ASSUME NEW new \in {"ESTABLISHED", "CLOSE", "SYN_RECV"}, LeaveSynSent(s, new)
      PROVE  Settled(s)
  BY <1>1 DEF LeaveSynSent, Settled, TcpStates
<1>2. CASE \E new \in {"ESTABLISHED", "CLOSE", "SYN_RECV"} : Untracked(s, new)
  BY <1>1, <1>2 DEF Untracked, Quiet
<1>3. CASE HandshakeFails(s)
  BY <1>1, <1>3 DEF HandshakeFails, Quiet, Event
<1>4. CASE SimultaneousOpen(s)
  BY <1>1, <1>4 DEF SimultaneousOpen, Quiet
<1>5. ASSUME NEW old \in TcpStates, NEW new \in TcpStates \ {"SYN_SENT"},
             Transition(s, old, new, None)
      PROVE  Settled(s) /\ Quiet
  BY <1>5 DEF Transition, Settled, Quiet, TcpStates, Fin, maps
<1>6. ASSUME NEW old \in TcpStates, NEW new \in TcpStates \ {"SYN_SENT"},
             NEW type \in Types \ {"CONNECTION_OPEN"}, NEW d,
             Transition(s, old, new, Event(type, s, d, 0))
      PROVE  Settled(s) /\ Quiet
  BY <1>6 DEF Transition, Settled, Quiet, TcpStates, Fin, maps, Event
<1>7. CASE Unreported(s)
  BY <1>5, <1>7 DEF Unreported, TcpStates, Fin
<1>8. CASE (\E new \in Fin : Finish(s, new)) \/ Listen(s) \/ StopListening(s)
  BY <1>6, <1>8 DEF Finish, Listen, StopListening, TcpStates, Fin, Types
<1> QED
  BY <1>2, <1>3, <1>4, <1>7, <1>8

LEMMA TwoKinds ==
    ASSUME IInv, Next
    PROVE  Quiet \/ \E s \in Socks : HandshakeCompletes(s)
<1>1. ASSUME NEW s \in Socks, NEW d \in Descriptors, Socket(s, d) \/ Accept(s, d)
      PROVE  Quiet
  BY <1>1 DEF Socket, Accept, Appear, Quiet, maps
<1>2. ASSUME NEW t \in Threads,
             SendSyn(t) \/ sys_exit_connect(t) \/ \E s \in Socks : sys_enter_connect(t, s)
      PROVE  Quiet
  BY <1>2 DEF SendSyn, sys_exit_connect, sys_enter_connect, Quiet, IInv, TypeOK
<1>3. ASSUME NEW s \in Socks, CloseDescriptor(s) \/ Release(s)
      PROVE  Quiet
  BY <1>3 DEF CloseDescriptor, Release, Quiet, maps, IInv, TypeOK
<1> QED
  BY <1>1, <1>2, <1>3, SettledSteps DEF Next

(* Descriptors stay, and what is new under way is in an open socket.       *)
LEMMA SocketSteps ==
    ASSUME IInv, Next
    PROVE  /\ \A s \in Socks : sockState[s] # "FREE" /\ sockState'[s] # "FREE"
                                  => desc'[s] = desc[s]
           /\ \A s \in open' \ open :
                  /\ open' = open \cup {s} /\ sockState[s] = "FREE" /\ since'[s] = 0
                  /\ \A u \in open : desc[u] # desc'[s]
           /\ \A s \in Socks : sockState'[s] = "SYN_SENT" /\ sockState[s] # "SYN_SENT"
                  => open' = open /\ \E t \in Threads : calling[t] # None /\ calling[t].sk = s
           /\ \A t \in Threads : calling'[t] # None
                  => \/ calling[t] # None /\ calling'[t].sk = calling[t].sk
                     \/ open' = open /\ calling'[t].sk \in open
<1> DEFINE Goal ==
        /\ \A s \in Socks : sockState[s] # "FREE" /\ sockState'[s] # "FREE"
                                  => desc'[s] = desc[s]
        /\ \A s \in open' \ open :
               /\ open' = open \cup {s} /\ sockState[s] = "FREE" /\ since'[s] = 0
               /\ \A u \in open : desc[u] # desc'[s]
        /\ \A s \in Socks : sockState'[s] = "SYN_SENT" /\ sockState[s] # "SYN_SENT"
               => open' = open /\ \E t \in Threads : calling[t] # None /\ calling[t].sk = s
        /\ \A t \in Threads : calling'[t] # None
               => \/ calling[t] # None /\ calling'[t].sk = calling[t].sk
                  \/ open' = open /\ calling'[t].sk \in open
<1>1. ASSUME NEW s \in Socks, NEW d \in Descriptors, Socket(s, d) \/ Accept(s, d)
      PROVE  Goal
  BY <1>1 DEF Socket, Accept, Appear, IsFree, IInv, TypeOK, OnlyConnectionsAreTimed
<1>2. ASSUME NEW t \in Threads, NEW s \in Socks, sys_enter_connect(t, s)
      PROVE  Goal
  BY <1>2 DEF sys_enter_connect, IInv, TypeOK
<1>3. ASSUME NEW t \in Threads, SendSyn(t) \/ sys_exit_connect(t)
      PROVE  Goal
  BY <1>3 DEF SendSyn, sys_exit_connect, IInv, TypeOK, Call
<1>4. ASSUME NEW s \in Socks, CloseDescriptor(s) \/ Release(s)
      PROVE  Goal
  BY <1>4 DEF CloseDescriptor, Release, IInv, TypeOK
<1>5. ASSUME NEW s \in Socks, HandshakeCompletes(s)
      PROVE  Goal
  BY <1>5 DEF HandshakeCompletes, LeaveSynSent, IInv, TypeOK
<1>6. ASSUME NEW s \in Socks, Settled(s)
      PROVE  Goal
  BY <1>6 DEF Settled, IInv, TypeOK
<1> QED
  BY <1>1, <1>2, <1>3, <1>4, <1>5, <1>6, SettledSteps DEF Next

LEMMA CompletionTimes ==
    ASSUME IInv, NEW w \in Socks, HandshakeCompletes(w)
    PROVE  /\ connection_timestamps'[desc[w]] = now'
           /\ \A d \in Descriptors \ {desc[w]} :
                 connection_timestamps'[d] \in {connection_timestamps[d], None}
<1>1. sk_info[w] = desc[w] /\ desc[w] \in Descriptors /\ now' \in Nat
  BY DEF HandshakeCompletes, IInv, SkInfoIsOwn, TypeOK
<1>2. /\ connection_timestamps \in [Descriptors -> Nat \cup {None}]
      /\ connection_timestamps' \in
           LruUpdates(connection_timestamps, desc[w], now', TimestampSlots)
  BY <1>1 DEF HandshakeCompletes, IInv, TypeOK
<1>3. /\ connection_timestamps' \in [Descriptors -> Nat \cup {None}]
      /\ connection_timestamps'[desc[w]] = now'
      /\ \A d \in Descriptors \ {desc[w]} :
            connection_timestamps'[d] \in {connection_timestamps[d], None}
  BY <1>1, <1>2, LruUpdatesLemma
<1> QED
  BY <1>3

LEMMA InitAllInv == AllInit => AllInv
<1> SUFFICES ASSUME AllInit
             PROVE  AllInv
  OBVIOUS
<1> USE DEF AllInit
<1>1. IInv
  BY InitInvariant
<1>2. TablesOK
  <2>1. 0 \in 0 .. MaxFailed
    BY RoomAssumption
  <2> QED
    BY <2>1 DEF TablesOK
<1>3. ReadsAreOwn /\ RequestsAreNeverOlder /\ OneErrorUnderWay
  BY DEF ReadsAreOwn, RequestsAreNeverOlder, OneErrorUnderWay, Requests, Errors
<1>4. TimesAreUnique /\ OpenAreDistinct /\ Tidiness
  BY DEF Init, TimesAreUnique, Timed, OpenAreDistinct, Tidiness, Opens, Requests
<1> QED
  BY <1>1, <1>2, <1>3, <1>4 DEF AllInv

LEMMA TimesStay ==
    ASSUME AllInv, now' \in Nat, now <= now',
           \A n \in Nat \ {0}, s \in Socks : Timed(s, n)' => Timed(s, n)
    PROVE  TimesAreUnique'
BY DEF TimesAreUnique, AllInv, IInv, TypeOK

(* The steps of ConnTracker within the composition.                        *)
LEMMA ProbePreserves ==
    ASSUME AllInv, Probe
    PROVE  AllInv'
<1>1. IInv'
  BY NextPreserves DEF Probe, AllInv
<1>2. /\ output' \in TcpEvent \cup {None}
      /\ path' \in {path} \cup {path \cup {output'}}
      /\ path' # path => /\ output' \in TcpEvent /\ output' # None
                         /\ output'.type \in {"CONNECTION_OPEN", "CONNECTION_ERROR"}
                         /\ output'.type = "CONNECTION_ERROR" => FailuresLeft(output'.sk)
  BY <1>1 DEF Probe, Send, IInv, TypeOK
<1>3. /\ Requests' = Requests
      /\ Opens' \subseteq Opens \cup {e \in {output'} : e.type = "CONNECTION_OPEN"}
      /\ Errors' \subseteq Errors \cup {e \in {output'} : e.type = "CONNECTION_ERROR"}
  BY <1>2 DEF Requests, Opens, Errors
<1>4. UNCHANGED <<reading, tables>>
  BY DEF Probe
<1>5. TablesOK'
  BY <1>2, <1>4 DEF TablesOK, AllInv, tables, Probe
<1>6. ReadsAreOwn'
  <2> SUFFICES ASSUME NEW r \in Readers, reading[r] # None
               PROVE  /\ sockState'[reading[r].sk] # "FREE"
                      /\ desc'[reading[r].sk] = reading[r].desc
    BY <1>4 DEF ReadsAreOwn
  <2>1. reading[r].sk \in Socks
    BY DEF AllInv, TablesOK, Read
  <2>2. sockState[reading[r].sk] # "FREE" /\ desc[reading[r].sk] = reading[r].desc
    BY DEF AllInv, ReadsAreOwn
  <2>3. sockState'[reading[r].sk] # "FREE"
    BY DEF Probe
  <2> QED
    BY <2>1, <2>2, <2>3, SocketSteps DEF Probe, AllInv
<1>7. RequestsAreNeverOlder'
  BY <1>3 DEF RequestsAreNeverOlder, AllInv
<1>8. OneErrorUnderWay'
  <2>1. UNCHANGED connectsFailed
    BY <1>4 DEF tables
  <2>2. Errors' \subseteq Errors \/ /\ Errors = {} /\ Errors' \subseteq {output'}
                                    /\ connectsFailed[Dst[output'.sk]] < MaxFailed
    BY <1>2, <1>3 DEF FailuresLeft, Errors
  <2> QED
    BY <2>1, <2>2 DEF OneErrorUnderWay, AllInv
<1>9. TimesAreUnique'
  <2>1. CASE Quiet
    <3>1. Opens' \subseteq Opens
      BY <1>2, <2>1 DEF Quiet, Opens
    <3>2. ASSUME NEW n \in Nat \ {0}, NEW s \in Socks, Timed(s, n)'
          PROVE  Timed(s, n)
      BY <1>3, <1>4, <2>1, <3>1, <3>2 DEF Timed, Quiet, tables
    <3>3. now' \in Nat /\ now <= now'
      BY <2>1 DEF Quiet, AllInv, IInv, TypeOK
    <3> QED
      BY <3>2, <3>3, TimesStay
  <2>2. ASSUME NEW w \in Socks, HandshakeCompletes(w)
        PROVE  TimesAreUnique'
    <3>1. /\ now \in Nat /\ now' = now + 1 /\ since' = [since EXCEPT ![w] = now']
          /\ output'.sk = w /\ output'.timestamp = now'
      BY <2>2 DEF HandshakeCompletes, Event, AllInv, IInv, TypeOK
    <3>2. ASSUME NEW n \in Nat \ {0}, NEW s \in Socks, Timed(s, n)'
          PROVE  Timed(s, n) \/ (s = w /\ n = now')
      BY <1>3, <1>4, <3>1, <3>2 DEF Timed, tables, AllInv, IInv, TypeOK
    <3> QED
      BY <3>1, <3>2 DEF TimesAreUnique, AllInv
  <2> QED
    BY <2>1, <2>2, TwoKinds DEF Probe, AllInv
<1>10. OpenAreDistinct'
  <2>1. \A s \in open' \cap open : desc'[s] = desc[s]
    <3>1. \A s \in open : sockState[s] # "FREE" /\ s \in Socks
      BY DEF AllInv, IInv, SocketsHaveDescriptors, TypeOK
    <3>2. \A s \in open' : sockState'[s] # "FREE"
      BY <1>1 DEF IInv, SocketsHaveDescriptors
    <3> QED
      BY <3>1, <3>2, SocketSteps DEF Probe, AllInv
  <2> SUFFICES ASSUME NEW s \in open', NEW u \in open', desc'[s] = desc'[u]
               PROVE  s = u
    BY DEF OpenAreDistinct
  <2>2. \A v \in open' \ open : open' = open \cup {v} /\ \A x \in open : desc[x] # desc'[v]
    BY SocketSteps DEF Probe, AllInv
  <2> QED
    BY <2>1, <2>2 DEF OpenAreDistinct, AllInv
<1>11. Tidiness'
  <2> SUFFICES ASSUME ~ untidy'
               PROVE  Tidiness'
    BY DEF Tidiness
  <2>1. ~ untidy /\ \A s \in open \ open' : ~ InUse(s)
    BY DEF Probe
  <2>2. /\ \A s \in Socks : sockState[s] = "SYN_SENT" => s \in open'
        /\ \A t \in Threads : calling[t] # None => calling[t].sk \in open'
        /\ \A r \in Readers : reading[r] # None => reading[r].sk \in open'
    BY <2>1 DEF InUse, AllInv, Tidiness
  <2>3. \A s \in Socks : sockState'[s] = "SYN_SENT" => s \in open'
    BY <2>2, SocketSteps DEF Probe, AllInv
  <2>4. \A t \in Threads : calling'[t] # None => calling'[t].sk \in open'
    BY <2>2, SocketSteps DEF Probe, AllInv
  <2>5. ASSUME NEW s \in open', since'[s] > 0
        PROVE  connection_timestamps'[desc'[s]] \in {None, since'[s]}
    <3>1. s \in open /\ s \in Socks /\ sockState[s] # "FREE" /\ desc'[s] = desc[s]
      <4>1. s \in open
        BY <2>5, SocketSteps DEF Probe, AllInv
      <4>2. s \in Socks /\ sockState[s] # "FREE" /\ sockState'[s] # "FREE"
        BY <1>1, <4>1 DEF IInv, SocketsHaveDescriptors, TypeOK, AllInv
      <4> QED
        BY <4>1, <4>2, SocketSteps DEF Probe, AllInv
    <3>2. since[s] > 0 => connection_timestamps[desc[s]] \in {None, since[s]}
      BY <2>1, <3>1 DEF AllInv, Tidiness
    <3>3. CASE Quiet
      BY <2>5, <3>1, <3>2, <3>3 DEF Quiet
    <3>4. ASSUME NEW w \in Socks, HandshakeCompletes(w)
          PROVE  connection_timestamps'[desc'[s]] \in {None, since'[s]}
      <4>1. /\ sk_info[w] = desc[w] /\ desc[w] \in Descriptors /\ now' \in Nat
            /\ since' = [since EXCEPT ![w] = now']
            /\ w \in open
            /\ connection_timestamps \in [Descriptors -> Nat \cup {None}]
            /\ since \in [Socks -> Nat]
        BY <2>1, <3>4 DEF HandshakeCompletes, LeaveSynSent, AllInv, IInv, TypeOK, SkInfoIsOwn,
           SocketsHaveDescriptors, Tidiness
      <4>2. /\ connection_timestamps'[desc[w]] = now'
            /\ \A d \in Descriptors \ {desc[w]} :
                  connection_timestamps'[d] \in {connection_timestamps[d], None}
        BY <3>4, CompletionTimes DEF AllInv
      <4>3. desc[s] \in Descriptors /\ (s # w => desc[s] # desc[w])
        BY <3>1, <4>1 DEF AllInv, IInv, SocketsHaveDescriptors, OpenAreDistinct
      <4> QED
        BY <2>5, <3>1, <3>2, <4>1, <4>2, <4>3
    <3> QED
      BY <3>3, <3>4, TwoKinds DEF Probe, AllInv
  <2> QED
    BY <1>3, <1>4, <2>1, <2>2, <2>3, <2>4, <2>5 DEF Tidiness, AllInv
<1> QED
  BY <1>1, <1>5, <1>6, <1>7, <1>8, <1>9, <1>10, <1>11 DEF AllInv

---------------------------------------------------------------------------
(* The steps of readers and of the handler: ConnTracker only sees that     *)
(* nothing is output.                                                      *)

LEMMA ProbesRest ==
    ASSUME IInv, UNCHANGED <<kernel, since, now, maps>>, output' = None
    PROVE  IInv'
<1> USE DEF IInv, kernel, maps
<1>1. TypeOK' /\ SocketsHaveDescriptors' /\ ClockIsLatest' /\ OnlyConnectionsAreTimed'
  BY DEF TypeOK, SocketsHaveDescriptors, ClockIsLatest, OnlyConnectionsAreTimed
<1>2. FdSlotIsOwn' /\ SkInfoIsOwn' /\ NeverOlder' /\ OutcomeNamesCaller'
  BY DEF FdSlotIsOwn, SkInfoIsOwn, NeverOlder, OutcomeNamesCaller
<1> QED
  BY <1>1, <1>2

LEMMA EnterReadPreserves ==
    ASSUME AllInv, NEW r \in Readers, NEW s \in Socks, EnterRead(r, s)
    PROVE  AllInv'
<1> USE DEF EnterRead
<1>1. IInv'
  BY ProbesRest DEF AllInv
<1>2. desc[s] \in Descriptors /\ sockState[s] # "FREE"
  BY DEF AllInv, IInv, SocketsHaveDescriptors
<1>3. /\ reading' \in [Readers -> Read \cup {None}]
      /\ reading'[r].sk = s /\ reading'[r].desc = desc[s]
      /\ \A q \in Readers \ {r} : reading'[q] = reading[q]
  BY <1>2 DEF AllInv, TablesOK, Read
<1>4. TablesOK'
  BY <1>3 DEF AllInv, TablesOK, tables
<1>5. ReadsAreOwn'
  BY <1>2, <1>3 DEF AllInv, ReadsAreOwn, kernel
<1>6. RequestsAreNeverOlder' /\ OneErrorUnderWay'
  BY DEF AllInv, RequestsAreNeverOlder, OneErrorUnderWay, Requests, Errors, tables
<1>7. TimesAreUnique' /\ OpenAreDistinct'
  BY DEF AllInv, TimesAreUnique, Timed, Opens, Requests, OpenAreDistinct, kernel, tables
<1>8. Tidiness'
  BY <1>3 DEF AllInv, Tidiness, Requests, kernel, maps
<1> QED
  BY <1>1, <1>4, <1>5, <1>6, <1>7, <1>8 DEF AllInv

LEMMA ExitReadPreserves ==
    ASSUME AllInv, NEW r \in Readers, ExitRead(r)
    PROVE  AllInv'
<1> USE DEF ExitRead
<1> DEFINE e == [type |-> "L7_REQUEST", desc |-> reading[r].desc,
                 timestamp |-> get_connection_timestamp(reading[r].desc),
                 sk |-> reading[r].sk, since |-> since[reading[r].sk]]
<1>1. IInv'
  BY ProbesRest DEF AllInv
<1>2. /\ reading[r].sk \in Socks /\ reading[r].desc \in Descriptors
      /\ desc[reading[r].sk] = reading[r].desc /\ since[reading[r].sk] \in Nat
  BY DEF AllInv, IInv, TypeOK, TablesOK, ReadsAreOwn, Read
<1>3. /\ e \in L7Event /\ e.type = "L7_REQUEST" /\ e.sk = reading[r].sk
      /\ e.since = since[e.sk] /\ e.timestamp \in Nat
      /\ e.timestamp # 0 => e.timestamp = connection_timestamps[desc[e.sk]]
                            /\ connection_timestamps[desc[e.sk]] # None
  BY <1>2 DEF L7Event, get_connection_timestamp, AllInv, IInv, TypeOK
<1>4. path' \in {path, path \cup {e}}
  BY DEF Send
<1> HIDE DEF e
<1>5. /\ Requests' \subseteq Requests \cup {e}
      /\ Opens' \subseteq Opens /\ Errors' \subseteq Errors
  BY <1>3, <1>4 DEF Requests, Opens, Errors
<1>6. /\ reading' \in [Readers -> Read \cup {None}]
      /\ \A q \in Readers : reading'[q] \in {reading[q], None}
  BY DEF AllInv, TablesOK
<1>7. TablesOK'
  BY <1>3, <1>4, <1>6 DEF AllInv, TablesOK, tables
<1>8. ReadsAreOwn'
  BY <1>6 DEF AllInv, ReadsAreOwn, kernel
<1>9. RequestsAreNeverOlder'
  <2>1. e.timestamp # 0 /\ e.since > 0 => e.timestamp >= e.since
    BY <1>2, <1>3 DEF AllInv, IInv, NeverOlder
  <2> QED
    BY <1>5, <2>1 DEF AllInv, RequestsAreNeverOlder
<1>10. OneErrorUnderWay'
  BY <1>5 DEF AllInv, OneErrorUnderWay, tables
<1>11. TimesAreUnique'
  <2>1. ASSUME NEW n \in Nat \ {0}, NEW s \in Socks, Timed(s, n)'
        PROVE  Timed(s, n)
    BY <1>3, <1>5, <2>1 DEF Timed, tables
  <2>2. now' \in Nat /\ now <= now'
    BY DEF AllInv, IInv, TypeOK
  <2> QED
    BY <2>1, <2>2, TimesStay
<1>12. OpenAreDistinct'
  BY DEF AllInv, OpenAreDistinct, kernel
<1>13. Tidiness'
  <2>1. ~ untidy /\ e.timestamp # 0 /\ e.since > 0 => e.timestamp = e.since
    BY <1>2, <1>3 DEF AllInv, Tidiness
  <2> QED
    BY <1>5, <1>6, <2>1 DEF AllInv, Tidiness, kernel, maps
<1> QED
  BY <1>1, <1>7, <1>8, <1>9, <1>10, <1>11, <1>12, <1>13 DEF AllInv

(* What handling a record takes from the path never hurts.                 *)
LEMMA ReceivePreserves ==
    ASSUME AllInv, NEW e \in path, Receive(e)
    PROVE  /\ IInv' /\ ReadsAreOwn' /\ RequestsAreNeverOlder' /\ OpenAreDistinct'
           /\ Tidiness'
           /\ Requests' \subseteq Requests /\ Opens' \subseteq Opens
           /\ Errors' \subseteq Errors \ {e}
<1> USE DEF Receive
<1>1. /\ Requests' \subseteq Requests /\ Opens' \subseteq Opens
      /\ Errors' \subseteq Errors \ {e}
  BY DEF Requests, Opens, Errors
<1>2. IInv'
  BY ProbesRest DEF AllInv
<1>3. ReadsAreOwn' /\ RequestsAreNeverOlder' /\ OpenAreDistinct' /\ Tidiness'
  BY <1>1 DEF AllInv, ReadsAreOwn, RequestsAreNeverOlder, OpenAreDistinct, Tidiness,
     kernel, maps
<1> QED
  BY <1>1, <1>2, <1>3

LEMMA TablesRest ==
    ASSUME AllInv, NEW e \in path, Receive(e), UNCHANGED tables
    PROVE  AllInv'
<1>1. TablesOK'
  BY DEF AllInv, TablesOK, tables, Receive
<1>2. OneErrorUnderWay'
  BY ReceivePreserves DEF AllInv, OneErrorUnderWay, tables
<1>3. TimesAreUnique'
  <2>1. ASSUME NEW n \in Nat \ {0}, NEW s \in Socks, Timed(s, n)'
        PROVE  Timed(s, n)
    BY <2>1, ReceivePreserves DEF Timed, tables, Receive
  <2>2. now' \in Nat /\ now <= now'
    BY DEF AllInv, IInv, TypeOK, Receive
  <2> QED
    BY <2>1, <2>2, TimesStay
<1> QED
  BY <1>1, <1>2, <1>3, ReceivePreserves DEF AllInv

LEMMA OnConnectionOpenPreserves ==
    ASSUME AllInv, NEW e \in path, OnConnectionOpen(e)
    PROVE  AllInv'
<1>1. /\ Receive(e) /\ e \in TcpEvent /\ e.sk \in Socks /\ e.timestamp \in Nat
      /\ Dst[e.sk] \in Addresses
  BY AddressesAssumption DEF OnConnectionOpen, AllInv, TablesOK, TcpEvent, L7Event
<1>2. CASE UNCHANGED tables
  BY <1>1, <1>2, TablesRest
<1>3. ASSUME NEW actual \in Addresses, e.type = "CONNECTION_OPEN", Succeeded(e, actual)
      PROVE  AllInv'
  <2> DEFINE pair == <<e.sk, actual>>
             conn == [sk |-> e.sk, ActualDest |-> actual, timestamp |-> e.timestamp]
  <2>1. /\ connectionsActive' = [connectionsActive EXCEPT ![pair] = conn]
        /\ connectionsByPidFd' = [connectionsByPidFd EXCEPT ![e.desc] = conn]
        /\ connectsSuccessful' = [connectsSuccessful EXCEPT ![pair] = @ + 1]
        /\ UNCHANGED connectsFailed
    BY <1>3 DEF Succeeded
  <2>2. /\ pair \in AddrPairs /\ conn \in ActiveConnection
        /\ conn.sk = e.sk /\ conn.timestamp = e.timestamp /\ pair = <<conn.sk, conn.ActualDest>>
    BY <1>1 DEF AddrPairs, ActiveConnection
  <2> HIDE DEF pair, conn
  <2>3. /\ connectionsByPidFd' \in [Descriptors -> ActiveConnection \cup {None}]
        /\ connectionsActive' \in [AddrPairs -> ActiveConnection \cup {None}]
        /\ connectsSuccessful' \in [AddrPairs -> Nat]
    <3>1. connectsSuccessful[pair] + 1 \in Nat
      BY <2>2 DEF AllInv, TablesOK
    <3>2. connectsSuccessful' \in [AddrPairs -> Nat]
      BY <2>1, <3>1 DEF AllInv, TablesOK
    <3>3. /\ connectionsByPidFd' \in [Descriptors -> ActiveConnection \cup {None}]
          /\ connectionsActive' \in [AddrPairs -> ActiveConnection \cup {None}]
      BY <2>1, <2>2 DEF AllInv, TablesOK
    <3> QED
      BY <3>2, <3>3
  <2>4. \A a \in AddrPairs : connectionsActive'[a] # None =>
              a = <<connectionsActive'[a].sk, connectionsActive'[a].ActualDest>>
    BY <2>1, <2>2 DEF AllInv, TablesOK
  <2>5. TablesOK'
    BY <1>1, <2>1, <2>3, <2>4 DEF AllInv, TablesOK, Receive
  <2>6. OneErrorUnderWay'
    BY <1>1, <2>1, ReceivePreserves DEF AllInv, OneErrorUnderWay
  <2>7. TimesAreUnique'
    <3>1. e \in Opens
      BY <1>3 DEF Opens
    <3>2. \A d \in Descriptors : connectionsByPidFd'[d] \in {connectionsByPidFd[d], conn}
      BY <2>1 DEF AllInv, TablesOK
    <3>3. ASSUME NEW n \in Nat \ {0}, NEW s \in Socks, Timed(s, n)'
          PROVE  Timed(s, n)
      <4>1. UNCHANGED since /\ Opens' \subseteq Opens /\ Requests' \subseteq Requests
        BY <1>1, ReceivePreserves DEF Receive
      <4>2. CASE since'[s] = n \/ (\E f \in Opens' : f.sk = s /\ f.timestamp = n)
                               \/ (\E f \in Requests' : f.sk = s /\ f.since = n)
        BY <4>1, <4>2 DEF Timed
      <4>3. ASSUME NEW d \in Descriptors, connectionsByPidFd'[d] # None,
                   connectionsByPidFd'[d].sk = s, connectionsByPidFd'[d].timestamp = n
            PROVE  Timed(s, n)
        BY <2>2, <3>1, <3>2, <4>3 DEF Timed
      <4> QED
        BY <3>3, <4>2, <4>3 DEF Timed
    <3>4. now' \in Nat /\ now <= now'
      BY <1>1 DEF AllInv, IInv, TypeOK, Receive
    <3> QED
      BY <3>3, <3>4, TimesStay
  <2> QED
    BY <1>1, <2>5, <2>6, <2>7, ReceivePreserves DEF AllInv
<1>4. ASSUME e.type = "CONNECTION_ERROR", Failed(e)
      PROVE  AllInv'
  <2>1. /\ connectsFailed' = [connectsFailed EXCEPT ![Dst[e.sk]] = @ + 1]
        /\ UNCHANGED <<connectionsByPidFd, connectionsActive, connectsSuccessful>>
    BY <1>4 DEF Failed
  <2>2. e \in Errors /\ Errors \ {e} = {}
    BY <1>4 DEF Errors, AllInv, OneErrorUnderWay
  <2>3. connectsFailed' \in [Addresses -> 0 .. MaxFailed]
    <3>1. connectsFailed[Dst[e.sk]] < MaxFailed
      BY <2>2 DEF AllInv, OneErrorUnderWay
    <3>2. connectsFailed[Dst[e.sk]] + 1 \in 0 .. MaxFailed
      BY <1>1, <3>1, RoomAssumption DEF AllInv, TablesOK
    <3> QED
      BY <1>1, <2>1, <3>2 DEF AllInv, TablesOK
  <2>4. TablesOK'
    BY <1>1, <2>1, <2>3 DEF AllInv, TablesOK, Receive
  <2>5. OneErrorUnderWay'
    BY <1>1, <2>2, ReceivePreserves DEF OneErrorUnderWay
  <2>6. TimesAreUnique'
    <3>1. ASSUME NEW n \in Nat \ {0}, NEW s \in Socks, Timed(s, n)'
          PROVE  Timed(s, n)
      BY <1>1, <2>1, <3>1, ReceivePreserves DEF Timed, Receive
    <3>2. now' \in Nat /\ now <= now'
      BY <1>1 DEF AllInv, IInv, TypeOK, Receive
    <3> QED
      BY <3>1, <3>2, TimesStay
  <2> QED
    BY <1>1, <2>4, <2>5, <2>6, ReceivePreserves DEF AllInv
<1> QED
  BY <1>1, <1>2, <1>3, <1>4, AddressesAssumption DEF OnConnectionOpen, GetActualDestination

LEMMA AllStutterPreserves ==
    ASSUME AllInv, UNCHANGED allVars
    PROVE  AllInv'
<1> USE DEF allVars, tables
<1>1. IInv'
  BY StutterPreserves DEF AllInv
<1>2. TablesOK' /\ ReadsAreOwn' /\ RequestsAreNeverOlder' /\ OneErrorUnderWay'
  BY DEF AllInv, TablesOK, ReadsAreOwn, RequestsAreNeverOlder, OneErrorUnderWay, Requests,
     Errors, vars, kernel
<1>3. TimesAreUnique' /\ OpenAreDistinct' /\ Tidiness'
  BY DEF AllInv, TimesAreUnique, Timed, OpenAreDistinct, Tidiness, Opens, Requests,
     vars, kernel, maps
<1> QED
  BY <1>1, <1>2, <1>3 DEF AllInv

LEMMA AllInductive == AllSpec => []AllInv
<1>1. AllInv /\ [AllNext]_allVars => AllInv'
  BY ProbePreserves, EnterReadPreserves, ExitReadPreserves, OnConnectionOpenPreserves,
     TablesRest, AllStutterPreserves DEF AllNext, OnL7Request
<1> QED
  BY InitAllInv, <1>1, PTL DEF AllSpec

---------------------------------------------------------------------------

(* The tables hold connections under their own keys, and every counter     *)
(* stays in its range (container_provider.go:22-28).                       *)
THEOREM TablesCorrect == AllSpec => []TablesOK
<1>1. AllInv => TablesOK
  BY DEF AllInv
<1> QED
  BY <1>1, AllInductive, PTL

(* A request is never credited to a connection that was over before its    *)
(* own began (container_provider.go:120-126 with l7.c:158-168, 481).       *)
THEOREM NeverOlderCredited == AllSpec => []NeverCreditedToOlder
<1>1. AllInv => NeverCreditedToOlder
  BY DEF AllInv, RequestsAreNeverOlder, Requests, NeverCreditedToOlder, Creditable, Credits
<1> QED
  BY <1>1, AllInductive, PTL

(* Tidy programs have their requests credited to the connection that       *)
(* carried them (container_provider.go:120-126 with l7.c:158-168, 481).    *)
THEOREM CarrierCredited == AllSpec => []CreditedToCarrier
<1>1. AllInv => CreditedToCarrier
  <2> SUFFICES ASSUME AllInv, ~ untidy, NEW e \in Creditable
               PROVE  /\ connectionsByPidFd[e.desc].sk = e.sk
                      /\ connectionsByPidFd[e.desc].timestamp = e.since
    BY DEF CreditedToCarrier
  <2>1. e \in Requests /\ e \in L7Event /\ e.timestamp # 0 /\ e.since > 0
    BY DEF Creditable, Requests, AllInv, TablesOK, TcpEvent, L7Event, Types
  <2>2. /\ connectionsByPidFd[e.desc] # None
        /\ connectionsByPidFd[e.desc].timestamp = e.timestamp
        /\ e.desc \in Descriptors /\ e.sk \in Socks /\ e.since \in Nat \ {0}
        /\ connectionsByPidFd[e.desc] \in ActiveConnection
    BY <2>1 DEF Creditable, Credits, L7Event, AllInv, TablesOK
  <2>3. e.timestamp = e.since
    BY <2>1 DEF AllInv, Tidiness
  <2>4. Timed(e.sk, e.since) /\ Timed(connectionsByPidFd[e.desc].sk, e.since)
    BY <2>1, <2>2, <2>3 DEF Timed
  <2>5. connectionsByPidFd[e.desc].sk \in Socks
    BY <2>2 DEF ActiveConnection
  <2> QED
    BY <2>2, <2>3, <2>4, <2>5 DEF AllInv, TimesAreUnique
<1> QED
  BY <1>1, AllInductive, PTL

=============================================================================
