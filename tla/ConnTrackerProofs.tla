------------------------- MODULE ConnTrackerProofs -------------------------
(***************************************************************************)
(* Proofs about ConnTracker, for any number of threads, processes,         *)
(* descriptors and sockets and any size of the maps.                       *)
(***************************************************************************)
EXTENDS ConnTracker, FiniteSetTheorems, TLAPS

(* No timestamp that is kept anywhere lies in the future.                  *)
ClockIsLatest ==
    /\ \A d \in Descriptors : connection_timestamps[d] # None =>
                                  connection_timestamps[d] <= now
    /\ \A s \in Socks : since[s] <= now

(* No time of establishment is left over in a free socket address.         *)
OnlyConnectionsAreTimed ==
    \A s \in Socks : since[s] > 0 => sockState[s] # "FREE"

(* A socket that exists, or that a call is inside of, has a descriptor.    *)
SocketsHaveDescriptors ==
    /\ \A s \in Socks : sockState[s] # "FREE" => desc[s] \in Descriptors
    /\ \A s \in open : sockState[s] # "FREE"
    /\ \A t \in Threads : calling[t] # None =>
          /\ calling[t] \in Call
          /\ sockState[calling[t].sk] # "FREE"
          /\ desc[calling[t].sk] = <<Tgid[t], calling[t].fd>>

IInv == TypeOK /\ SocketsHaveDescriptors /\ ClockIsLatest /\ OnlyConnectionsAreTimed
        /\ FdSlotIsOwn /\ SkInfoIsOwn /\ NeverOlder /\ OutcomeNamesCaller

---------------------------------------------------------------------------

(* An update of an LRU map always writes the key; another entry is either  *)
(* kept or given up.                                                       *)
LEMMA LruUpdatesLemma ==
    ASSUME NEW K, NEW V, NEW m \in [K -> V \cup {None}],
           NEW k \in K, NEW v \in V, NEW slots,
           NEW u \in LruUpdates(m, k, v, slots)
    PROVE  /\ u \in [K -> V \cup {None}]
           /\ u[k] = v
           /\ \A j \in K \ {k} : u[j] \in {m[j], None}
<1>1. CASE HasRoom(m, k, slots)
  <2>1. u = [m EXCEPT ![k] = v]
    BY <1>1 DEF LruUpdates
  <2> QED
    BY <2>1
<1>2. CASE ~ HasRoom(m, k, slots)
  <2>1. PICK victim \in Keys(m) : u = [MapDelete(m, victim) EXCEPT ![k] = v]
    BY <1>2 DEF LruUpdates
  <2>2. victim \in K
    BY DEF Keys
  <2> QED
    BY <2>1, <2>2 DEF MapDelete
<1> QED
  BY <1>1, <1>2

LEMMA InitInvariant == Init => IInv
BY TgidAssumption DEF Init, IInv, TypeOK, SocketsHaveDescriptors, ClockIsLatest,
   OnlyConnectionsAreTimed, FdSlotIsOwn, SkInfoIsOwn, NeverOlder, OutcomeNamesCaller, Descriptors, TcpStates

(* One lemma per group of actions.                                         *)
LEMMA AppearPreserves ==
    ASSUME IInv, NEW s \in Socks, NEW d \in Descriptors,
           NEW state \in {"CLOSE", "ESTABLISHED"}, Appear(s, d, state)
    PROVE  IInv'
<1> USE DEF IInv, Appear, maps
<1>1. TypeOK'
  BY DEF TypeOK, TcpStates
<1>2. SocketsHaveDescriptors'
  BY DEF SocketsHaveDescriptors, TypeOK, Call
<1>3. ClockIsLatest' /\ OnlyConnectionsAreTimed' /\ FdSlotIsOwn' /\ OutcomeNamesCaller'
  BY DEF ClockIsLatest, OnlyConnectionsAreTimed, TypeOK, FdSlotIsOwn, OutcomeNamesCaller
<1>4. SkInfoIsOwn'
  BY DEF SkInfoIsOwn, TypeOK
<1>5. NeverOlder'
  BY DEF NeverOlder, OnlyConnectionsAreTimed, TypeOK
<1> QED
  BY <1>1, <1>2, <1>3, <1>4, <1>5

LEMMA CloseDescriptorPreserves ==
    ASSUME IInv, NEW s \in Socks, CloseDescriptor(s)
    PROVE  IInv'
<1> USE DEF IInv, CloseDescriptor, maps
<1>1. TypeOK' /\ SocketsHaveDescriptors'
  BY DEF TypeOK, SocketsHaveDescriptors
<1>2. /\ ClockIsLatest' /\ OnlyConnectionsAreTimed' /\ FdSlotIsOwn'
      /\ SkInfoIsOwn' /\ NeverOlder' /\ OutcomeNamesCaller'
  BY DEF ClockIsLatest, OnlyConnectionsAreTimed, FdSlotIsOwn, SkInfoIsOwn,
         NeverOlder, OutcomeNamesCaller
<1> QED
  BY <1>1, <1>2

LEMMA ReleasePreserves ==
    ASSUME IInv, NEW s \in Socks, Release(s)
    PROVE  IInv'
<1> USE DEF IInv, Release, maps
<1>1. TypeOK'
  BY DEF TypeOK
<1>2. SocketsHaveDescriptors'
  BY DEF SocketsHaveDescriptors, TypeOK, Call
<1>3. ClockIsLatest' /\ OnlyConnectionsAreTimed' /\ FdSlotIsOwn' /\ OutcomeNamesCaller'
  BY DEF ClockIsLatest, OnlyConnectionsAreTimed, TypeOK, FdSlotIsOwn, OutcomeNamesCaller
<1>4. SkInfoIsOwn' /\ NeverOlder'
  BY DEF SkInfoIsOwn, NeverOlder, TypeOK
<1> QED
  BY <1>1, <1>2, <1>3, <1>4

LEMMA EnterConnectPreserves ==
    ASSUME IInv, NEW t \in Threads, NEW s \in Socks, sys_enter_connect(t, s)
    PROVE  IInv'
<1> USE DEF IInv, sys_enter_connect
<1>1. desc[s] \in Descriptors /\ sockState[s] # "FREE"
  BY DEF SocketsHaveDescriptors
<1>2. desc[s] = <<Tgid[t], desc[s][2]>> /\ desc[s][2] \in Fds
  BY <1>1 DEF Descriptors
<1>3. /\ fd_by_pid_tgid' \in [Threads -> Fds \cup {None}]
      /\ fd_by_pid_tgid'[t] \in {fd_by_pid_tgid[t], desc[s][2]}
      /\ \A u \in Threads \ {t} : fd_by_pid_tgid'[u] = fd_by_pid_tgid[u]
  BY <1>2 DEF TypeOK, HashUpdate
<1>4. TypeOK'
  BY <1>2, <1>3 DEF TypeOK, Call
<1>5. SocketsHaveDescriptors'
  BY <1>1, <1>2 DEF SocketsHaveDescriptors, TypeOK, Call
<1>6. FdSlotIsOwn'
  <2> DEFINE call == [sk |-> s, fd |-> desc[s][2], sent |-> FALSE]
  <2>1. fd_by_pid_tgid[t] = None
    BY DEF FdSlotIsOwn
  <2>2. call \in Call
    BY <1>2 DEF Call
  <2>3. calling' = [calling EXCEPT ![t] = call] /\ call # None
    BY <2>2, NoneAssumption
  <2>4. fd_by_pid_tgid'[t] # None => fd_by_pid_tgid'[t] = call.fd
    BY <2>1, <1>3
  <2> QED
    BY <1>3, <2>3, <2>4 DEF FdSlotIsOwn, TypeOK
<1>7. /\ ClockIsLatest' /\ OnlyConnectionsAreTimed'
      /\ SkInfoIsOwn' /\ NeverOlder' /\ OutcomeNamesCaller'
  BY DEF ClockIsLatest, OnlyConnectionsAreTimed, SkInfoIsOwn, NeverOlder,
         OutcomeNamesCaller
<1> QED
  BY <1>4, <1>5, <1>6, <1>7

LEMMA ExitConnectPreserves ==
    ASSUME IInv, NEW t \in Threads, sys_exit_connect(t)
    PROVE  IInv'
<1> USE DEF IInv, sys_exit_connect
<1>1. TypeOK' /\ SocketsHaveDescriptors'
  BY DEF TypeOK, SocketsHaveDescriptors, MapDelete
<1>2. FdSlotIsOwn'
  BY DEF FdSlotIsOwn, TypeOK, MapDelete
<1>3. /\ ClockIsLatest' /\ OnlyConnectionsAreTimed'
      /\ SkInfoIsOwn' /\ NeverOlder' /\ OutcomeNamesCaller'
  BY DEF ClockIsLatest, OnlyConnectionsAreTimed, SkInfoIsOwn, NeverOlder,
         OutcomeNamesCaller
<1> QED
  BY <1>1, <1>2, <1>3

LEMMA SendSynPreserves ==
    ASSUME IInv, NEW t \in Threads, SendSyn(t)
    PROVE  IInv'
<1> USE DEF IInv, SendSyn
<1> DEFINE s == calling[t].sk
           d == <<Tgid[t], fd_by_pid_tgid[t]>>
<1>1. /\ calling[t] \in Call /\ s \in Socks /\ sockState[s] = "CLOSE"
      /\ desc[s] = <<Tgid[t], calling[t].fd>>
  BY DEF SocketsHaveDescriptors, Call
<1>2. fd_by_pid_tgid[t] # None => d = desc[s] /\ d \in Descriptors
  BY <1>1, TgidAssumption DEF FdSlotIsOwn, TypeOK, Descriptors
<1>3. /\ sk_info' \in [Socks -> Descriptors \cup {None}]
      /\ sk_info'[s] \in {None, desc[s]}
      /\ \A r \in Socks \ {s} : sk_info'[r] = sk_info[r]
  <2>1. sk_info[s] = None
    BY <1>1 DEF SkInfoIsOwn
  <2> QED
    BY <1>1, <1>2, <2>1 DEF TypeOK, HashUpdate
<1>4. /\ fd_by_pid_tgid' \in [Threads -> Fds \cup {None}]
      /\ fd_by_pid_tgid'[t] = None
      /\ \A u \in Threads \ {t} : fd_by_pid_tgid'[u] = fd_by_pid_tgid[u]
  BY DEF TypeOK, MapDelete
<1>5. /\ calling' \in [Threads -> Call \cup {None}]
      /\ calling'[t] \in Call
      /\ calling'[t].sk = calling[t].sk /\ calling'[t].fd = calling[t].fd
      /\ \A u \in Threads \ {t} : calling'[u] = calling[u]
  BY <1>1 DEF TypeOK, Call
<1>6. TypeOK'
  BY <1>1, <1>3, <1>4, <1>5 DEF TypeOK, TcpStates
<1>7. SocketsHaveDescriptors'
  <2>1. \A r \in Socks : sockState'[r] # "FREE" <=> sockState[r] # "FREE"
    BY <1>1 DEF TypeOK
  <2>2. ASSUME NEW u \in Threads, calling'[u] # None
        PROVE  /\ calling'[u] \in Call
               /\ sockState'[calling'[u].sk] # "FREE"
               /\ desc'[calling'[u].sk] = <<Tgid[u], calling'[u].fd>>
    <3>1. CASE u = t
      BY <1>1, <1>5, <2>1, <3>1
    <3>2. CASE u # t
      BY <1>5, <2>1, <2>2, <3>2 DEF SocketsHaveDescriptors, Call
    <3> QED
      BY <3>1, <3>2
  <2>3. /\ \A r \in Socks : sockState'[r] # "FREE" => desc'[r] \in Descriptors
        /\ \A r \in open' : sockState'[r] # "FREE"
    BY <2>1 DEF SocketsHaveDescriptors, TypeOK
  <2> QED
    BY <2>2, <2>3 DEF SocketsHaveDescriptors
<1>8. FdSlotIsOwn'
  BY <1>4, <1>5 DEF FdSlotIsOwn
<1>9. SkInfoIsOwn'
  BY <1>1, <1>3 DEF SkInfoIsOwn, TypeOK
<1>10. OnlyConnectionsAreTimed' /\ NeverOlder'
  BY <1>1 DEF OnlyConnectionsAreTimed, NeverOlder, TypeOK
<1>11. ClockIsLatest' /\ OutcomeNamesCaller'
  BY <1>1 DEF ClockIsLatest, OutcomeNamesCaller, TypeOK
<1> QED
  BY <1>6, <1>7, <1>8, <1>9, <1>10, <1>11

(* What every end of a SYN_SENT leaves in place.                           *)
LEMMA LeaveSynSentPreserves ==
    ASSUME IInv, NEW s \in Socks, NEW new \in TcpStates, LeaveSynSent(s, new)
    PROVE  /\ sockState' \in [Socks -> TcpStates \cup {"FREE"}]
           /\ sk_info' \in [Socks -> Descriptors \cup {None}]
           /\ SocketsHaveDescriptors' /\ FdSlotIsOwn' /\ SkInfoIsOwn'
<1> USE DEF IInv, LeaveSynSent
<1>1. /\ sockState' \in [Socks -> TcpStates \cup {"FREE"}]
      /\ sk_info' \in [Socks -> Descriptors \cup {None}]
  BY DEF TypeOK, MapDelete
<1>2. SocketsHaveDescriptors'
  BY DEF SocketsHaveDescriptors, TypeOK, TcpStates, Fin
<1>3. FdSlotIsOwn'
  BY DEF FdSlotIsOwn
<1>4. SkInfoIsOwn'
  BY DEF SkInfoIsOwn, TypeOK, MapDelete
<1> QED
  BY <1>1, <1>2, <1>3, <1>4

LEMMA UntrackedPreserves ==
    ASSUME IInv, NEW s \in Socks, NEW new \in {"ESTABLISHED", "CLOSE", "SYN_RECV"},
           Untracked(s, new)
    PROVE  IInv'
<1> USE DEF IInv, Untracked
<1>1. /\ sockState' \in [Socks -> TcpStates \cup {"FREE"}]
      /\ sk_info' \in [Socks -> Descriptors \cup {None}]
      /\ SocketsHaveDescriptors' /\ FdSlotIsOwn' /\ SkInfoIsOwn'
  BY LeaveSynSentPreserves DEF TcpStates
<1>2. TypeOK'
  BY <1>1 DEF TypeOK, LeaveSynSent
<1>3. OnlyConnectionsAreTimed' /\ NeverOlder'
  BY DEF OnlyConnectionsAreTimed, NeverOlder, TypeOK, LeaveSynSent
<1>4. ClockIsLatest' /\ OutcomeNamesCaller'
  BY DEF ClockIsLatest, OutcomeNamesCaller
<1> QED
  BY <1>1, <1>2, <1>3, <1>4

LEMMA HandshakeCompletesPreserves ==
    ASSUME IInv, NEW s \in Socks, HandshakeCompletes(s)
    PROVE  IInv'
<1> USE DEF IInv, HandshakeCompletes
<1>1. /\ sockState' \in [Socks -> TcpStates \cup {"FREE"}]
      /\ sk_info' \in [Socks -> Descriptors \cup {None}]
      /\ SocketsHaveDescriptors' /\ FdSlotIsOwn' /\ SkInfoIsOwn'
  BY LeaveSynSentPreserves DEF TcpStates
<1>2. sk_info[s] = desc[s] /\ desc[s] \in Descriptors /\ now \in Nat /\ now' \in Nat
  BY DEF SkInfoIsOwn, TypeOK
<1>3. /\ connection_timestamps' \in [Descriptors -> Nat \cup {None}]
      /\ connection_timestamps'[desc[s]] = now'
      /\ \A d \in Descriptors \ {desc[s]} :
            connection_timestamps'[d] \in {connection_timestamps[d], None}
  <2>1. /\ connection_timestamps \in [Descriptors -> Nat \cup {None}]
        /\ connection_timestamps' \in
             LruUpdates(connection_timestamps, desc[s], now', TimestampSlots)
    BY <1>2 DEF TypeOK
  <2> HIDE DEF IInv, HandshakeCompletes
  <2> QED
    BY <1>2, <2>1, LruUpdatesLemma
<1>4. TypeOK'
  BY <1>1, <1>2, <1>3 DEF TypeOK, LeaveSynSent, TcpEvent, Event, Types, Descriptors
<1>5. ClockIsLatest'
  BY <1>2, <1>3 DEF ClockIsLatest, TypeOK
<1>6. OnlyConnectionsAreTimed'
  BY DEF OnlyConnectionsAreTimed, TypeOK, LeaveSynSent
<1>7. NeverOlder'
  <2> SUFFICES ASSUME NEW r \in Socks, since'[r] > 0
               PROVE  \/ connection_timestamps'[desc'[r]] = None
                      \/ connection_timestamps'[desc'[r]] >= since'[r]
    BY DEF NeverOlder
  <2>1. desc'[r] = desc[r] /\ desc[r] \in Descriptors
    <3>1. sockState[r] # "FREE"
      BY DEF OnlyConnectionsAreTimed, LeaveSynSent, TypeOK
    <3> QED
      BY <3>1 DEF LeaveSynSent, SocketsHaveDescriptors
  <2>2. CASE desc[r] = desc[s]
    BY <1>2, <1>3, <2>1, <2>2 DEF ClockIsLatest, TypeOK
  <2>3. CASE desc[r] # desc[s]
    <3>1. r # s /\ since'[r] = since[r]
      BY <2>3 DEF TypeOK, LeaveSynSent
    <3> QED
      BY <1>3, <2>1, <2>3, <3>1 DEF NeverOlder
  <2> QED
    BY <2>2, <2>3
<1>8. OutcomeNamesCaller'
  BY <1>2 DEF OutcomeNamesCaller, Event, LeaveSynSent
<1> QED
  BY <1>1, <1>4, <1>5, <1>6, <1>7, <1>8

LEMMA HandshakeFailsPreserves ==
    ASSUME IInv, NEW s \in Socks, HandshakeFails(s)
    PROVE  IInv'
<1> USE DEF IInv, HandshakeFails
<1>1. /\ sockState' \in [Socks -> TcpStates \cup {"FREE"}]
      /\ sk_info' \in [Socks -> Descriptors \cup {None}]
      /\ SocketsHaveDescriptors' /\ FdSlotIsOwn' /\ SkInfoIsOwn'
  BY LeaveSynSentPreserves DEF TcpStates
<1>2. sk_info[s] = desc[s] /\ desc[s] \in Descriptors
  BY DEF SkInfoIsOwn, TypeOK
<1>3. TypeOK'
  BY <1>1, <1>2 DEF TypeOK, LeaveSynSent, TcpEvent, Event, Types, Descriptors
<1>4. OnlyConnectionsAreTimed' /\ NeverOlder'
  BY DEF OnlyConnectionsAreTimed, NeverOlder, TypeOK, LeaveSynSent
<1>5. ClockIsLatest'
  BY DEF ClockIsLatest
<1>6. OutcomeNamesCaller'
  BY <1>2 DEF OutcomeNamesCaller, Event, LeaveSynSent
<1> QED
  BY <1>1, <1>3, <1>4, <1>5, <1>6

LEMMA SimultaneousOpenPreserves ==
    ASSUME IInv, NEW s \in Socks, SimultaneousOpen(s)
    PROVE  IInv'
<1> USE DEF IInv, SimultaneousOpen
<1>1. /\ sockState' \in [Socks -> TcpStates \cup {"FREE"}]
      /\ sk_info' \in [Socks -> Descriptors \cup {None}]
      /\ SocketsHaveDescriptors' /\ FdSlotIsOwn' /\ SkInfoIsOwn'
  BY LeaveSynSentPreserves DEF TcpStates
<1>2. TypeOK'
  BY <1>1 DEF TypeOK, LeaveSynSent
<1>3. OnlyConnectionsAreTimed' /\ NeverOlder'
  BY DEF OnlyConnectionsAreTimed, NeverOlder, TypeOK, LeaveSynSent
<1>4. ClockIsLatest' /\ OutcomeNamesCaller'
  BY DEF ClockIsLatest, OutcomeNamesCaller
<1> QED
  BY <1>1, <1>2, <1>3, <1>4

LEMMA TransitionPreserves ==
    ASSUME IInv, NEW s \in Socks, NEW old \in TcpStates \ {"SYN_SENT"},
           NEW new \in TcpStates \ {"SYN_SENT"}, NEW event \in TcpEvent \cup {None},
           event # None => event.type \notin {"CONNECTION_OPEN", "CONNECTION_ERROR"},
           Transition(s, old, new, event)
    PROVE  IInv'
<1> USE DEF IInv, Transition, maps
<1>1. TypeOK'
  BY DEF TypeOK
<1>2. SocketsHaveDescriptors'
  <2>1. \A r \in Socks : sockState'[r] # "FREE" <=> sockState[r] # "FREE"
    BY DEF TypeOK, TcpStates, Fin
  <2> QED
    BY <2>1 DEF SocketsHaveDescriptors, Call
<1>3. FdSlotIsOwn' /\ OutcomeNamesCaller'
  BY DEF FdSlotIsOwn, OutcomeNamesCaller
<1>4. SkInfoIsOwn'
  BY DEF SkInfoIsOwn, TypeOK
<1>5. OnlyConnectionsAreTimed'
  <2>1. \A r \in Socks : sockState'[r] # "FREE" <=> sockState[r] # "FREE"
    BY DEF TypeOK, TcpStates, Fin
  <2> QED
    BY <2>1 DEF OnlyConnectionsAreTimed
<1>6. ClockIsLatest' /\ NeverOlder'
  BY DEF ClockIsLatest, NeverOlder
<1> QED
  BY <1>1, <1>2, <1>3, <1>4, <1>5, <1>6

LEMMA OtherTransitionsPreserve ==
    ASSUME IInv, NEW s \in Socks,
           \/ \E new \in Fin : Finish(s, new)
           \/ Listen(s)
           \/ StopListening(s)
           \/ Unreported(s)
    PROVE  IInv'
<1>1. ASSUME NEW new \in Fin, Finish(s, new)
      PROVE  IInv'
  <2>1. Event("CONNECTION_CLOSE", s, <<0, 0>>, 0) \in TcpEvent
    BY DEF Event, TcpEvent, Types
  <2>2. Event("CONNECTION_CLOSE", s, <<0, 0>>, 0).type = "CONNECTION_CLOSE"
    BY DEF Event
  <2> QED
    BY <1>1, <2>1, <2>2, TransitionPreserves DEF Finish, TcpStates, Fin
<1>2. CASE Listen(s) \/ StopListening(s)
  <2>1. sockState[s] # "FREE"
    BY <1>2 DEF Listen, StopListening, Transition
  <2>2. desc[s][1] \in Pids
    BY <2>1 DEF IInv, SocketsHaveDescriptors, Descriptors
  <2>3. ASSUME NEW type \in {"LISTEN_OPEN", "LISTEN_CLOSE"}
        PROVE  /\ Event(type, s, <<desc[s][1], 0>>, 0) \in TcpEvent
               /\ Event(type, s, <<desc[s][1], 0>>, 0).type = type
    BY <2>2 DEF Event, TcpEvent, Types
  <2>4. CASE Listen(s)
    BY <2>3, <2>4, TransitionPreserves DEF Listen, TcpStates
  <2>5. CASE StopListening(s)
    BY <2>3, <2>5, TransitionPreserves DEF StopListening, TcpStates
  <2> QED
    BY <1>2, <2>4, <2>5
<1>3. CASE Unreported(s)
  <2>1. CASE Transition(s, "SYN_RECV", "ESTABLISHED", None)
    BY <2>1, TransitionPreserves DEF TcpStates
  <2>2. CASE \E old \in {"ESTABLISHED", "SYN_RECV"} \cup Fin :
                Transition(s, old, "CLOSE", None)
    BY <2>2, TransitionPreserves DEF TcpStates, Fin
  <2> QED
    BY <1>3, <2>1, <2>2 DEF Unreported
<1> QED
  BY <1>1, <1>2, <1>3

LEMMA StutterPreserves ==
    ASSUME IInv, UNCHANGED vars
    PROVE  IInv'
<1> USE DEF IInv, vars, kernel, maps
<1>1. TypeOK' /\ SocketsHaveDescriptors' /\ ClockIsLatest' /\ OnlyConnectionsAreTimed'
  BY DEF TypeOK, SocketsHaveDescriptors, ClockIsLatest, OnlyConnectionsAreTimed
<1>2. FdSlotIsOwn' /\ SkInfoIsOwn' /\ NeverOlder' /\ OutcomeNamesCaller'
  BY DEF FdSlotIsOwn, SkInfoIsOwn, NeverOlder, OutcomeNamesCaller
<1> QED
  BY <1>1, <1>2

LEMMA NextPreserves ==
    ASSUME IInv, [Next]_vars
    PROVE  IInv'
<1>1. ASSUME NEW s \in Socks, NEW d \in Descriptors, Socket(s, d) \/ Accept(s, d)
      PROVE  IInv'
  BY <1>1, AppearPreserves DEF Socket, Accept
<1>2. ASSUME NEW t \in Threads, NEW s \in Socks, sys_enter_connect(t, s)
      PROVE  IInv'
  BY <1>2, EnterConnectPreserves
<1>3. ASSUME NEW t \in Threads, SendSyn(t) \/ sys_exit_connect(t)
      PROVE  IInv'
  BY <1>3, SendSynPreserves, ExitConnectPreserves
<1>4. ASSUME NEW s \in Socks, CloseDescriptor(s) \/ Release(s)
      PROVE  IInv'
  BY <1>4, CloseDescriptorPreserves, ReleasePreserves
<1>5. ASSUME NEW s \in Socks,
             NEW new \in {"ESTABLISHED", "CLOSE", "SYN_RECV"}, Untracked(s, new)
      PROVE  IInv'
  BY <1>5, UntrackedPreserves
<1>6. ASSUME NEW s \in Socks,
             HandshakeCompletes(s) \/ HandshakeFails(s) \/ SimultaneousOpen(s)
      PROVE  IInv'
  BY <1>6, HandshakeCompletesPreserves, HandshakeFailsPreserves,
     SimultaneousOpenPreserves
<1>7. ASSUME NEW s \in Socks, \/ \E new \in Fin : Finish(s, new)
                              \/ Listen(s)
                              \/ StopListening(s)
                              \/ Unreported(s)
      PROVE  IInv'
  BY <1>7, OtherTransitionsPreserve
<1> QED
  BY <1>1, <1>2, <1>3, <1>4, <1>5, <1>6, <1>7, StutterPreserves DEF Next

LEMMA Inductive == Spec => []IInv
BY InitInvariant, NextPreserves, PTL DEF Spec

---------------------------------------------------------------------------

(* The variables and the maps keep their types (state.c:45-68).            *)
THEOREM TypeCorrect == Spec => []TypeOK
<1>1. IInv => TypeOK
  BY DEF IInv
<1> QED
  BY <1>1, Inductive, PTL

(* fd_by_pid_tgid only names the descriptor of the call that is under way, *)
(* for every thread (state.c:158-174).                                     *)
THEOREM SlotsAreOwn == Spec => []FdSlotIsOwn
<1>1. IInv => FdSlotIsOwn
  BY DEF IInv
<1> QED
  BY <1>1, Inductive, PTL

(* sk_info only describes the attempt that is under way on its socket      *)
(* (state.c:83-118).                                                       *)
THEOREM AttemptsAreOwn == Spec => []SkInfoIsOwn
<1>1. IInv => SkInfoIsOwn
  BY DEF IInv
<1> QED
  BY <1>1, Inductive, PTL

(* The outcome of a connect() is reported under the descriptor it was      *)
(* called with (state.c:101-118, 137-147).                                 *)
THEOREM OutcomesNameTheirCaller == Spec => []OutcomeNamesCaller
<1>1. IInv => OutcomeNamesCaller
  BY DEF IInv
<1> QED
  BY <1>1, Inductive, PTL

(* A connection is never taken for an earlier one of its descriptor        *)
(* (state.c:106-112 with l7.c:158).                                        *)
THEOREM TimestampsAreNeverOlder == Spec => []NeverOlder
<1>1. IInv => NeverOlder
  BY DEF IInv
<1> QED
  BY <1>1, Inductive, PTL

---------------------------------------------------------------------------
(* What it takes for every attempt to be tracked.                          *)

(* A call whose SYN is not out has its entry, where there is one for every *)
(* thread.                                                                 *)
CallsHaveSlots ==
    FdSlots >= Cardinality(Threads) =>
        \A t \in Threads : calling[t] # None /\ ~ calling[t].sent =>
                               fd_by_pid_tgid[t] # None

(* A thread without an entry finds room for one.                           *)
LEMMA ThreadsFindRoom ==
    ASSUME IInv, FdSlots >= Cardinality(Threads),
           NEW t \in Threads, fd_by_pid_tgid[t] = None
    PROVE  HasRoom(fd_by_pid_tgid, t, FdSlots)
<1>1. Keys(fd_by_pid_tgid) \subseteq Threads \ {t}
  BY DEF Keys, IInv, TypeOK
<1>2. IsFiniteSet(Threads \ {t}) /\ Cardinality(Threads \ {t}) = Cardinality(Threads) - 1
      /\ Cardinality(Threads) \in Nat
  BY ThreadsAssumption, FS_RemoveElement, FS_CardinalityType
<1>3. /\ Cardinality(Keys(fd_by_pid_tgid)) \in Nat
      /\ Cardinality(Keys(fd_by_pid_tgid)) <= Cardinality(Threads \ {t})
  BY <1>1, <1>2, FS_Subset, FS_CardinalityType
<1>4. FdSlots \in Nat
  BY SlotsAssumption
<1> QED
  BY <1>2, <1>3, <1>4 DEF HasRoom

LEMMA EnterConnectFindsRoom ==
    ASSUME IInv, CallsHaveSlots, NEW t \in Threads, NEW s \in Socks, sys_enter_connect(t, s)
    PROVE  CallsHaveSlots'
<1> SUFFICES ASSUME FdSlots >= Cardinality(Threads), NEW u \in Threads,
                    calling'[u] # None, ~ calling'[u].sent
             PROVE  fd_by_pid_tgid'[u] # None
  BY DEF CallsHaveSlots
<1>1. /\ calling[t] = None /\ desc[s] \in Descriptors
      /\ calling' = [calling EXCEPT ![t] = [sk |-> s, fd |-> desc[s][2], sent |-> FALSE]]
      /\ fd_by_pid_tgid' = HashUpdate(fd_by_pid_tgid, t, desc[s][2], FdSlots)
  BY DEF sys_enter_connect, IInv, SocketsHaveDescriptors
<1>2. fd_by_pid_tgid[t] = None
  BY <1>1 DEF IInv, FdSlotIsOwn
<1>3. fd_by_pid_tgid' = [fd_by_pid_tgid EXCEPT ![t] = desc[s][2]]
  BY <1>1, <1>2, ThreadsFindRoom DEF HashUpdate
<1>4. desc[s][2] # None
  BY <1>1, NoneAssumption DEF Descriptors
<1> QED
  BY <1>1, <1>3, <1>4 DEF CallsHaveSlots, IInv, TypeOK

LEMMA CallsKeepSlots ==
    ASSUME IInv, CallsHaveSlots, [Next]_vars
    PROVE  CallsHaveSlots'
<1>1. ASSUME NEW t \in Threads, NEW s \in Socks, sys_enter_connect(t, s)
      PROVE  CallsHaveSlots'
  BY <1>1, EnterConnectFindsRoom
<1>2. ASSUME NEW t \in Threads, SendSyn(t)
      PROVE  CallsHaveSlots'
  <2>1. calling' = [calling EXCEPT ![t].sent = TRUE]
        /\ fd_by_pid_tgid' \in {fd_by_pid_tgid, MapDelete(fd_by_pid_tgid, t)}
        /\ calling[t] \in Call
    BY <1>2 DEF SendSyn, IInv, TypeOK
  <2>2. calling'[t].sent = TRUE
    BY <2>1 DEF IInv, TypeOK, Call
  <2> QED
    BY <2>1, <2>2 DEF CallsHaveSlots, MapDelete, IInv, TypeOK
<1>3. ASSUME NEW t \in Threads, sys_exit_connect(t)
      PROVE  CallsHaveSlots'
  BY <1>3 DEF sys_exit_connect, CallsHaveSlots, MapDelete, IInv, TypeOK
<1>4. CASE UNCHANGED <<calling, fd_by_pid_tgid>>
  BY <1>4 DEF CallsHaveSlots
<1>5. ASSUME NEW s \in Socks,
             \/ \E d \in Descriptors : Socket(s, d) \/ Accept(s, d)
             \/ CloseDescriptor(s)
             \/ Release(s)
             \/ \E new \in {"ESTABLISHED", "CLOSE", "SYN_RECV"} : Untracked(s, new)
             \/ HandshakeCompletes(s) \/ HandshakeFails(s) \/ SimultaneousOpen(s)
      PROVE  UNCHANGED <<calling, fd_by_pid_tgid>>
  BY <1>5 DEF Socket, Accept, Appear, CloseDescriptor, Release, Untracked, LeaveSynSent,
              HandshakeCompletes, HandshakeFails, SimultaneousOpen, maps
<1>6. ASSUME NEW s \in Socks,
             \/ \E new \in Fin : Finish(s, new)
             \/ Listen(s) \/ StopListening(s) \/ Unreported(s)
      PROVE  UNCHANGED <<calling, fd_by_pid_tgid>>
  BY <1>6 DEF Finish, Listen, StopListening, Unreported, Transition, maps
<1>7. CASE UNCHANGED vars
  BY <1>7, <1>4 DEF vars, kernel, maps
<1> QED
  BY <1>1, <1>2, <1>3, <1>4, <1>5, <1>6, <1>7 DEF Next

(* What a step makes of a socket that is in SYN_SENT after it.             *)
LEMMA AttemptIsTracked ==
    ASSUME IInv, CallsHaveSlots, Next, FdSlots >= Cardinality(Threads),
           NEW s \in Socks, sockState'[s] = "SYN_SENT"
    PROVE  \/ sk_info'[s] # None
           \/ sockState[s] = "SYN_SENT" /\ sk_info[s] = None
           \/ sockState[s] # "SYN_SENT" /\ ~ HasRoom(sk_info, s, SkInfoSlots)
<1>1. CASE sockState[s] = "SYN_SENT" /\ sk_info'[s] = sk_info[s]
  BY <1>1
<1>2. ASSUME NEW t \in Threads, SendSyn(t)
      PROVE  \/ sk_info'[s] # None
             \/ sockState[s] = "SYN_SENT" /\ sk_info[s] = None
             \/ sockState[s] # "SYN_SENT" /\ ~ HasRoom(sk_info, s, SkInfoSlots)
  <2>1. /\ calling[t] \in Call /\ ~ calling[t].sent
        /\ sockState[calling[t].sk] = "CLOSE"
        /\ sockState' = [sockState EXCEPT ![calling[t].sk] = "SYN_SENT"]
    BY <1>2 DEF SendSyn, IInv, TypeOK
  <2>2. fd_by_pid_tgid[t] # None /\ fd_by_pid_tgid[t] \in Fds /\ Tgid[t] \in Pids
    BY <1>2, TgidAssumption DEF SendSyn, CallsHaveSlots, IInv, TypeOK
  <2>3. sk_info' = HashUpdate(sk_info, calling[t].sk, <<Tgid[t], fd_by_pid_tgid[t]>>, SkInfoSlots)
    BY <1>2, <2>2 DEF SendSyn
  <2>4. CASE s = calling[t].sk
    <3>1. <<Tgid[t], fd_by_pid_tgid[t]>> # None
      BY <2>2, NoneAssumption
    <3>2. HasRoom(sk_info, s, SkInfoSlots) => sk_info'[s] = <<Tgid[t], fd_by_pid_tgid[t]>>
      BY <2>3, <2>4 DEF HashUpdate, IInv, TypeOK
    <3> QED
      BY <2>1, <2>4, <3>1, <3>2
  <2>5. CASE s # calling[t].sk
    BY <1>1, <2>1, <2>3, <2>5 DEF HashUpdate, IInv, TypeOK
  <2> QED
    BY <2>4, <2>5
<1>3. ASSUME NEW t \in Threads, NEW w \in Socks, sys_enter_connect(t, w) \/ sys_exit_connect(t)
      PROVE  sockState[s] = "SYN_SENT" /\ sk_info'[s] = sk_info[s]
  BY <1>3 DEF sys_enter_connect, sys_exit_connect
<1>4. ASSUME NEW w \in Socks,
             \/ \E d \in Descriptors : Socket(w, d) \/ Accept(w, d)
             \/ CloseDescriptor(w)
             \/ Release(w)
      PROVE  sockState[s] = "SYN_SENT" /\ sk_info'[s] = sk_info[s]
  BY <1>4 DEF Socket, Accept, Appear, CloseDescriptor, Release, maps, IInv, TypeOK
<1>5. ASSUME NEW w \in Socks, NEW new \in {"ESTABLISHED", "CLOSE", "SYN_RECV"}, LeaveSynSent(w, new)
      PROVE  sockState[s] = "SYN_SENT" /\ sk_info'[s] = sk_info[s]
  BY <1>5 DEF LeaveSynSent, MapDelete, IInv, TypeOK
<1>6. ASSUME NEW w \in Socks,
             \/ \E new \in {"ESTABLISHED", "CLOSE", "SYN_RECV"} : Untracked(w, new)
             \/ HandshakeCompletes(w) \/ HandshakeFails(w) \/ SimultaneousOpen(w)
      PROVE  \E new \in {"ESTABLISHED", "CLOSE", "SYN_RECV"} : LeaveSynSent(w, new)
  BY <1>6 DEF Untracked, HandshakeCompletes, HandshakeFails, SimultaneousOpen
<1>7. ASSUME NEW w \in Socks, NEW old, NEW new \in TcpStates \ {"SYN_SENT"}, NEW event,
             Transition(w, old, new, event)
      PROVE  sockState[s] = "SYN_SENT" /\ sk_info'[s] = sk_info[s]
  BY <1>7 DEF Transition, maps, IInv, TypeOK
<1>8. ASSUME NEW w \in Socks,
             \/ \E new \in Fin : Finish(w, new)
             \/ Listen(w) \/ StopListening(w) \/ Unreported(w)
      PROVE  sockState[s] = "SYN_SENT" /\ sk_info'[s] = sk_info[s]
  <2>1. Fin \cup {"CLOSE", "LISTEN", "ESTABLISHED"} \subseteq TcpStates \ {"SYN_SENT"}
    BY DEF Fin, TcpStates
  <2> QED
    BY <1>7, <1>8, <2>1 DEF Finish, Listen, StopListening, Unreported
<1> QED
  BY <1>1, <1>2, <1>3, <1>4, <1>5, <1>6, <1>8 DEF Next

(* Only a full map makes the tracer blind to an attempt: a thread always   *)
(* has room for its entry where fd_by_pid_tgid is as large as the number   *)
(* of threads, and SendSyn finds it there (state.c:83-95, 118).            *)
THEOREM AttemptsTracked == Spec => AttemptsAreTracked
<1> DEFINE Tracked ==
        FdSlots >= Cardinality(Threads) =>
            \A s \in Socks : sockState'[s] = "SYN_SENT" =>
                \/ sk_info'[s] # None
                \/ sockState[s] = "SYN_SENT" /\ sk_info[s] = None
                \/ sockState[s] # "SYN_SENT" /\ ~ HasRoom(sk_info, s, SkInfoSlots)
<1>1. Init => CallsHaveSlots
  BY DEF Init, CallsHaveSlots
<1>2. IInv /\ CallsHaveSlots /\ [Next]_vars => CallsHaveSlots' /\ [Tracked]_vars
  BY CallsKeepSlots, AttemptIsTracked
<1> HIDE DEF Tracked
<1>3. Spec => [][Tracked]_vars
  BY <1>1, <1>2, Inductive, PTL DEF Spec
<1> USE DEF Tracked
<1> QED
  BY <1>3 DEF AttemptsAreTracked

=============================================================================
