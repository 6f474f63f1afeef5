---------------------------- MODULE ConnTracker ----------------------------
(***************************************************************************)
(* pkg/ebpftracer/ebpf/tcp/state.c: three probes that find out which       *)
(* descriptor of which process a TCP connection belongs to.                *)
(*                                                                         *)
(* A connect() call tells sys_enter_connect the descriptor but not the     *)
(* kernel socket; inet_sock_set_state sees the socket but, once the SYN is *)
(* out, runs in whatever context receives the answer.  The probes join the *)
(* two with fd_by_pid_tgid (calling thread -> descriptor) and sk_info      *)
(* (socket -> process and descriptor), and leave connection_timestamps     *)
(* (process and descriptor -> time of establishment) for the L7 probes.    *)
(*                                                                         *)
(* sockState, desc, open and calling are the kernel's side; since records  *)
(* which of the connections were given a timestamp, and which one.         *)
(***************************************************************************)
EXTENDS BpfMaps

CONSTANTS
    Threads, Pids,       \* threads and processes of the monitored programs
    Tgid,                \* [Threads -> Pids], the process of a thread
    Fds,                 \* descriptor numbers
    Socks,               \* kernel socket addresses (skaddr); they are reused
    FdSlots, SkInfoSlots, TimestampSlots,     \* max_entries of the maps
    MaxClock             \* bound on the establishments that are timed

ASSUME TgidAssumption == Tgid \in [Threads -> Pids]
ASSUME SlotsAssumption == {FdSlots, SkInfoSlots, TimestampSlots, MaxClock} \subseteq Nat

(* A connect() call: its socket, its descriptor, and whether its SYN is out. *)
Call == [sk : Socks, fd : Fds, sent : BOOLEAN]

ASSUME NoneAssumption == None \notin Call \cup Fds \cup (Pids \X Fds)
ASSUME ThreadsAssumption == IsFiniteSet(Threads)

VARIABLES
    sockState,              \* TCP state of a socket, "FREE" when there is none
    desc,                   \* descriptor the socket was created under
    open,                   \* sockets whose descriptor still refers to them
    calling,                \* the connect() call a thread is in, or None
    since,                  \* when the last connection of a socket was timed, else 0
    now,                    \* bpf_ktime_get_ns
    fd_by_pid_tgid, sk_info, connection_timestamps,      \* the maps
    output                  \* record handed to bpf_perf_event_output, or None

kernel == <<sockState, desc, open, calling>>
maps   == <<fd_by_pid_tgid, sk_info, connection_timestamps>>
vars   == <<kernel, since, now, maps, output>>

Descriptors == Pids \X Fds
Fin         == {"FIN_WAIT1", "CLOSE_WAIT"}
TcpStates   == {"CLOSE", "SYN_SENT", "SYN_RECV", "ESTABLISHED", "LISTEN"} \cup Fin
Types       == {"CONNECTION_OPEN", "CONNECTION_ERROR", "CONNECTION_CLOSE",
                "LISTEN_OPEN", "LISTEN_CLOSE"}

(* pid and fd are one value here: <<pid, fd>>, with 0 for a field the      *)
(* probe leaves 0.                                                         *)
TcpEvent == [type : Types, sk : Socks, timestamp : Nat,
             desc : (Pids \cup {0}) \X (Fds \cup {0})]

Event(type, s, d, timestamp) ==
    [type |-> type, sk |-> s, desc |-> d, timestamp |-> timestamp]

Init ==
    /\ sockState = [s \in Socks |-> "FREE"]
    /\ desc = [s \in Socks |-> None]
    /\ open = {}
    /\ calling = [t \in Threads |-> None]
    /\ since = [s \in Socks |-> 0]
    /\ now = 0
    /\ fd_by_pid_tgid = [t \in Threads |-> None]
    /\ sk_info = [s \in Socks |-> None]
    /\ connection_timestamps = [d \in Descriptors |-> None]
    /\ output = None

---------------------------------------------------------------------------
(* The life of a descriptor.  Its number is free for the next socket as    *)
(* soon as close() has taken it out of the table, the socket goes away     *)
(* only when no call is left inside it.                                    *)

IsFree(d) == \A s \in open : desc[s] # d

Appear(s, d, state) ==
    /\ sockState[s] = "FREE"
    /\ IsFree(d)
    /\ sockState' = [sockState EXCEPT ![s] = state]
    /\ desc' = [desc EXCEPT ![s] = d]
    /\ open' = open \cup {s}
    /\ output' = None
    /\ UNCHANGED <<calling, since, now, maps>>

Socket(s, d) == Appear(s, d, "CLOSE")

(* A connection that was accepted goes from SYN_RECV to ESTABLISHED, which *)
(* no branch of inet_sock_set_state is about.                              *)
Accept(s, d) == Appear(s, d, "ESTABLISHED")

CloseDescriptor(s) ==
    /\ s \in open
    /\ open' = open \ {s}
    /\ output' = None
    /\ UNCHANGED <<sockState, desc, calling, since, now, maps>>

Release(s) ==
    /\ sockState[s] = "CLOSE"
    /\ s \notin open
    /\ \A t \in Threads : calling[t] # None => calling[t].sk # s
    /\ sockState' = [sockState EXCEPT ![s] = "FREE"]
    /\ desc' = [desc EXCEPT ![s] = None]
    /\ since' = [since EXCEPT ![s] = 0]
    /\ output' = None
    /\ UNCHANGED <<open, calling, now, maps>>

---------------------------------------------------------------------------
(* connect()                                                               *)

sys_enter_connect(t, s) ==
    /\ calling[t] = None
    /\ s \in open
    /\ desc[s][1] = Tgid[t]
    /\ calling' = [calling EXCEPT ![t] = [sk |-> s, fd |-> desc[s][2], sent |-> FALSE]]
    /\ fd_by_pid_tgid' = HashUpdate(fd_by_pid_tgid, t, desc[s][2], FdSlots)
    /\ output' = None
    /\ UNCHANGED <<sockState, desc, open, since, now, sk_info, connection_timestamps>>

(* Mistakes in the next two probes, for the mutants of PROJECT.json: the   *)
(* descriptor looked up per process, or stored without its process; the    *)
(* entry kept on return, or deleted per process.                           *)
SendSynWith(t, d) ==
    /\ calling[t] # None
    /\ ~ calling[t].sent
    /\ calling' = [calling EXCEPT ![t].sent = TRUE]
    /\ sockState[calling[t].sk] = "CLOSE"
    /\ sockState' = [sockState EXCEPT ![calling[t].sk] = "SYN_SENT"]
    /\ since' = [since EXCEPT ![calling[t].sk] = 0]
    /\ fd_by_pid_tgid' = MapDelete(fd_by_pid_tgid, t)
    /\ sk_info' = [sk_info EXCEPT ![calling[t].sk] = d]
    /\ output' = None
    /\ UNCHANGED <<desc, open, now, connection_timestamps>>

SendSynPerProcess(t) ==
    \E u \in Threads : /\ Tgid[u] = Tgid[t]
                       /\ fd_by_pid_tgid[u] # None
                       /\ SendSynWith(t, <<Tgid[t], fd_by_pid_tgid[u]>>)

SendSynWithoutPid(t) == SendSynWith(t, fd_by_pid_tgid[t])

ExitDeleting(t, threads) ==
    /\ calling[t] # None
    /\ calling' = [calling EXCEPT ![t] = None]
    /\ fd_by_pid_tgid' =
         [u \in Threads |-> IF u \in threads THEN None ELSE fd_by_pid_tgid[u]]
    /\ output' = None
    /\ UNCHANGED <<sockState, desc, open, since, now, sk_info, connection_timestamps>>

ExitKeepingSlot(t)    == ExitDeleting(t, {})
ExitDeletingByPid(t)  == ExitDeleting(t, {u \in Threads : Tgid[u] = Tgid[t]})

(* CLOSE -> SYN_SENT happens inside the call, in the calling thread, and   *)
(* at most once per call.                                                  *)
SendSyn(t) ==
    /\ calling[t] # None
    /\ ~ calling[t].sent
    /\ calling' = [calling EXCEPT ![t].sent = TRUE]
    /\ sockState[calling[t].sk] = "CLOSE"
    /\ sockState' = [sockState EXCEPT ![calling[t].sk] = "SYN_SENT"]
    /\ since' = [since EXCEPT ![calling[t].sk] = 0]
    /\ IF fd_by_pid_tgid[t] = None
       THEN UNCHANGED <<fd_by_pid_tgid, sk_info>>
       ELSE /\ fd_by_pid_tgid' = MapDelete(fd_by_pid_tgid, t)
            /\ sk_info' = HashUpdate(sk_info, calling[t].sk,
                                     <<Tgid[t], fd_by_pid_tgid[t]>>, SkInfoSlots)
    /\ output' = None
    /\ UNCHANGED <<desc, open, now, connection_timestamps>>

(* A call may return without a SYN (not a TCP socket, already connected)   *)
(* and, on a non-blocking socket, before the handshake ends.               *)
sys_exit_connect(t) ==
    /\ calling[t] # None
    /\ calling' = [calling EXCEPT ![t] = None]
    /\ fd_by_pid_tgid' = MapDelete(fd_by_pid_tgid, t)
    /\ output' = None
    /\ UNCHANGED <<sockState, desc, open, since, now, sk_info, connection_timestamps>>

---------------------------------------------------------------------------
(* The end of SYN_SENT.  Only a socket that is in sk_info is reported.     *)

(* A mistake: sk_info deleted only after a handshake that completed.       *)
LeaveSynSentKeepingInfo(s, new) ==
    /\ sockState[s] = "SYN_SENT"
    /\ sockState' = [sockState EXCEPT ![s] = new]
    /\ sk_info' = IF new = "ESTABLISHED" THEN MapDelete(sk_info, s) ELSE sk_info
    /\ UNCHANGED <<desc, open, calling, fd_by_pid_tgid>>

LeaveSynSent(s, new) ==
    /\ sockState[s] = "SYN_SENT"
    /\ sockState' = [sockState EXCEPT ![s] = new]
    /\ sk_info' = MapDelete(sk_info, s)
    /\ UNCHANGED <<desc, open, calling, fd_by_pid_tgid>>

Untracked(s, new) ==
    /\ sk_info[s] = None
    /\ LeaveSynSent(s, new)
    /\ output' = None
    /\ UNCHANGED <<since, now, connection_timestamps>>

(* A mistake: BPF_NOEXIST, which leaves the entry of an earlier connection.*)
HandshakeCompletesNoExist(s) ==
    /\ sk_info[s] # None
    /\ now < MaxClock
    /\ now' = now + 1
    /\ LeaveSynSent(s, "ESTABLISHED")
    /\ connection_timestamps' \in
         IF connection_timestamps[sk_info[s]] # None
         THEN {connection_timestamps}
         ELSE LruUpdates(connection_timestamps, sk_info[s], now', TimestampSlots)
    /\ since' = [since EXCEPT ![s] = now']
    /\ output' = Event("CONNECTION_OPEN", s, sk_info[s], now')

HandshakeCompletes(s) ==
    /\ sk_info[s] # None
    /\ now < MaxClock
    /\ now' = now + 1
    /\ LeaveSynSent(s, "ESTABLISHED")
    /\ connection_timestamps' \in
         LruUpdates(connection_timestamps, sk_info[s], now', TimestampSlots)
    /\ since' = [since EXCEPT ![s] = now']
    /\ output' = Event("CONNECTION_OPEN", s, sk_info[s], now')

(* Refused, timed out, or given up by the program.                         *)
HandshakeFails(s) ==
    /\ sk_info[s] # None
    /\ LeaveSynSent(s, "CLOSE")
    /\ output' = Event("CONNECTION_ERROR", s, sk_info[s], 0)
    /\ UNCHANGED <<since, now, connection_timestamps>>

(* Both ends opened at once: type stays 0, the socket is forgotten.        *)
SimultaneousOpen(s) ==
    /\ sk_info[s] # None
    /\ LeaveSynSent(s, "SYN_RECV")
    /\ output' = None
    /\ UNCHANGED <<since, now, connection_timestamps>>

---------------------------------------------------------------------------
(* The other transitions of inet_sock_set_state.                           *)

Transition(s, old, new, event) ==
    /\ sockState[s] = old
    /\ sockState' = [sockState EXCEPT ![s] = new]
    /\ output' = event
    /\ UNCHANGED <<desc, open, calling, since, now, maps>>

Finish(s, new) ==
    Transition(s, "ESTABLISHED", new, Event("CONNECTION_CLOSE", s, <<0, 0>>, 0))

Listen(s) ==
    s \in open
    /\ Transition(s, "CLOSE", "LISTEN", Event("LISTEN_OPEN", s, <<desc[s][1], 0>>, 0))

StopListening(s) ==
    Transition(s, "LISTEN", "CLOSE", Event("LISTEN_CLOSE", s, <<desc[s][1], 0>>, 0))

(* No branch is about these (a reset of an established connection is one   *)
(* of them): type is 0 and nothing is reported.                            *)
Unreported(s) ==
    \/ Transition(s, "SYN_RECV", "ESTABLISHED", None)
    \/ \E old \in {"ESTABLISHED", "SYN_RECV"} \cup Fin :
          Transition(s, old, "CLOSE", None)

Next ==
    \/ \E s \in Socks, d \in Descriptors : Socket(s, d) \/ Accept(s, d)
    \/ \E t \in Threads, s \in Socks : sys_enter_connect(t, s)
    \/ \E t \in Threads : SendSyn(t) \/ sys_exit_connect(t)
    \/ \E s \in Socks :
         \/ CloseDescriptor(s)
         \/ Release(s)
         \/ \E new \in {"ESTABLISHED", "CLOSE", "SYN_RECV"} : Untracked(s, new)
         \/ HandshakeCompletes(s)
         \/ HandshakeFails(s)
         \/ SimultaneousOpen(s)
         \/ \E new \in Fin : Finish(s, new)
         \/ Listen(s)
         \/ StopListening(s)
         \/ Unreported(s)

(* The kernel gives a SYN up after tcp_syn_retries, so a handshake ends.   *)
HandshakeEnds(s) == HandshakeCompletes(s) \/ HandshakeFails(s) \/ SimultaneousOpen(s)

Fairness == \A s \in Socks : WF_vars(HandshakeEnds(s))

Spec == Init /\ [][Next]_vars /\ Fairness

---------------------------------------------------------------------------
(* Properties                                                              *)

(* Every variable stays in its type; the maps only hold what the probes    *)
(* write (state.c:45-68).                                                  *)
TypeOK ==
    /\ sockState \in [Socks -> TcpStates \cup {"FREE"}]
    /\ desc \in [Socks -> Descriptors \cup {None}]
    /\ open \subseteq Socks
    /\ calling \in [Threads -> Call \cup {None}]
    /\ since \in [Socks -> Nat]
    /\ now \in Nat
    /\ fd_by_pid_tgid \in [Threads -> Fds \cup {None}]
    /\ sk_info \in [Socks -> Descriptors \cup {None}]
    /\ connection_timestamps \in [Descriptors -> Nat \cup {None}]
    /\ output \in TcpEvent \cup {None}

(* An entry of fd_by_pid_tgid belongs to the connect() call its thread is  *)
(* in and to no earlier one: a later SYN never picks up the descriptor of  *)
(* a call that has returned (state.c:158-174).                             *)
FdSlotIsOwn ==
    \A t \in Threads : fd_by_pid_tgid[t] # None =>
        /\ calling[t] # None
        /\ ~ calling[t].sent
        /\ fd_by_pid_tgid[t] = calling[t].fd

(* An entry of sk_info belongs to the attempt that is under way on its     *)
(* socket and names the descriptor that socket was created under, although *)
(* threads interleave and socket addresses are reused (state.c:83-118).    *)
SkInfoIsOwn ==
    \A s \in Socks : sk_info[s] # None =>
        /\ sockState[s] = "SYN_SENT"
        /\ sk_info[s] = desc[s]

(* OPEN and ERROR events name the process and the descriptor that connect()*)
(* was called with, whatever context they are emitted from                 *)
(* (state.c:101-118, 137-147).                                             *)
OutcomeNamesCaller ==
    (output # None /\ output.type \in {"CONNECTION_OPEN", "CONNECTION_ERROR"}) =>
        output.desc = desc[output.sk]

(* What get_connection_timestamp (l7.c:158) finds under the descriptor of  *)
(* a tracked connection, while a call may still read from it, is never the *)
(* timestamp of an earlier connection of that descriptor: connection_      *)
(* timestamps keeps the entries of connections that are over, so a new one *)
(* has to replace them (state.c:106-112).                                  *)
NeverOlder ==
    \A s \in Socks : since[s] > 0 =>
        \/ connection_timestamps[desc[s]] = None
        \/ connection_timestamps[desc[s]] >= since[s]

(* Only a full map makes the tracer blind to an attempt: where fd_by_pid_  *)
(* tgid has room for every thread, a socket whose SYN goes out gets its    *)
(* sk_info unless that map is full, and keeps it while it is in SYN_SENT   *)
(* (state.c:83-95, 118).                                                   *)
AttemptsAreTracked ==
    [][FdSlots >= Cardinality(Threads) =>
        \A s \in Socks : sockState'[s] = "SYN_SENT" =>
            \/ sk_info'[s] # None
            \/ sockState[s] = "SYN_SENT" /\ sk_info[s] = None
            \/ sockState[s] # "SYN_SENT" /\ ~ HasRoom(sk_info, s, SkInfoSlots)]_vars

(* No attempt occupies sk_info for ever, which would fill the map for good *)
(* (state.c:118).                                                          *)
AttemptsEnd == \A s \in Socks : sk_info[s] # None ~> sk_info[s] = None

=============================================================================
