---------------------------- MODULE Attribution ----------------------------
(***************************************************************************)
(* From the probes to the tables of a Container: ConnTracker composed with *)
(* the L7 probes' use of connection_timestamps (l7.c), the way of a record *)
(* to the handler, and OnConnectionOpen and OnL7Request of                 *)
(* pkg/container/container_provider.go.  All of Pids run in one container. *)
(*                                                                         *)
(* OPEN and ERROR records and L7 records go through different perf maps,   *)
(* each with one ring per CPU and a goroutine of its own, so nothing       *)
(* orders the records between the probe and the handler: path is a set.    *)
(***************************************************************************)
EXTENDS ConnTracker

CONSTANTS
    Readers,         \* further threads, which read responses
    Addresses,
    Dst,             \* [Socks -> Addresses], where a socket connects to
    Loopback,        \* the loopback ones of Addresses
    Backends,        \* what conntrack may give as the actual destination
    PathSlots, MaxFailed        \* bounds: records on their way, failures reported

ASSUME AddressesAssumption ==
    /\ Dst \in [Socks -> Addresses]
    /\ Loopback \subseteq Addresses /\ Backends \subseteq Addresses
ASSUME RoomAssumption == {PathSlots, MaxFailed} \subseteq Nat

VARIABLES
    reading,               \* the read() call a reader is in, or None
    untidy,                \* was a descriptor closed with a call in its socket
                           \* or a handshake under way?
    path,                  \* records between the probes and the handler
    connectionsByPidFd, connectionsActive, connectsSuccessful, connectsFailed

tables == <<connectionsByPidFd, connectionsActive, connectsSuccessful, connectsFailed>>
allVars == <<vars, reading, untidy, path, tables>>

(* AddrPair: the source address stands for the socket that has it.         *)
AddrPairs        == Socks \X Addresses
ActiveConnection == [sk : Socks, ActualDest : Addresses, timestamp : Nat]
Read             == [sk : Socks, desc : Descriptors]

(* sk and since say which connection carried the request; the program sees *)
(* desc and timestamp only.                                                *)
L7Event == [type : {"L7_REQUEST"}, desc : Descriptors, timestamp : Nat,
            sk : Socks, since : Nat]

AllInit ==
    /\ Init
    /\ reading = [r \in Readers |-> None]
    /\ untidy = FALSE
    /\ path = {}
    /\ connectionsByPidFd = [d \in Descriptors |-> None]
    /\ connectionsActive = [a \in AddrPairs |-> None]
    /\ connectsSuccessful = [a \in AddrPairs |-> 0]
    /\ connectsFailed = [a \in Addresses |-> 0]

---------------------------------------------------------------------------

(* A record is dropped when there is no room for it.                       *)
Send(e) ==
    path' = IF Cardinality(path) < PathSlots THEN path \cup {e} ELSE path

InUse(s) ==
    \/ sockState[s] = "SYN_SENT"
    \/ \E t \in Threads : calling[t] # None /\ calling[t].sk = s
    \/ \E r \in Readers : reading[r] # None /\ reading[r].sk = s

FailuresLeft(s) ==
    /\ connectsFailed[Dst[s]] < MaxFailed
    /\ \A e \in path : e.type # "CONNECTION_ERROR"

(* The steps of ConnTracker; handleEvents has a case for OPEN and ERROR    *)
(* only.  A read() keeps its socket from being released.  Sockets that     *)
(* listen are left out: no table of the container is about them.           *)
Probe ==
    /\ Next
    /\ untidy' = (untidy \/ \E s \in open \ open' : InUse(s))
    /\ \A r \in Readers : reading[r] # None => sockState'[reading[r].sk] # "FREE"
    /\ output' # None => output'.type # "LISTEN_OPEN"
    /\ (output' # None /\ output'.type = "CONNECTION_ERROR") => FailuresLeft(output'.sk)
    /\ IF output' # None /\ output'.type \in {"CONNECTION_OPEN", "CONNECTION_ERROR"}
       THEN Send(output') ELSE UNCHANGED path
    /\ UNCHANGED <<reading, tables>>

(* A request was written before and its response is awaited.               *)
EnterRead(r, s) ==
    /\ reading[r] = None
    /\ s \in open
    /\ sockState[s] = "ESTABLISHED"
    /\ reading' = [reading EXCEPT ![r] = [sk |-> s, desc |-> desc[s]]]
    /\ output' = None
    /\ UNCHANGED <<kernel, since, now, maps, untidy, path, tables>>

(* A mistake: the lookup's result used without a test.                     *)
get_timestamp_untested(d) == connection_timestamps[d]

get_connection_timestamp(d) ==
    IF connection_timestamps[d] = None THEN 0 ELSE connection_timestamps[d]

(* The timestamp is looked up when the response is there, under the        *)
(* descriptor number that read() was called with.                          *)
ExitRead(r) ==
    /\ reading[r] # None
    /\ reading' = [reading EXCEPT ![r] = None]
    /\ Send([type |-> "L7_REQUEST", desc |-> reading[r].desc,
             timestamp |-> get_connection_timestamp(reading[r].desc),
             sk |-> reading[r].sk, since |-> since[reading[r].sk]])
    /\ output' = None
    /\ UNCHANGED <<kernel, since, now, maps, untidy, tables>>

---------------------------------------------------------------------------
(* The handler                                                             *)

Receive(e) ==
    /\ path' = path \ {e}
    /\ output' = None
    /\ UNCHANGED <<kernel, since, now, maps, reading, untidy>>

Succeeded(e, actual) ==
    LET pair == <<e.sk, actual>>
        conn == [sk |-> e.sk, ActualDest |-> actual, timestamp |-> e.timestamp]
    IN  /\ connectionsActive' = [connectionsActive EXCEPT ![pair] = conn]
        /\ connectionsByPidFd' = [connectionsByPidFd EXCEPT ![e.desc] = conn]
        /\ connectsSuccessful' = [connectsSuccessful EXCEPT ![pair] = @ + 1]
        /\ UNCHANGED connectsFailed

Failed(e) ==
    /\ connectsFailed' = [connectsFailed EXCEPT ![Dst[e.sk]] = @ + 1]
    /\ UNCHANGED <<connectionsByPidFd, connectionsActive, connectsSuccessful>>

(* Conntrack knows where an address translation led the connection, or has *)
(* no entry for it, or not the one asked for: then nil.                    *)
GetActualDestination == Backends \cup {None}

OnConnectionOpen(e) ==
    /\ e.type \in {"CONNECTION_OPEN", "CONNECTION_ERROR"}
    /\ Receive(e)
    /\ IF Dst[e.sk] \in Loopback THEN UNCHANGED tables
       ELSE \/ /\ e.type = "CONNECTION_OPEN"
               /\ \E actual \in GetActualDestination :
                      Succeeded(e, IF actual = None THEN Dst[e.sk] ELSE actual)
            \/ e.type = "CONNECTION_ERROR" /\ Failed(e)

(* Mistakes: no comparison of the timestamps, or one that lets a later     *)
(* connection pass.                                                        *)
CreditsUnchecked(e)  == connectionsByPidFd[e.desc] # None

CreditsIfNotNewer(e) ==
    /\ connectionsByPidFd[e.desc] # None
    /\ connectionsByPidFd[e.desc].timestamp >= e.timestamp

(* A request is dropped when its descriptor has no connection, or one with *)
(* another timestamp; without a timestamp it is taken as it is.            *)
Credits(e) ==
    LET conn == connectionsByPidFd[e.desc] IN
    conn # None /\ (e.timestamp # 0 => conn.timestamp = e.timestamp)

(* The handler does nothing yet with a request it credits to a connection. *)
OnL7Request(e) ==
    /\ e.type = "L7_REQUEST"
    /\ Receive(e)
    /\ UNCHANGED tables

AllNext ==
    \/ Probe
    \/ \E r \in Readers, s \in Socks : EnterRead(r, s)
    \/ \E r \in Readers : ExitRead(r)
    \/ \E e \in path : OnConnectionOpen(e) \/ OnL7Request(e)

AllSpec == AllInit /\ [][AllNext]_allVars

---------------------------------------------------------------------------
(* Properties                                                              *)

(* The tables hold what the handlers put there, under its own key          *)
(* (container_provider.go:22-28).                                          *)
TablesOK ==
    /\ reading \in [Readers -> Read \cup {None}] /\ untidy \in BOOLEAN
    /\ path \subseteq TcpEvent \cup L7Event
    /\ connectionsByPidFd \in [Descriptors -> ActiveConnection \cup {None}]
    /\ connectionsActive \in [AddrPairs -> ActiveConnection \cup {None}]
    /\ \A a \in AddrPairs : connectionsActive[a] # None =>
          a = <<connectionsActive[a].sk, connectionsActive[a].ActualDest>>
    /\ connectsSuccessful \in [AddrPairs -> Nat]
    /\ connectsFailed \in [Addresses -> 0 .. MaxFailed]

(* The requests that OnL7Request would credit now, of those that have a    *)
(* timestamp and were carried by a connection the tracer knows the age of. *)
Creditable == {e \in path : e.type = "L7_REQUEST" /\ e.timestamp # 0 /\ e.since > 0
                             /\ Credits(e)}

(* A request is never credited to a connection that was over before the    *)
(* one that carried it began, although descriptors are reused, records     *)
(* overtake each other and are lost, and the timestamp is looked up under  *)
(* a descriptor that may have been closed meanwhile                        *)
(* (container_provider.go:120-126, l7.c:158-168, 481).                     *)
NeverCreditedToOlder ==
    \A e \in Creditable : connectionsByPidFd[e.desc].timestamp >= e.since

(* As long as programs close no descriptor under a call or a handshake, it *)
(* is credited to the very connection that carried it.                     *)
CreditedToCarrier ==
    ~ untidy => \A e \in Creditable :
        /\ connectionsByPidFd[e.desc].sk = e.sk
        /\ connectionsByPidFd[e.desc].timestamp = e.since

=============================================================================
