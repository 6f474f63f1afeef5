---------------------------- MODULE Http2Streams ----------------------------
(***************************************************************************)
(* pkg/ebpftracer/l7/http2.go: the table of active requests with which     *)
(* Http2Parser joins the HEADERS frames of a client and of a server, given *)
(* as records of the L7 probes (METHOD_HTTP2_CLIENT_FRAMES and             *)
(* METHOD_HTTP2_SERVER_FRAMES), each with the kernel's time.               *)
(*                                                                         *)
(* Records of a connection may be lost, and overtake each other, for the   *)
(* threads that write and read it run on several CPUs; a payload is cut at *)
(* its maximal size, between two frames or within one.  Header blocks can  *)
(* only be decoded one after another and whole: a decoder that has missed  *)
(* one, or a part of one, gives anything.  So does one that is given a     *)
(* block as Parse does not expect it: after padding or a priority, to be   *)
(* continued in a CONTINUATION, or with a change of the table's size.  If  *)
(* it reports an error, the bytes of the block are taken for frames.       *)
(*                                                                         *)
(* What a request's block says (method, path, scheme) is left out, and so  *)
(* are frames of other types, which are skipped.                           *)
(***************************************************************************)
EXTENDS Naturals, FiniteSets, SequencesExt

CONSTANTS
    Streams,
    Answer,              \* [Streams -> Nat], the status a server answers
    GcInterval,          \* http2DecoderGcInterval
    Modulus,             \* 2^64: times are unsigned
    PathSlots, MaxTime,  \* bounds: records on their way, time
    None

ASSUME AnswerAssumption == Answer \in [Streams -> Nat \ {0}]
ASSUME TimeAssumption ==
    GcInterval \in Nat /\ MaxTime \in Nat \ {0} /\ Modulus \in Nat /\ MaxTime < Modulus
ASSUME NoneAssumption == None \notin Nat

VARIABLES
    now,
    phase,               \* of a stream: "idle", "requested", "answered", "closed"
    requestTime,         \* when the request was written
    blocks,              \* header blocks each side has sent
    path,                \* records between the probes and the parser
    decoded,             \* blocks each decoder has seen, None if it is out of step
    activeRequests,      \* stream -> kernelTime of its Http2Request, or None
    lastGcTime,
    misread,             \* history: sides whose header bytes were taken for frames
    newest, overtaken,   \* history: latest time parsed; was one out of order?
    collections,         \* history: how many, counted to two
    output, collected,   \* what the last Parse returned, and what it collected
    reported             \* history: streams that have been reported

world  == <<now, phase, requestTime, blocks>>
parser == <<decoded, activeRequests, lastGcTime>>
results == <<output, collected, reported, collections, misread, newest, overtaken>>
vars   == <<world, path, parser, results>>

Sides   == {"client", "server"}
Frame   == [stream : Streams, kind : {"request", "response", "trailers"}]
Payload == SeqOf(Frame, 2)
Record  == [side : Sides, time : 1 .. MaxTime, first : Nat, frames : Payload, whole : 0 .. 2]
Result  == [stream : Streams, status : Nat, duration : 0 .. Modulus - 1]

Init ==
    /\ now = 1
    /\ phase = [s \in Streams |-> "idle"]
    /\ requestTime = [s \in Streams |-> None]
    /\ blocks = [d \in Sides |-> 0]
    /\ path = {}
    /\ decoded = [d \in Sides |-> 0]
    /\ activeRequests = [s \in Streams |-> None]
    /\ lastGcTime = 0
    /\ misread = {}
    /\ newest = 0 /\ overtaken = FALSE
    /\ collections = 0
    /\ output = {} /\ collected = {} /\ reported = {}

---------------------------------------------------------------------------
(* The connection.  Every record has a time of its own.                    *)

(* The record keeps the frames that fit, or begin to: the first `whole` of *)
(* them are complete and as Parse expects them, the next is not.           *)
Send(side, frames) ==
    /\ Cardinality(path) < PathSlots
    /\ now < MaxTime
    /\ now' = now + 1
    /\ blocks' = [blocks EXCEPT ![side] = @ + Len(frames)]
    /\ \E n \in 1 .. Len(frames) : \E whole \in 0 .. n :
          path' = path \cup {[side |-> side, time |-> now, first |-> blocks[side],
                              frames |-> SubSeq(frames, 1, n), whole |-> whole]}
    /\ output' = {} /\ collected' = {}
    /\ UNCHANGED <<parser, reported, collections, misread, newest, overtaken>>

ClientWrites(ss) ==
    /\ Range(ss) \subseteq {s \in Streams : phase[s] = "idle"} /\ IsInjective(ss)
    /\ phase' = [s \in Streams |-> IF s \in Range(ss) THEN "requested" ELSE phase[s]]
    /\ requestTime' = [s \in Streams |-> IF s \in Range(ss) THEN now ELSE requestTime[s]]
    /\ Send("client", [i \in DOMAIN ss |-> [stream |-> ss[i], kind |-> "request"]])

(* The block a server sends next on a stream: its answer, then its         *)
(* trailers.                                                               *)
After == [requested |-> "answered", answered |-> "closed"]
Block == [requested |-> "response", answered |-> "trailers"]

(* Of two streams, or of one both blocks together.                         *)
ServerSends(frames) ==
    /\ \A i \in DOMAIN frames :
          LET s == frames[i].stream
              before == IF i > 1 /\ frames[1].stream = s THEN After[phase[s]] ELSE phase[s]
          IN  /\ phase[s] \in {"requested", "answered"}
              /\ before \in DOMAIN Block
              /\ frames[i].kind = Block[before]
    /\ phase' = [s \in Streams |->
                    IF [stream |-> s, kind |-> "trailers"] \in Range(frames) THEN "closed"
                    ELSE IF [stream |-> s, kind |-> "response"] \in Range(frames) THEN "answered"
                    ELSE phase[s]]
    /\ UNCHANGED requestTime
    /\ Send("server", frames)

Wait ==
    /\ now < MaxTime
    /\ now' = now + 1
    /\ output' = {} /\ collected' = {}
    /\ UNCHANGED <<phase, requestTime, blocks, path, parser, reported, collections,
                   misread, newest, overtaken>>

Lose(r) ==
    /\ path' = path \ {r}
    /\ output' = {} /\ collected' = {}
    /\ UNCHANGED <<world, parser, reported, collections, misread, newest, overtaken>>

---------------------------------------------------------------------------
(* Parse                                                                   *)

Minus(a, b) == (a + Modulus - b) % Modulus

InSync(r) == decoded[r.side] = r.first

(* The frames from the first that are decoded as they were encoded.        *)
Sound(r)    == IF InSync(r) THEN r.whole ELSE 0
AllSound(r) == InSync(r) /\ r.whole = Len(r.frames)

Seen(r, n) == {r.frames[i].stream : i \in 1 .. n}

(* The streams a payload is taken to be about.  After an error the bytes   *)
(* of the block are taken for frames, of any streams, and what follows may *)
(* be missed.                                                              *)
Named(r, error) ==
    IF error THEN {ss \in SUBSET Streams : Seen(r, Sound(r) + 1) \subseteq ss}
    ELSE {Seen(r, Len(r.frames))}

(* A mistake: every block of a stream begins with no status.               *)
StatusOfLast(frames, s) ==
    IF frames[Max({i \in DOMAIN frames : frames[i].stream = s})].kind = "response"
    THEN Answer[s] ELSE 0

(* The status in a payload: 0 when none of the stream's blocks has one.    *)
StatusIn(frames, s) ==
    IF \E i \in DOMAIN frames : frames[i] = [stream |-> s, kind |-> "response"]
    THEN Answer[s] ELSE 0

(* A decoder out of step gives any status or none.                         *)
Statuses(r, streams) ==
    IF AllSound(r) THEN {[s \in streams |-> StatusIn(r.frames, s)]}
    ELSE [streams -> Range(Answer) \cup {0}]

(* A mistake: the operands swapped.                                        *)
DurationSwapped(r, s) == Minus(activeRequests[s], r.time)

Duration(r, s) == Minus(r.time, activeRequests[s])

(* A mistake: the time of the entry not set.                               *)
OpenedUntimed(r, streams) ==
    [s \in Streams |-> IF activeRequests[s] = None /\ s \in streams THEN 0 ELSE activeRequests[s]]

(* A stream gets an entry with its first block, which later ones keep.     *)
Opened(r, streams) ==
    [s \in Streams |->
        IF activeRequests[s] = None /\ s \in streams THEN r.time ELSE activeRequests[s]]

Found(statuses) == {s \in DOMAIN statuses : activeRequests[s] # None}

(* A mistake: what is reported stays in the table.                         *)
AfterReportKept(found) == activeRequests

AfterReport(found) == [s \in Streams |-> IF s \in found THEN None ELSE activeRequests[s]]

(* A mistake: the operands swapped.                                        *)
ExpiredSwapped(r, table) ==
    {s \in Streams : table[s] # None /\ Minus(table[s], r.time) > GcInterval}

Expired(r, table) == {s \in Streams : table[s] # None /\ Minus(r.time, table[s]) > GcInterval}

(* The collection, which only sets its clock the first time.               *)
Collect(r, table) ==
    IF Minus(r.time, lastGcTime) > GcInterval
    THEN /\ lastGcTime' = r.time
         /\ collected' = IF lastGcTime > 0 THEN Expired(r, table) ELSE {}
         /\ activeRequests' = [s \in Streams |-> IF s \in collected' THEN None ELSE table[s]]
         /\ collections' = IF collections = 2 THEN 2 ELSE collections + 1
    ELSE /\ collected' = {}
         /\ activeRequests' = table
         /\ UNCHANGED <<lastGcTime, collections>>

Decode(r) == decoded' = [decoded EXCEPT ![r.side] =
                            IF AllSound(r) THEN r.first + Len(r.frames) ELSE None]

ParseClient(r, streams) ==
    /\ r.side = "client"
    /\ Collect(r, Opened(r, streams))
    /\ output' = {}
    /\ UNCHANGED reported

ParseServer(r, streams) ==
    /\ r.side = "server"
    /\ \E statuses \in Statuses(r, streams) :
          /\ output' = {[stream |-> s, status |-> statuses[s], duration |-> Duration(r, s)] :
                          s \in Found(statuses)}
          /\ reported' = reported \cup Found(statuses)
          /\ Collect(r, AfterReport(Found(statuses)))

Parse(r) ==
    /\ path' = path \ {r}
    /\ Decode(r)
    /\ \E error \in BOOLEAN :
          /\ error => ~ AllSound(r)
          /\ misread' = misread \cup IF error THEN {r.side} ELSE {}
          /\ \E streams \in Named(r, error) : ParseClient(r, streams) \/ ParseServer(r, streams)
    /\ newest' = IF r.time > newest THEN r.time ELSE newest
    /\ overtaken' = (overtaken \/ r.time < newest)
    /\ UNCHANGED world

Next ==
    \/ \E ss \in SeqOf(Streams, 2) \ {<<>>} : ClientWrites(ss)
    \/ \E frames \in Payload \ {<<>>} : ServerSends(frames)
    \/ Wait
    \/ \E r \in path : Lose(r) \/ Parse(r)

Spec == Init /\ [][Next]_vars

---------------------------------------------------------------------------
(* Properties                                                              *)

(* Every variable stays in its type; an entry has the time of its stream's *)
(* request, unless it was made of something else (http2.go:25-40, 122).    *)
TypeOK ==
    /\ now \in 1 .. MaxTime
    /\ phase \in [Streams -> {"idle", "requested", "answered", "closed"}]
    /\ path \subseteq Record
    /\ \A d \in Sides : decoded[d] \in 0 .. blocks[d] \cup {None}
    /\ activeRequests \in [Streams -> 1 .. MaxTime \cup {None}]
    /\ "client" \notin misread => \A s \in Streams : activeRequests[s] \in {None, requestTime[s]}
    /\ lastGcTime \in 0 .. MaxTime
    /\ output \subseteq Result
    /\ collected \subseteq Streams /\ reported \subseteq Streams

(* A stream is reported once, however many blocks the server sends on it,  *)
(* in whatever order the records arrive and whatever the server's blocks   *)
(* are taken for, until a block of the client's that cannot be decoded is  *)
(* taken for frames, which may open the stream again (http2.go:83-87,      *)
(* 122-124, 128-137).                                                      *)
ReportedOnce ==
    [][\A r \in output' : "client" \in misread \/ r.stream \notin reported]_vars

(* As long as the decoder has seen every block whole and as it is expected *)
(* and no record was overtaken, a stream is reported with the status its   *)
(* own server answered, although several streams share a payload, trailers *)
(* have no status and requests are lost or cut (http2.go:106-117, 128-135).*)
StatusIsOwn ==
    (decoded["server"] # None /\ misread = {} /\ ~ overtaken) =>
        \A r \in output : r.status = Answer[r.stream]

(* A duration is never negative modulo 2^64: whatever is lost, cut or      *)
(* overtaken, what ends a stream's entry was sent after what began it, if  *)
(* nothing but frames was taken for frames (http2.go:134).                 *)
DurationsArePositive ==
    misread = {} =>
        \A r \in output : r.duration \in 1 .. now - requestTime[r.stream]

(* While records come in order, only requests without an answer for the    *)
(* whole interval are given up; and after two collections the table holds  *)
(* nothing that was too old at the last, so that lost answers do not fill  *)
(* it, nor what was no request at all (http2.go:140-149).                  *)
CollectionIsExact ==
    ~ overtaken =>
        /\ "client" \notin misread => \A s \in collected : newest - requestTime[s] > GcInterval
        /\ collections = 2 =>
              \A s \in Streams : activeRequests[s] # None =>
                                    lastGcTime <= activeRequests[s] + GcInterval

=============================================================================
