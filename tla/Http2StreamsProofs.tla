------------------------- MODULE Http2StreamsProofs -------------------------
(***************************************************************************)
(* What http2.go shows of a request, for any streams, times, losses and    *)
(* any number of records on their way.                                     *)
(***************************************************************************)
EXTENDS Http2Streams, TLAPS

---------------------------------------------------------------------------
(* The inductive invariant                                                 *)

(* The sets of the variables TypeOK leaves open; no clock of the parser is *)
(* ahead of what it has read, nor that of the kernel's.                    *)
ClocksAgree ==
    /\ requestTime \in [Streams -> 1 .. MaxTime \cup {None}]
    /\ \A s \in Streams : requestTime[s] # None => requestTime[s] < now
    /\ blocks \in [Sides -> Nat] /\ decoded \in [Sides -> Nat \cup {None}]
    /\ activeRequests \in [Streams -> 1 .. MaxTime \cup {None}]
    /\ newest \in 0 .. MaxTime /\ newest < now
    /\ lastGcTime <= newest
    /\ misread \subseteq Sides
    /\ overtaken \in BOOLEAN
    /\ collections \in 0 .. 2
    /\ collections # 0 => lastGcTime > 0
    /\ \A s \in Streams : activeRequests[s] # None => activeRequests[s] <= newest

(* A record has blocks that were sent, and a time of its own.              *)
RecordsAreSent ==
    /\ \A r \in path : /\ r.time < now
                       /\ r.first + Len(r.frames) <= blocks[r.side]
    /\ \A q, r \in path : q.time = r.time => q = r

(* What a record says of a stream: a client's when it was requested, a     *)
(* server's that it was requested before and how far it got.               *)
FramesAgree ==
    \A r \in path : \A i \in DOMAIN r.frames :
        LET s == r.frames[i].stream IN
        /\ requestTime[s] # None
        /\ r.side = "client" => r.frames[i].kind = "request" /\ requestTime[s] = r.time
        /\ r.side = "server" => r.frames[i].kind # "request" /\ requestTime[s] < r.time
        /\ r.frames[i].kind = "trailers" => phase[s] = "closed"

(* Of a stream's request only one record can tell, and none does once it   *)
(* has an entry or was reported.                                           *)
RequestsAreTimed == \A s \in Streams : phase[s] = "idle" <=> requestTime[s] = None

OpenedOnce ==
    "client" \notin misread =>
        \A s \in Streams :
            /\ s \in reported => activeRequests[s] = None /\ requestTime[s] # None
            /\ (s \in reported \/ activeRequests[s] # None) =>
                  \A r \in path : r.side = "client" =>
                     \A i \in DOMAIN r.frames : r.frames[i].stream # s

(* The decoder has seen the block of a stream's answer, which ended the    *)
(* entry; or block b is the answer, the decoder is before it, and trailers *)
(* that come without it come after it.                                     *)
AnswerSeen(s) == activeRequests[s] = None /\ newest > requestTime[s]

AnswerAt(s, b) ==
    /\ decoded["server"] <= b /\ b < blocks["server"]
    /\ \A r \in path : r.side = "server" =>
          /\ r.first <= b /\ b < r.first + Len(r.frames) =>
                r.frames[b - r.first + 1] = [stream |-> s, kind |-> "response"]
          /\ (\E i \in DOMAIN r.frames : r.frames[i] = [stream |-> s, kind |-> "trailers"]) =>
                \/ r.first > b
                \/ \E i \in DOMAIN r.frames : r.frames[i] = [stream |-> s, kind |-> "response"]

AnswersComeFirst ==
    (decoded["server"] # None /\ misread = {} /\ ~ overtaken) =>
        \A s \in Streams : phase[s] \in {"answered", "closed"} =>
            AnswerSeen(s) \/ \E b \in Nat : AnswerAt(s, b)

IInv ==
    /\ TypeOK /\ ClocksAgree /\ RecordsAreSent /\ FramesAgree /\ RequestsAreTimed /\ OpenedOnce
    /\ AnswersComeFirst
    /\ StatusIsOwn /\ DurationsArePositive /\ CollectionIsExact

---------------------------------------------------------------------------
(* Payloads and times                                                      *)

LEMMA PayloadsAreSequences ==
    ASSUME NEW f \in Payload
    PROVE  f \in Seq(Frame) /\ Len(f) \in 0 .. 2 /\ DOMAIN f = 1 .. Len(f)
<1>1. PICK m \in 0 .. 2 : f \in [1 .. m -> Frame]
  BY DEF Payload, SeqOf
<1>2. \A F : \A g \in [1 .. m -> F] : g \in Seq(F) /\ Len(g) = m /\ DOMAIN g = 1 .. m
  BY <1>1
<1> QED
  BY <1>1, <1>2

LEMMA PrefixesArePayloads ==
    ASSUME NEW f \in Payload, NEW n \in 1 .. Len(f)
    PROVE  /\ SubSeq(f, 1, n) \in Payload
           /\ Len(SubSeq(f, 1, n)) = n /\ DOMAIN SubSeq(f, 1, n) = 1 .. n
           /\ \A i \in 1 .. n : SubSeq(f, 1, n)[i] = f[i]
<1> DEFINE g == SubSeq(f, 1, n)
<1>1. f \in Seq(Frame) /\ Len(f) \in 0 .. 2
  BY PayloadsAreSequences
<1>2. g \in Seq(Frame) /\ Len(g) = n /\ \A i \in 1 .. n : g[i] = f[i]
  BY <1>1
<1>3. \A F : \A h \in Seq(F) : h \in [1 .. Len(h) -> F]
  OBVIOUS
<1>4. g \in [1 .. n -> Frame]
  <2> HIDE DEF g
  <2> QED
    BY <1>2, <1>3
<1>5. n \in 0 .. 2
  <2>1. \A k \in 0 .. 2 : \A m \in 1 .. k : m \in 0 .. 2
    OBVIOUS
  <2> QED
    BY <1>1, <2>1
<1> QED
  BY <1>2, <1>4, <1>5 DEF Payload, SeqOf

(* The subtraction of uint64 is the ordinary one when it is of an earlier  *)
(* time.                                                                   *)
LEMMA MinusOfEarlier ==
    ASSUME NEW a \in 0 .. MaxTime, NEW b \in 0 .. a
    PROVE  Minus(a, b) = a - b
BY TimeAssumption DEF Minus

LEMMA MinusIsBounded ==
    ASSUME NEW a \in 0 .. MaxTime, NEW b \in 0 .. MaxTime
    PROVE  Minus(a, b) \in 0 .. Modulus - 1
<1>1. Modulus \in Nat \ {0} /\ a + Modulus - b \in Int
  BY TimeAssumption
<1>2. \A k \in Int, m \in Nat \ {0} : k % m \in 0 .. m - 1
  OBVIOUS
<1> QED
  BY <1>1, <1>2 DEF Minus

---------------------------------------------------------------------------
(* The connection                                                          *)

LEMMA InitInvariant == Init => IInv
<1> SUFFICES ASSUME Init
             PROVE  IInv
  OBVIOUS
<1>1. TypeOK
  BY TimeAssumption DEF Init, TypeOK
<1>2. ClocksAgree
  <2>1. overtaken \in BOOLEAN
    BY DEF Init
  <2>2. requestTime \in [Streams -> 1 .. MaxTime \cup {None}]
        /\ activeRequests \in [Streams -> 1 .. MaxTime \cup {None}]
    BY DEF Init
  <2>3. blocks \in [Sides -> Nat] /\ decoded \in [Sides -> Nat \cup {None}]
    BY DEF Init
  <2> QED
    BY <2>1, <2>2, <2>3, TimeAssumption DEF Init, ClocksAgree
<1>3. RecordsAreSent /\ FramesAgree /\ OpenedOnce /\ AnswersComeFirst
  BY DEF Init, RecordsAreSent, FramesAgree, OpenedOnce, AnswersComeFirst
<1>3a. RequestsAreTimed
  BY DEF Init, RequestsAreTimed
<1>4. StatusIsOwn /\ DurationsArePositive /\ CollectionIsExact
  BY DEF Init, StatusIsOwn, DurationsArePositive, CollectionIsExact
<1> QED
  BY <1>1, <1>2, <1>3, <1>3a, <1>4 DEF IInv

(* What a record sent is, and where it goes.                               *)
LEMMA SendMakesRecord ==
    ASSUME IInv, NEW side \in Sides, NEW frames \in Payload, Send(side, frames)
    PROVE  \E r \in Record :
              /\ path' = path \cup {r}
              /\ r.side = side /\ r.time = now /\ r.first = blocks[side]
              /\ Len(r.frames) \in 1 .. Len(frames)
              /\ DOMAIN r.frames = 1 .. Len(r.frames)
              /\ \A i \in DOMAIN r.frames : i \in DOMAIN frames /\ r.frames[i] = frames[i]
<1>0. PICK n \in 1 .. Len(frames) : \E whole \in 0 .. n :
         path' = path \cup {[side |-> side, time |-> now, first |-> blocks[side],
                             frames |-> SubSeq(frames, 1, n), whole |-> whole]}
  BY DEF Send
<1>1. PICK whole \in 0 .. n :
         path' = path \cup {[side |-> side, time |-> now, first |-> blocks[side],
                             frames |-> SubSeq(frames, 1, n), whole |-> whole]}
  BY <1>0
<1> DEFINE r == [side |-> side, time |-> now, first |-> blocks[side],
                 frames |-> SubSeq(frames, 1, n), whole |-> whole]
<1>2. /\ SubSeq(frames, 1, n) \in Payload
      /\ Len(SubSeq(frames, 1, n)) = n /\ DOMAIN SubSeq(frames, 1, n) = 1 .. n
      /\ \A i \in 1 .. n : SubSeq(frames, 1, n)[i] = frames[i]
  BY PrefixesArePayloads
<1>3. Len(frames) \in 0 .. 2 /\ DOMAIN frames = 1 .. Len(frames)
  BY PayloadsAreSequences
<1>4. r \in Record
  <2>1. whole \in 0 .. 2
    BY <1>3
  <2> QED
    BY <1>2, <2>1 DEF Record, IInv, TypeOK, ClocksAgree
<1>5. /\ r.side = side /\ r.time = now /\ r.first = blocks[side]
      /\ Len(r.frames) \in 1 .. Len(frames)
      /\ DOMAIN r.frames = 1 .. Len(r.frames)
      /\ \A i \in DOMAIN r.frames : i \in DOMAIN frames /\ r.frames[i] = frames[i]
  BY <1>2, <1>3
<1> QED
  BY <1>1, <1>4, <1>5

(* What Send does but to the path.                                         *)
LEMMA SendKeeps ==
    ASSUME IInv, NEW side \in Sides, NEW frames \in Payload, Send(side, frames)
    PROVE  /\ now' = now + 1 /\ now' \in 1 .. MaxTime
           /\ blocks' \in [Sides -> Nat]
           /\ \A d \in Sides : blocks[d] <= blocks'[d]
           /\ blocks'[side] = blocks[side] + Len(frames)
           /\ output' = {} /\ collected' = {}
           /\ UNCHANGED <<decoded, activeRequests, lastGcTime>>
           /\ UNCHANGED <<reported, collections, misread, newest, overtaken>>
<1>1. Len(frames) \in 0 .. 2
  BY PayloadsAreSequences
<1> QED
  BY <1>1, TimeAssumption DEF Send, IInv, TypeOK, ClocksAgree, parser

(* A record in the path has a payload.                                     *)
LEMMA RecordsHavePayloads ==
    ASSUME TypeOK, NEW r \in path
    PROVE  /\ r \in Record /\ r.time \in 1 .. MaxTime /\ r.first \in Nat /\ r.side \in Sides
           /\ r.frames \in Payload /\ Len(r.frames) \in 0 .. 2
           /\ DOMAIN r.frames = 1 .. Len(r.frames)
           /\ \A i \in DOMAIN r.frames : r.frames[i] \in Frame
BY PayloadsAreSequences DEF TypeOK, Record

LEMMA SentAreOfRecord ==
    ASSUME IInv, NEW side \in Sides, NEW frames \in Payload, Send(side, frames)
    PROVE  RecordsAreSent'
<1>1. PICK r \in Record :
              /\ path' = path \cup {r}
              /\ r.side = side /\ r.time = now /\ r.first = blocks[side]
              /\ Len(r.frames) \in 1 .. Len(frames)
  BY SendMakesRecord
<1>2. /\ now' = now + 1
      /\ blocks' \in [Sides -> Nat]
      /\ \A d \in Sides : blocks[d] <= blocks'[d]
      /\ blocks'[side] = blocks[side] + Len(frames)
  BY SendKeeps
<1>3. Len(frames) \in 0 .. 2 /\ now \in Nat /\ blocks \in [Sides -> Nat]
  BY PayloadsAreSequences DEF IInv, TypeOK, ClocksAgree
<1>4. \A q \in path : /\ q.time \in Nat /\ q.first \in Nat /\ Len(q.frames) \in Nat /\ q.side \in Sides
                      /\ q.time < now /\ q.first + Len(q.frames) <= blocks[q.side]
  BY RecordsHavePayloads DEF IInv, RecordsAreSent
<1>5. \A q \in path' : q.time < now' /\ q.first + Len(q.frames) <= blocks'[q.side]
  <2> SUFFICES ASSUME NEW q \in path'
               PROVE  q.time < now' /\ q.first + Len(q.frames) <= blocks'[q.side]
    OBVIOUS
  <2>1. CASE q \in path
    <3>1. blocks[q.side] <= blocks'[q.side] /\ blocks[q.side] \in Nat /\ blocks'[q.side] \in Nat
      BY <1>2, <1>3, <1>4, <2>1
    <3> QED
      BY <1>2, <1>3, <1>4, <2>1, <3>1
  <2>2. CASE q = r
    BY <1>1, <1>2, <1>3, <2>2
  <2> QED
    BY <1>1, <2>1, <2>2
<1>6. \A p, q \in path' : p.time = q.time => p = q
  BY <1>1, <1>3, <1>4 DEF IInv, RecordsAreSent
<1> QED
  BY <1>5, <1>6 DEF RecordsAreSent

(* What the history and the results of a step that parses nothing are.     *)
LEMMA NothingParsed ==
    ASSUME IInv, UNCHANGED <<decoded, activeRequests, lastGcTime>>,
           UNCHANGED <<reported, collections, misread, newest, overtaken>>,
           output' = {}, collected' = {}
    PROVE  StatusIsOwn' /\ DurationsArePositive' /\ CollectionIsExact'
<1>1. StatusIsOwn' /\ DurationsArePositive'
  BY DEF StatusIsOwn, DurationsArePositive
<1>2. CollectionIsExact'
  BY DEF IInv, CollectionIsExact
<1> QED
  BY <1>1, <1>2

LEMMA ClientWritesPreserves ==
    ASSUME IInv, NEW ss \in SeqOf(Streams, 2) \ {<<>>}, ClientWrites(ss)
    PROVE  IInv'
<1> DEFINE frames == [i \in DOMAIN ss |-> [stream |-> ss[i], kind |-> "request"]]
<1>1. /\ Range(ss) \subseteq {s \in Streams : phase[s] = "idle"}
      /\ phase' = [s \in Streams |-> IF s \in Range(ss) THEN "requested" ELSE phase[s]]
      /\ requestTime' = [s \in Streams |-> IF s \in Range(ss) THEN now ELSE requestTime[s]]
      /\ Send("client", frames)
  BY DEF ClientWrites
<1>2. PICK m \in 0 .. 2 : ss \in [1 .. m -> Streams]
  BY DEF SeqOf
<1>3. frames \in [1 .. m -> Frame]
  BY <1>2 DEF Frame
<1>4. frames \in Payload
  BY <1>2, <1>3 DEF Payload, SeqOf
<1>5. "client" \in Sides
  BY DEF Sides
<1>6. \A i \in DOMAIN frames : frames[i].kind = "request" /\ frames[i].stream \in Range(ss)
  BY <1>2 DEF Range
<1> HIDE DEF frames
<1>7. PICK r \in Record :
         /\ path' = path \cup {r}
         /\ r.side = "client" /\ r.time = now /\ r.first = blocks["client"]
         /\ Len(r.frames) \in 1 .. Len(frames)
         /\ DOMAIN r.frames = 1 .. Len(r.frames)
         /\ \A i \in DOMAIN r.frames : i \in DOMAIN frames /\ r.frames[i] = frames[i]
  BY <1>1, <1>4, <1>5, SendMakesRecord
<1>8. \A i \in DOMAIN r.frames : r.frames[i].kind = "request" /\ r.frames[i].stream \in Range(ss)
  BY <1>6, <1>7
<1>9. /\ now' = now + 1 /\ now' \in 1 .. MaxTime /\ now \in 1 .. MaxTime
      /\ blocks' \in [Sides -> Nat]
      /\ \A d \in Sides : blocks[d] <= blocks'[d]
      /\ output' = {} /\ collected' = {}
      /\ UNCHANGED <<decoded, activeRequests, lastGcTime>>
      /\ UNCHANGED <<reported, collections, misread, newest, overtaken>>
  BY <1>1, <1>4, <1>5, SendKeeps DEF IInv, TypeOK
<1>10. \A s \in Range(ss) :
          /\ s \in Streams /\ phase[s] = "idle" /\ requestTime[s] = None
          /\ "client" \notin misread => s \notin reported /\ activeRequests[s] = None
  BY <1>1 DEF IInv, RequestsAreTimed, OpenedOnce, TypeOK
<1>11. TypeOK'
  <2>1. phase' \in [Streams -> {"idle", "requested", "answered", "closed"}]
    BY <1>1 DEF IInv, TypeOK
  <2>2. \A d \in Sides : decoded'[d] \in 0 .. blocks'[d] \cup {None}
    BY <1>9 DEF IInv, TypeOK, ClocksAgree
  <2>3. "client" \notin misread' =>
           \A s \in Streams : activeRequests'[s] \in {None, requestTime'[s]}
    BY <1>1, <1>9, <1>10 DEF IInv, TypeOK
  <2> QED
    BY <2>1, <2>2, <2>3, <1>7, <1>9 DEF IInv, TypeOK
<1>12. ClocksAgree'
  <2>1. requestTime' \in [Streams -> 1 .. MaxTime \cup {None}]
    BY <1>1, <1>9 DEF IInv, ClocksAgree
  <2>2. \A s \in Streams : requestTime'[s] # None => requestTime'[s] < now'
    BY <1>1, <1>9 DEF IInv, ClocksAgree
  <2> QED
    BY <2>1, <2>2, <1>9 DEF IInv, ClocksAgree
<1>13. RecordsAreSent'
  BY <1>1, <1>4, <1>5, SentAreOfRecord
<1>14. FramesAgree'
  <2> SUFFICES ASSUME NEW q \in path', NEW i \in DOMAIN q.frames
               PROVE  LET s == q.frames[i].stream IN
                      /\ requestTime'[s] # None
                      /\ q.side = "client" => q.frames[i].kind = "request" /\ requestTime'[s] = q.time
                      /\ q.side = "server" => q.frames[i].kind # "request" /\ requestTime'[s] < q.time
                      /\ q.frames[i].kind = "trailers" => phase'[s] = "closed"
    BY DEF FramesAgree
  <2>1. CASE q \in path
    <3>1. q.frames[i].stream \in Streams
      BY <2>1, RecordsHavePayloads DEF IInv, Frame
    <3>2. requestTime[q.frames[i].stream] # None
      BY <2>1 DEF IInv, FramesAgree
    <3>3. q.frames[i].stream \notin Range(ss)
      BY <3>2, <1>10
    <3> QED
      BY <2>1, <3>1, <3>3, <1>1 DEF IInv, FramesAgree
  <2>2. CASE q = r
    BY <2>2, <1>1, <1>7, <1>8, <1>9, <1>10, NoneAssumption
  <2> QED
    BY <2>1, <2>2, <1>7
<1>15a. RequestsAreTimed'
  BY <1>1, <1>9, NoneAssumption DEF IInv, RequestsAreTimed
<1>15. OpenedOnce'
  <2> SUFFICES ASSUME "client" \notin misread, NEW s \in Streams
               PROVE  /\ s \in reported => activeRequests[s] = None /\ requestTime'[s] # None
                      /\ (s \in reported \/ activeRequests[s] # None) =>
                            \A q \in path' : q.side = "client" =>
                               \A i \in DOMAIN q.frames : q.frames[i].stream # s
    BY <1>9 DEF OpenedOnce
  <2>1. CASE s \in Range(ss)
    BY <2>1, <1>1, <1>9, <1>10, NoneAssumption
  <2>2. CASE s \notin Range(ss)
    BY <2>2, <1>1, <1>7, <1>8 DEF IInv, OpenedOnce
  <2> QED
    BY <2>1, <2>2
<1>16. AnswersComeFirst'
  <2> SUFFICES ASSUME decoded["server"] # None, misread = {}, ~ overtaken,
                      NEW s \in Streams, phase'[s] \in {"answered", "closed"}
               PROVE  AnswerSeen(s)' \/ \E b \in Nat : AnswerAt(s, b)'
    BY <1>9 DEF AnswersComeFirst, AnswerSeen, AnswerAt
  <2>1. s \notin Range(ss) /\ phase[s] \in {"answered", "closed"} /\ requestTime'[s] = requestTime[s]
    BY <1>1
  <2>2. CASE AnswerSeen(s)
    BY <2>1, <2>2, <1>9 DEF AnswerSeen
  <2>3. ASSUME NEW b \in Nat, AnswerAt(s, b)
        PROVE  AnswerAt(s, b)'
    <3>1. blocks["server"] <= blocks'["server"] /\ blocks["server"] \in Nat /\ blocks'["server"] \in Nat
      BY <1>9 DEF Sides, IInv, ClocksAgree
    <3> QED
      BY <2>3, <3>1, <1>7, <1>9 DEF AnswerAt
  <2> QED
    BY <2>1, <2>2, <2>3 DEF IInv, AnswersComeFirst
<1>17. StatusIsOwn' /\ DurationsArePositive' /\ CollectionIsExact'
  BY <1>9, NothingParsed
<1> QED
  BY <1>11, <1>12, <1>13, <1>14, <1>15, <1>15a, <1>16, <1>17 DEF IInv

(* What a server sends: answers of streams that have none, trailers of     *)
(* streams that had or have now one, and what the streams become.          *)
LEMMA BlocksFollow ==
    ASSUME TypeOK, NEW frames \in Payload, ServerSends(frames)
    PROVE  /\ \A i \in DOMAIN frames :
                 LET s == frames[i].stream IN
                 /\ s \in Streams /\ phase[s] \in {"requested", "answered"}
                 /\ frames[i].kind \in {"response", "trailers"}
                 /\ frames[i].kind = "response" => phase[s] = "requested"
                 /\ frames[i].kind = "trailers" => phase'[s] = "closed"
                 /\ frames[i].kind = "trailers" /\ phase[s] = "requested" =>
                       i = 2 /\ frames[1] = [stream |-> s, kind |-> "response"]
           /\ phase' \in [Streams -> {"idle", "requested", "answered", "closed"}]
           /\ \A s \in Streams :
                 /\ phase'[s] = "idle" <=> phase[s] = "idle"
                 /\ phase[s] = "closed" => phase'[s] = "closed"
                 /\ phase'[s] \in {"answered", "closed"} =>
                       \/ phase[s] \in {"answered", "closed"}
                       \/ \E i \in DOMAIN frames :
                             frames[i] = [stream |-> s, kind |-> "response"]
<1>1. /\ Len(frames) \in 0 .. 2 /\ DOMAIN frames = 1 .. Len(frames)
      /\ \A i \in DOMAIN frames : frames[i] \in Frame
  BY PayloadsAreSequences
<1>2. /\ DOMAIN Block = {"requested", "answered"}
      /\ Block["requested"] = "response" /\ Block["answered"] = "trailers"
      /\ After["requested"] = "answered" /\ After["answered"] = "closed"
  BY DEF Block, After
<1>3. ASSUME NEW i \in DOMAIN frames
      PROVE  LET s == frames[i].stream IN
             /\ s \in Streams /\ phase[s] \in {"requested", "answered"}
             /\ frames[i].kind \in {"response", "trailers"}
             /\ frames[i].kind = "response" => phase[s] = "requested"
             /\ frames[i].kind = "trailers" /\ phase[s] = "requested" =>
                   i = 2 /\ frames[1] = [stream |-> s, kind |-> "response"]
  <2> DEFINE s == frames[i].stream
             before == IF i > 1 /\ frames[1].stream = s THEN After[phase[s]] ELSE phase[s]
  <2>1. /\ phase[s] \in {"requested", "answered"}
        /\ before \in DOMAIN Block
        /\ frames[i].kind = Block[before]
    BY DEF ServerSends
  <2>2. s \in Streams
    BY <1>1 DEF Frame
  <2>3. CASE ~ (i > 1 /\ frames[1].stream = s)
    BY <2>1, <2>2, <2>3, <1>2
  <2>4. CASE i > 1 /\ frames[1].stream = s
    <3>1. phase[s] = "requested" /\ frames[i].kind = "trailers" /\ i = 2
      BY <2>1, <2>4, <1>1, <1>2
    <3>2. 1 \in DOMAIN frames /\ frames[1].kind = "response"
      <4>1. 1 \in DOMAIN frames
        BY <1>1, <3>1
      <4>2. frames[1].kind = Block[phase[s]]
        BY <4>1, <2>4 DEF ServerSends
      <4> QED
        BY <4>1, <4>2, <3>1, <1>2
    <3>3. frames[1] = [stream |-> s, kind |-> "response"]
      BY <3>2, <2>4, <1>1 DEF Frame
    <3> QED
      BY <2>2, <3>1, <3>3
  <2> QED
    BY <2>3, <2>4
<1>4. ASSUME NEW s \in Streams
      PROVE  phase'[s] = IF [stream |-> s, kind |-> "trailers"] \in Range(frames) THEN "closed"
                         ELSE IF [stream |-> s, kind |-> "response"] \in Range(frames)
                         THEN "answered" ELSE phase[s]
  BY DEF ServerSends
<1>5. \A f : f \in Range(frames) <=> \E i \in DOMAIN frames : f = frames[i]
  BY DEF Range
<1>6. ASSUME NEW i \in DOMAIN frames, frames[i].kind = "trailers"
      PROVE  phase'[frames[i].stream] = "closed"
  <2>1. frames[i] = [stream |-> frames[i].stream, kind |-> "trailers"]
        /\ frames[i].stream \in Streams
    BY <1>1, <1>6 DEF Frame
  <2> QED
    BY <2>1, <1>4, <1>5
<1>7. ASSUME NEW s \in Streams
      PROVE  /\ phase'[s] = "idle" <=> phase[s] = "idle"
             /\ phase[s] = "closed" => phase'[s] = "closed"
             /\ phase'[s] \in {"answered", "closed"} =>
                   \/ phase[s] \in {"answered", "closed"}
                   \/ \E i \in DOMAIN frames :
                         frames[i] = [stream |-> s, kind |-> "response"]
  <2>1. CASE \E i \in DOMAIN frames : frames[i].stream = s
    <3>1. PICK i \in DOMAIN frames : frames[i].stream = s
      BY <2>1
    <3>2. CASE frames[i].kind = "trailers"
      <4>1. phase[s] = "requested" => 1 \in DOMAIN frames
        BY <1>1, <1>3, <3>1, <3>2
      <4> QED
        BY <1>3, <1>6, <3>1, <3>2, <4>1
    <3>3. CASE frames[i].kind = "response"
      <4>1. phase[s] = "requested" /\ frames[i] = [stream |-> s, kind |-> "response"]
        BY <1>1, <1>3, <3>1, <3>3 DEF Frame
      <4> QED
        BY <1>4, <1>5, <4>1
    <3> QED
      BY <1>3, <3>1, <3>2, <3>3
  <2>2. CASE ~ \E i \in DOMAIN frames : frames[i].stream = s
    <3>1. [stream |-> s, kind |-> "trailers"] \notin Range(frames)
          /\ [stream |-> s, kind |-> "response"] \notin Range(frames)
      BY <1>5, <2>2
    <3> QED
      BY <1>4, <3>1
  <2> QED
    BY <2>1, <2>2
<1>8. phase' \in [Streams -> {"idle", "requested", "answered", "closed"}]
  BY DEF ServerSends, TypeOK
<1> QED
  BY <1>3, <1>6, <1>7, <1>8

LEMMA ServerSendsPreserves ==
    ASSUME IInv, NEW frames \in Payload \ {<<>>}, ServerSends(frames)
    PROVE  IInv'
<1>1. Send("server", frames) /\ requestTime' = requestTime
  BY DEF ServerSends
<1>2. "server" \in Sides
  BY DEF Sides
<1>3. PICK r \in Record :
         /\ path' = path \cup {r}
         /\ r.side = "server" /\ r.time = now /\ r.first = blocks["server"]
         /\ Len(r.frames) \in 1 .. Len(frames)
         /\ DOMAIN r.frames = 1 .. Len(r.frames)
         /\ \A i \in DOMAIN r.frames : i \in DOMAIN frames /\ r.frames[i] = frames[i]
  BY <1>1, <1>2, SendMakesRecord
<1>4. /\ now' = now + 1 /\ now' \in 1 .. MaxTime /\ now \in 1 .. MaxTime
      /\ blocks' \in [Sides -> Nat] /\ blocks \in [Sides -> Nat]
      /\ \A d \in Sides : blocks[d] <= blocks'[d]
      /\ blocks'["server"] = blocks["server"] + Len(frames)
      /\ output' = {} /\ collected' = {}
      /\ UNCHANGED <<decoded, activeRequests, lastGcTime>>
      /\ UNCHANGED <<reported, collections, misread, newest, overtaken>>
  BY <1>1, <1>2, SendKeeps DEF IInv, TypeOK, ClocksAgree
<1>5. /\ Len(frames) \in 0 .. 2 /\ DOMAIN frames = 1 .. Len(frames)
  BY PayloadsAreSequences
<1>6. \A i \in DOMAIN frames :
         LET s == frames[i].stream IN
         /\ s \in Streams /\ phase[s] \in {"requested", "answered"}
         /\ frames[i].kind \in {"response", "trailers"}
         /\ frames[i].kind = "response" => phase[s] = "requested"
         /\ frames[i].kind = "trailers" => phase'[s] = "closed"
         /\ frames[i].kind = "trailers" /\ phase[s] = "requested" =>
               i = 2 /\ frames[1] = [stream |-> s, kind |-> "response"]
  BY BlocksFollow DEF IInv
<1>7. /\ phase' \in [Streams -> {"idle", "requested", "answered", "closed"}]
      /\ \A s \in Streams :
            /\ phase'[s] = "idle" <=> phase[s] = "idle"
            /\ phase[s] = "closed" => phase'[s] = "closed"
            /\ phase'[s] \in {"answered", "closed"} =>
                  \/ phase[s] \in {"answered", "closed"}
                  \/ \E i \in DOMAIN frames : frames[i] = [stream |-> s, kind |-> "response"]
  BY BlocksFollow DEF IInv
<1>8. TypeOK'
  <2>1. \A d \in Sides : decoded'[d] \in 0 .. blocks'[d] \cup {None}
    BY <1>4 DEF IInv, TypeOK
  <2> QED
    BY <2>1, <1>1, <1>3, <1>4, <1>7 DEF IInv, TypeOK
<1>9. ClocksAgree'
  BY <1>1, <1>4 DEF IInv, ClocksAgree
<1>10. RecordsAreSent'
  BY <1>1, <1>2, SentAreOfRecord
<1>11. FramesAgree'
  <2> SUFFICES ASSUME NEW q \in path', NEW i \in DOMAIN q.frames
               PROVE  LET s == q.frames[i].stream IN
                      /\ requestTime[s] # None
                      /\ q.side = "client" => q.frames[i].kind = "request" /\ requestTime[s] = q.time
                      /\ q.side = "server" => q.frames[i].kind # "request" /\ requestTime[s] < q.time
                      /\ q.frames[i].kind = "trailers" => phase'[s] = "closed"
    BY <1>1 DEF FramesAgree
  <2>1. CASE q \in path
    <3>1. q.frames[i].stream \in Streams
      BY <2>1, RecordsHavePayloads DEF IInv, Frame
    <3> QED
      BY <2>1, <3>1, <1>7 DEF IInv, FramesAgree
  <2>2. CASE q = r
    <3>1. i \in DOMAIN frames /\ q.frames[i] = frames[i]
      BY <2>2, <1>3
    <3>2. frames[i].stream \in Streams /\ requestTime[frames[i].stream] # None
          /\ requestTime[frames[i].stream] < now
      BY <3>1, <1>6 DEF IInv, RequestsAreTimed, ClocksAgree
    <3> QED
      BY <2>2, <3>1, <3>2, <1>3, <1>6
  <2> QED
    BY <2>1, <2>2, <1>3
<1>12. OpenedOnce' /\ RequestsAreTimed'
  BY <1>1, <1>3, <1>4, <1>7 DEF IInv, OpenedOnce, RequestsAreTimed
<1>13. AnswersComeFirst'
  <2> SUFFICES ASSUME decoded["server"] # None, misread = {}, ~ overtaken,
                      NEW s \in Streams, phase'[s] \in {"answered", "closed"}
               PROVE  AnswerSeen(s)' \/ \E b \in Nat : AnswerAt(s, b)'
    BY <1>4 DEF AnswersComeFirst, AnswerSeen, AnswerAt
  <2>1. CASE AnswerSeen(s)
    BY <2>1, <1>1, <1>4 DEF AnswerSeen
  <2>2. ASSUME NEW b \in Nat, AnswerAt(s, b)
        PROVE  AnswerAt(s, b)'
    <3>1. r.first > b /\ b < blocks'["server"]
      BY <2>2, <1>2, <1>3, <1>4 DEF AnswerAt
    <3>2. /\ decoded'["server"] <= b
          /\ \A q \in path : q.side = "server" =>
                /\ q.first <= b /\ b < q.first + Len(q.frames) =>
                      q.frames[b - q.first + 1] = [stream |-> s, kind |-> "response"]
                /\ (\E i \in DOMAIN q.frames : q.frames[i] = [stream |-> s, kind |-> "trailers"]) =>
                      \/ q.first > b
                      \/ \E i \in DOMAIN q.frames : q.frames[i] = [stream |-> s, kind |-> "response"]
      BY <2>2, <1>4 DEF AnswerAt
    <3>3. ~ (r.first <= b)
      BY <3>1, <1>2, <1>3, <1>4
    <3> QED
      BY <3>1, <3>2, <3>3, <1>3 DEF AnswerAt
  <2>3. CASE phase[s] \notin {"answered", "closed"}
    <3>1. PICK i \in DOMAIN frames : frames[i] = [stream |-> s, kind |-> "response"]
      BY <2>3, <1>7
    <3>2. phase[s] = "requested"
      BY <3>1, <1>6
    <3>0. PICK b \in Nat : b = blocks["server"] + i - 1
      BY <1>2, <1>4, <1>5
    <3>3. /\ b \in Nat /\ blocks["server"] <= b /\ b < blocks'["server"]
          /\ decoded["server"] <= b
      BY <3>0, <1>2, <1>4, <1>5 DEF IInv, TypeOK
    <3>4. ASSUME NEW q \in path, q.side = "server"
          PROVE  /\ ~ (q.first <= b /\ b < q.first + Len(q.frames))
                 /\ \A j \in DOMAIN q.frames :
                       q.frames[j] # [stream |-> s, kind |-> "trailers"]
      <4>1. /\ q.first \in Nat /\ Len(q.frames) \in Nat
            /\ q.first + Len(q.frames) <= blocks["server"]
        BY <3>4, RecordsHavePayloads DEF IInv, RecordsAreSent
      <4>2. \A j \in DOMAIN q.frames : q.frames[j] # [stream |-> s, kind |-> "trailers"]
        BY <3>2 DEF IInv, FramesAgree
      <4> QED
        BY <4>1, <4>2, <3>3, <1>2, <1>4
    <3>5. /\ r.first <= b /\ b < r.first + Len(r.frames) =>
                r.frames[b - r.first + 1] = [stream |-> s, kind |-> "response"]
          /\ (\E j \in DOMAIN r.frames : r.frames[j] = [stream |-> s, kind |-> "trailers"]) =>
                \E j \in DOMAIN r.frames : r.frames[j] = [stream |-> s, kind |-> "response"]
      <4>1. b - r.first + 1 = i
        BY <3>0, <1>2, <1>3, <1>4, <1>5
      <4>2. r.first <= b /\ b < r.first + Len(r.frames) =>
                r.frames[b - r.first + 1] = [stream |-> s, kind |-> "response"]
        <5>1. b < r.first + Len(r.frames) => i \in DOMAIN r.frames
          BY <3>0, <1>2, <1>3, <1>4, <1>5
        <5> QED
          BY <5>1, <4>1, <3>1, <1>3
      <4>3. ASSUME NEW j \in DOMAIN r.frames,
                   r.frames[j] = [stream |-> s, kind |-> "trailers"]
            PROVE  1 \in DOMAIN r.frames /\ r.frames[1] = [stream |-> s, kind |-> "response"]
        <5>1. j \in DOMAIN frames /\ frames[j] = [stream |-> s, kind |-> "trailers"]
          BY <4>3, <1>3
        <5>2. j = 2 /\ frames[1] = [stream |-> s, kind |-> "response"]
          BY <5>1, <3>2, <1>6
        <5> QED
          BY <5>2, <1>3, <1>5
      <4> QED
        BY <4>2, <4>3
    <3>6. AnswerAt(s, b)'
      <4>1. decoded'["server"] <= b
        BY <3>3, <1>4
      <4> QED
        BY <4>1, <3>3, <3>4, <3>5, <1>3 DEF AnswerAt
    <3> QED
      BY <3>3, <3>6
  <2> QED
    BY <2>1, <2>2, <2>3 DEF IInv, AnswersComeFirst
<1>14. StatusIsOwn' /\ DurationsArePositive' /\ CollectionIsExact'
  BY <1>4, NothingParsed
<1> QED
  BY <1>8, <1>9, <1>10, <1>11, <1>12, <1>13, <1>14 DEF IInv

(* What holds of the records on their way holds of those that are left.    *)
LEMMA FewerRecords ==
    ASSUME IInv, NEW r \in path, path' = path \ {r}, UNCHANGED world
    PROVE  RecordsAreSent' /\ FramesAgree'
BY DEF IInv, RecordsAreSent, FramesAgree, world

LEMMA LosePreserves ==
    ASSUME IInv, NEW r \in path, Lose(r)
    PROVE  IInv'
<1>1. /\ path' = path \ {r} /\ UNCHANGED world
      /\ output' = {} /\ collected' = {}
      /\ UNCHANGED <<decoded, activeRequests, lastGcTime>>
      /\ UNCHANGED <<reported, collections, misread, newest, overtaken>>
  BY DEF Lose, parser
<1>2. UNCHANGED <<now, phase, requestTime, blocks>>
  BY <1>1 DEF world
<1>3. TypeOK' /\ ClocksAgree'
  BY <1>1, <1>2 DEF IInv, TypeOK, ClocksAgree
<1>4. RecordsAreSent' /\ FramesAgree'
  BY <1>1, FewerRecords
<1>5. OpenedOnce' /\ RequestsAreTimed'
  BY <1>1, <1>2 DEF IInv, OpenedOnce, RequestsAreTimed
<1>6. AnswersComeFirst'
  BY <1>1, <1>2 DEF IInv, AnswersComeFirst, AnswerSeen, AnswerAt
<1>7. StatusIsOwn' /\ DurationsArePositive' /\ CollectionIsExact'
  BY <1>1, NothingParsed
<1> QED
  BY <1>3, <1>4, <1>5, <1>6, <1>7 DEF IInv

LEMMA WaitPreserves ==
    ASSUME IInv, Wait
    PROVE  IInv'
<1>1. /\ now' = now + 1 /\ now' \in 1 .. MaxTime /\ now \in 1 .. MaxTime
      /\ output' = {} /\ collected' = {}
      /\ UNCHANGED <<phase, requestTime, blocks, path>>
      /\ UNCHANGED <<decoded, activeRequests, lastGcTime>>
      /\ UNCHANGED <<reported, collections, misread, newest, overtaken>>
  BY TimeAssumption DEF Wait, parser, IInv, TypeOK
<1>2. TypeOK' /\ ClocksAgree'
  BY <1>1 DEF IInv, TypeOK, ClocksAgree
<1>3. RecordsAreSent'
  <2>1. \A q \in path : q.time \in Nat
    BY RecordsHavePayloads DEF IInv
  <2> QED
    BY <1>1, <2>1 DEF IInv, RecordsAreSent
<1>4. FramesAgree' /\ OpenedOnce' /\ RequestsAreTimed'
  BY <1>1 DEF IInv, FramesAgree, OpenedOnce, RequestsAreTimed
<1>5. AnswersComeFirst'
  BY <1>1 DEF IInv, AnswersComeFirst, AnswerSeen, AnswerAt
<1>6. StatusIsOwn' /\ DurationsArePositive' /\ CollectionIsExact'
  BY <1>1, NothingParsed
<1> QED
  BY <1>2, <1>3, <1>4, <1>5, <1>6 DEF IInv

---------------------------------------------------------------------------
(* Parse                                                                   *)

(* How far the parser's clock gets.                                        *)
LEMMA ClockFollows ==
    ASSUME IInv, NEW r \in path, Parse(r)
    PROVE  /\ newest' \in 0 .. MaxTime /\ newest' < now'
           /\ newest <= newest' /\ r.time <= newest'
           /\ overtaken' \in BOOLEAN
           /\ ~ overtaken' => ~ overtaken /\ newest <= r.time /\ newest' = r.time
<1>1. r.time \in 1 .. MaxTime /\ r.time < now
  BY RecordsHavePayloads DEF IInv, RecordsAreSent
<1>2. /\ newest' = IF r.time > newest THEN r.time ELSE newest
      /\ overtaken' = (overtaken \/ r.time < newest)
      /\ now' = now
  BY DEF Parse, world
<1>3. newest \in 0 .. MaxTime /\ newest < now /\ overtaken \in BOOLEAN
  BY DEF IInv, ClocksAgree
<1>4. overtaken' \in BOOLEAN
  BY <1>2
<1>5. ~ overtaken' => ~ overtaken /\ ~ (r.time < newest)
  BY <1>2
<1> QED
  BY <1>1, <1>2, <1>3, <1>4, <1>5

(* The collection leaves entries or removes them, and it is exact.         *)
LEMMA CollectIsExact ==
    ASSUME IInv, NEW r \in path, Parse(r),
           NEW table \in [Streams -> 1 .. MaxTime \cup {None}], Collect(r, table),
           \A s \in Streams : table[s] # None =>
                 /\ "client" \notin misread' => table[s] = requestTime[s]
                 /\ table[s] \in {activeRequests[s], r.time}
    PROVE  /\ activeRequests' \in [Streams -> 1 .. MaxTime \cup {None}]
           /\ \A s \in Streams : activeRequests'[s] \in {None, table[s]}
           /\ lastGcTime' \in 0 .. MaxTime /\ lastGcTime' <= newest'
           /\ collected' \subseteq Streams
           /\ collections' \in 0 .. 2 /\ (collections' # 0 => lastGcTime' > 0)
           /\ CollectionIsExact'
<1>1. /\ newest' \in 0 .. MaxTime
      /\ newest <= newest' /\ r.time <= newest'
      /\ ~ overtaken' => ~ overtaken /\ newest <= r.time /\ newest' = r.time
  BY ClockFollows
<1>2. /\ r.time \in 1 .. MaxTime /\ newest \in 0 .. MaxTime
      /\ lastGcTime \in 0 .. MaxTime /\ lastGcTime <= newest
      /\ collections \in 0 .. 2 /\ (collections # 0 => lastGcTime > 0)
      /\ MaxTime \in Nat /\ GcInterval \in Nat
      /\ activeRequests \in [Streams -> 1 .. MaxTime \cup {None}]
      /\ \A s \in Streams : activeRequests[s] # None => activeRequests[s] <= newest
      /\ UNCHANGED requestTime
  BY RecordsHavePayloads, TimeAssumption DEF IInv, TypeOK, ClocksAgree, Parse, world
<1>3. ASSUME ~ overtaken', NEW s \in Streams, table[s] # None
      PROVE  /\ table[s] \in 1 .. r.time
             /\ Minus(r.time, table[s]) = r.time - table[s]
             /\ lastGcTime <= table[s] + GcInterval \/ table[s] = activeRequests[s]
  <2>1. table[s] \in 1 .. r.time
    BY <1>1, <1>2, <1>3
  <2>2. Minus(r.time, table[s]) = r.time - table[s]
    BY <1>2, <2>1, MinusOfEarlier
  <2> QED
    BY <1>1, <1>2, <1>3, <2>1, <2>2
<1>4. CASE Minus(r.time, lastGcTime) > GcInterval
  <2>1. /\ lastGcTime' = r.time
        /\ collected' = IF lastGcTime > 0 THEN Expired(r, table) ELSE {}
        /\ activeRequests' = [s \in Streams |-> IF s \in collected' THEN None ELSE table[s]]
        /\ collections' = IF collections = 2 THEN 2 ELSE collections + 1
    BY <1>4 DEF Collect
  <2>2. collected' \subseteq {s \in Streams : table[s] # None /\ Minus(r.time, table[s]) > GcInterval}
    BY <2>1 DEF Expired
  <2>3. /\ activeRequests' \in [Streams -> 1 .. MaxTime \cup {None}]
        /\ \A s \in Streams : activeRequests'[s] \in {None, table[s]}
    BY <2>1
  <2>4. CollectionIsExact'
    <3> SUFFICES ASSUME ~ overtaken'
                 PROVE  /\ "client" \notin misread' =>
                              \A s \in collected' : newest' - requestTime'[s] > GcInterval
                        /\ collections' = 2 =>
                              \A s \in Streams : activeRequests'[s] # None =>
                                    lastGcTime' <= activeRequests'[s] + GcInterval
      BY DEF CollectionIsExact
    <3>1. "client" \notin misread' =>
             \A s \in collected' : newest' - requestTime'[s] > GcInterval
      BY <1>1, <1>2, <1>3, <2>2
    <3>2. ASSUME collections' = 2, NEW s \in Streams, activeRequests'[s] # None
          PROVE  lastGcTime' <= activeRequests'[s] + GcInterval
      <4>1. lastGcTime > 0
        BY <3>2, <2>1, <1>2
      <4>2. s \notin collected' /\ activeRequests'[s] = table[s] /\ table[s] # None
        BY <3>2, <2>1
      <4>3. ~ (Minus(r.time, table[s]) > GcInterval)
        BY <4>1, <4>2, <2>1 DEF Expired
      <4>4. table[s] \in 1 .. r.time /\ Minus(r.time, table[s]) = r.time - table[s]
        BY <1>3, <4>2
      <4> QED
        BY <4>2, <4>3, <4>4, <2>1, <1>2
    <3> QED
      BY <3>1, <3>2
  <2> QED
    BY <2>1, <2>2, <2>3, <2>4, <1>1, <1>2
<1>5. CASE ~ (Minus(r.time, lastGcTime) > GcInterval)
  <2>1. collected' = {} /\ activeRequests' = table /\ UNCHANGED <<lastGcTime, collections>>
    BY <1>5 DEF Collect
  <2>2. CollectionIsExact'
    BY <2>1, <1>1, <1>2, <1>3 DEF IInv, CollectionIsExact
  <2> QED
    BY <2>1, <2>2, <1>1, <1>2
<1> QED
  BY <1>4, <1>5

(* The decoder of the record's side goes on, or is out of step for good.   *)
LEMMA DecoderFollows ==
    ASSUME IInv, NEW r \in path, Parse(r)
    PROVE  /\ decoded' \in [Sides -> Nat \cup {None}]
           /\ \A d \in Sides : decoded'[d] \in 0 .. blocks[d] \cup {None}
           /\ decoded'[r.side] = IF AllSound(r) THEN r.first + Len(r.frames) ELSE None
           /\ \A d \in Sides \ {r.side} : decoded'[d] = decoded[d]
<1>1. /\ r.first \in Nat /\ r.side \in Sides /\ Len(r.frames) \in 0 .. 2
      /\ r.first + Len(r.frames) <= blocks[r.side] /\ blocks[r.side] \in Nat
  BY RecordsHavePayloads DEF IInv, RecordsAreSent, ClocksAgree
<1>2. decoded' = [decoded EXCEPT ![r.side] =
                    IF AllSound(r) THEN r.first + Len(r.frames) ELSE None]
  BY DEF Parse, Decode
<1>3. /\ decoded \in [Sides -> Nat \cup {None}]
      /\ \A d \in Sides : decoded[d] \in 0 .. blocks[d] \cup {None}
  BY DEF IInv, TypeOK, ClocksAgree
<1> QED
  BY <1>1, <1>2, <1>3

(* Without an error a payload is taken to be about the streams of its      *)
(* frames; with one the side is known to be misread.                       *)
LEMMA NamedStreams ==
    ASSUME IInv, NEW r \in path, NEW error \in BOOLEAN, NEW streams \in Named(r, error),
           misread' = misread \cup IF error THEN {r.side} ELSE {}
    PROVE  /\ streams \subseteq Streams
           /\ misread \subseteq misread' /\ misread' \subseteq Sides
           /\ error => r.side \in misread'
           /\ ~ error => misread' = misread
           /\ ~ error => /\ \A i \in DOMAIN r.frames : r.frames[i].stream \in streams
                        /\ \A s \in streams : \E i \in DOMAIN r.frames : r.frames[i].stream = s
<1>1. /\ DOMAIN r.frames = 1 .. Len(r.frames) /\ r.side \in Sides
      /\ \A i \in DOMAIN r.frames : r.frames[i].stream \in Streams
  BY RecordsHavePayloads DEF IInv, Frame
<1>2. misread \subseteq Sides
  BY DEF IInv, ClocksAgree
<1>3. CASE error
  BY <1>1, <1>2, <1>3 DEF Named
<1>4. CASE ~ error
  <2>1. streams = {r.frames[i].stream : i \in DOMAIN r.frames}
    BY <1>1, <1>4 DEF Named, Seen
  <2> QED
    BY <2>1, <1>1, <1>2, <1>4
<1> QED
  BY <1>3, <1>4

LEMMA ParseClientPreserves ==
    ASSUME IInv, NEW r \in path, Parse(r), NEW error \in BOOLEAN,
           misread' = misread \cup IF error THEN {r.side} ELSE {},
           NEW streams \in Named(r, error), ParseClient(r, streams)
    PROVE  IInv'
<1>1. /\ path' = path \ {r}
      /\ UNCHANGED <<now, phase, requestTime, blocks>> /\ UNCHANGED world
      /\ r.side = "client" /\ output' = {} /\ reported' = reported
  BY DEF Parse, ParseClient, world
<1>2. /\ r.time \in 1 .. MaxTime /\ Len(r.frames) \in 0 .. 2
      /\ DOMAIN r.frames = 1 .. Len(r.frames)
      /\ \A i \in DOMAIN r.frames : r.frames[i].stream \in Streams
  BY RecordsHavePayloads DEF IInv, Frame
<1>3. Collect(r, Opened(r, streams))
  BY DEF ParseClient
<1> DEFINE table == Opened(r, streams)
<1>4. /\ misread \subseteq misread' /\ misread' \subseteq Sides
      /\ "client" \notin misread' =>
            /\ "client" \notin misread
            /\ \A s \in streams : \E i \in DOMAIN r.frames : r.frames[i].stream = s
  BY <1>1, NamedStreams
<1>5. \A i \in DOMAIN r.frames : requestTime[r.frames[i].stream] = r.time
  BY <1>1 DEF IInv, FramesAgree
<1>6. \A s \in Streams :
         \/ table[s] = activeRequests[s]
         \/ /\ activeRequests[s] = None
            /\ table[s] = r.time
            /\ "client" \notin misread' =>
                  /\ requestTime[s] = r.time
                  /\ \E i \in DOMAIN r.frames : r.frames[i].stream = s
  BY <1>4, <1>5 DEF Opened
<1>7. /\ activeRequests \in [Streams -> 1 .. MaxTime \cup {None}]
      /\ \A s \in Streams : activeRequests[s] # None => activeRequests[s] <= newest
      /\ "client" \notin misread' =>
            \A s \in Streams : activeRequests[s] # None => activeRequests[s] = requestTime[s]
  BY <1>4 DEF IInv, TypeOK, ClocksAgree
<1>8. table \in [Streams -> 1 .. MaxTime \cup {None}]
  BY <1>2, <1>7 DEF Opened
<1>9. \A s \in Streams : table[s] # None =>
            /\ "client" \notin misread' => table[s] = requestTime[s]
            /\ table[s] \in {activeRequests[s], r.time}
  BY <1>6, <1>7
<1> HIDE DEF table
<1>10. Collect(r, table)
  BY <1>3 DEF table
<1>11. /\ activeRequests' \in [Streams -> 1 .. MaxTime \cup {None}]
       /\ \A s \in Streams : activeRequests'[s] \in {None, table[s]}
       /\ lastGcTime' \in 0 .. MaxTime /\ lastGcTime' <= newest'
       /\ collected' \subseteq Streams
       /\ collections' \in 0 .. 2 /\ (collections' # 0 => lastGcTime' > 0)
       /\ CollectionIsExact'
  BY <1>8, <1>9, <1>10, CollectIsExact
<1>12. /\ newest' \in 0 .. MaxTime /\ newest' < now'
       /\ newest <= newest' /\ r.time <= newest'
       /\ overtaken' \in BOOLEAN
       /\ ~ overtaken' => ~ overtaken /\ newest <= r.time /\ newest' = r.time
  BY ClockFollows
<1>13. /\ decoded' \in [Sides -> Nat \cup {None}]
       /\ \A d \in Sides : decoded'[d] \in 0 .. blocks[d] \cup {None}
       /\ decoded'["server"] = decoded["server"]
  BY <1>1, DecoderFollows DEF Sides
<1>14. TypeOK'
  <2>1. "client" \notin misread' =>
           \A s \in Streams : activeRequests'[s] \in {None, requestTime'[s]}
    BY <1>1, <1>9, <1>11
  <2> QED
    BY <2>1, <1>1, <1>11, <1>13 DEF IInv, TypeOK
<1>15. ClocksAgree'
  <2>1. \A s \in Streams : activeRequests'[s] # None => activeRequests'[s] <= newest'
    <3> SUFFICES ASSUME NEW s \in Streams, activeRequests'[s] # None
                 PROVE  activeRequests'[s] <= newest'
      OBVIOUS
    <3>1. activeRequests'[s] \in {activeRequests[s], r.time}
      BY <1>9, <1>11
    <3>2. newest \in Nat
      BY DEF IInv, ClocksAgree
    <3> QED
      BY <3>1, <3>2, <1>2, <1>7, <1>12
  <2> QED
    BY <2>1, <1>1, <1>4, <1>11, <1>12, <1>13 DEF IInv, ClocksAgree
<1>16. RecordsAreSent' /\ FramesAgree' /\ RequestsAreTimed'
  BY <1>1, FewerRecords DEF IInv, RequestsAreTimed
<1>17. OpenedOnce'
  <2> SUFFICES ASSUME "client" \notin misread', NEW s \in Streams
               PROVE  /\ s \in reported => activeRequests'[s] = None
                      /\ (s \in reported \/ activeRequests'[s] # None) =>
                            \A q \in path' : q.side = "client" =>
                               \A i \in DOMAIN q.frames : q.frames[i].stream # s
    BY <1>1, <1>4 DEF IInv, OpenedOnce
  <2>1. CASE \E i \in DOMAIN r.frames : r.frames[i].stream = s
    <3>1. requestTime[s] = r.time
      BY <2>1, <1>5
    <3>2. s \notin reported
      BY <2>1, <1>1, <1>4 DEF IInv, OpenedOnce
    <3>3. ASSUME NEW q \in path', q.side = "client", NEW i \in DOMAIN q.frames
          PROVE  q.frames[i].stream # s
      <4>1. q \in path /\ q # r
        BY <1>1, <3>3
      <4>2. requestTime[q.frames[i].stream] = q.time
        BY <4>1, <3>3 DEF IInv, FramesAgree
      <4>3. q.time # r.time
        BY <4>1 DEF IInv, RecordsAreSent
      <4> QED
        BY <3>1, <4>2, <4>3
    <3> QED
      BY <3>2, <3>3
  <2>2. CASE ~ \E i \in DOMAIN r.frames : r.frames[i].stream = s
    <3>1. activeRequests'[s] \in {None, activeRequests[s]}
      BY <2>2, <1>6, <1>11
    <3> QED
      BY <3>1, <1>1, <1>4 DEF IInv, OpenedOnce
  <2> QED
    BY <2>1, <2>2
<1>18. AnswersComeFirst'
  <2> SUFFICES ASSUME decoded["server"] # None, misread' = {}, ~ overtaken',
                      NEW s \in Streams, phase[s] \in {"answered", "closed"}
               PROVE  AnswerSeen(s)' \/ \E b \in Nat : AnswerAt(s, b)'
    BY <1>1, <1>13 DEF AnswersComeFirst, AnswerSeen, AnswerAt
  <2>1. requestTime[s] \in Nat /\ newest \in Nat
    BY DEF IInv, RequestsAreTimed, ClocksAgree
  <2>2. CASE AnswerSeen(s)
    <3>1. activeRequests'[s] = None
      BY <2>1, <2>2, <1>6, <1>11, <1>12, NoneAssumption DEF AnswerSeen
    <3>2. newest' > requestTime'[s]
      BY <2>1, <2>2, <1>1, <1>12 DEF AnswerSeen
    <3> QED
      BY <3>1, <3>2 DEF AnswerSeen
  <2>3. ASSUME NEW b \in Nat, AnswerAt(s, b)
        PROVE  AnswerAt(s, b)'
    BY <2>3, <1>1, <1>13 DEF AnswerAt
  <2> QED
    BY <2>2, <2>3, <1>4, <1>12 DEF IInv, AnswersComeFirst
<1>19. StatusIsOwn' /\ DurationsArePositive'
  BY <1>1 DEF StatusIsOwn, DurationsArePositive
<1> QED
  BY <1>11, <1>14, <1>15, <1>16, <1>17, <1>18, <1>19 DEF IInv

(* What a payload is decoded to: a number for each stream it is taken to   *)
(* be about, and if all of it was decoded, the status in the payload.      *)
LEMMA StatusesAreOfPayload ==
    ASSUME IInv, NEW r \in path, NEW streams \in SUBSET Streams,
           NEW statuses \in Statuses(r, streams)
    PROVE  /\ DOMAIN statuses = streams
           /\ \A s \in streams : statuses[s] \in Nat
           /\ AllSound(r) => \A s \in streams : statuses[s] = StatusIn(r.frames, s)
<1>1. \A s \in Streams : StatusIn(r.frames, s) \in Nat
  BY AnswerAssumption DEF StatusIn
<1>2. Range(Answer) \subseteq Nat
  BY AnswerAssumption DEF Range
<1>3. CASE AllSound(r)
  BY <1>1, <1>3 DEF Statuses
<1>4. CASE ~ AllSound(r)
  BY <1>2, <1>4 DEF Statuses
<1> QED
  BY <1>3, <1>4

(* What a stream with an entry shows was sent after its request was, if    *)
(* the payload has a block of the stream.                                  *)
LEMMA DurationIsANumber ==
    ASSUME IInv, NEW r \in path, NEW s \in Streams, activeRequests[s] # None
    PROVE  Duration(r, s) \in 0 .. Modulus - 1
<1>1. r.time \in 0 .. MaxTime /\ activeRequests[s] \in 0 .. MaxTime
  BY RecordsHavePayloads, TimeAssumption DEF IInv, ClocksAgree
<1> QED
  BY <1>1, MinusIsBounded DEF Duration

LEMMA DurationIsBounded ==
    ASSUME IInv, "client" \notin misread, NEW r \in path, r.side = "server", NEW s \in Streams,
           activeRequests[s] # None, \E i \in DOMAIN r.frames : r.frames[i].stream = s
    PROVE  Duration(r, s) \in 1 .. now - requestTime[s]
<1>1. /\ r.time \in 1 .. MaxTime /\ r.time < now /\ now \in Nat
      /\ requestTime[s] < r.time
  BY RecordsHavePayloads DEF IInv, TypeOK, RecordsAreSent, FramesAgree
<1>2. activeRequests[s] = requestTime[s] /\ requestTime[s] \in 1 .. MaxTime
  BY DEF IInv, TypeOK, ClocksAgree
<1>3. MaxTime \in Nat /\ r.time \in 0 .. MaxTime /\ activeRequests[s] \in 0 .. r.time
  BY <1>1, <1>2, TimeAssumption
<1>4. Duration(r, s) = r.time - requestTime[s]
  BY <1>2, <1>3, MinusOfEarlier DEF Duration
<1> QED
  BY <1>1, <1>2, <1>4

(* In step and in order, an entry that a server's payload ends is ended by *)
(* the payload with the answer.                                            *)
LEMMA AnswerIsInPayload ==
    ASSUME IInv, NEW r \in path, r.side = "server", InSync(r), misread = {}, ~ overtaken,
           NEW s \in Streams, activeRequests[s] # None,
           \E i \in DOMAIN r.frames : r.frames[i].stream = s
    PROVE  StatusIn(r.frames, s) = Answer[s]
<1>1. SUFFICES ASSUME ~ \E i \in DOMAIN r.frames :
                           r.frames[i] = [stream |-> s, kind |-> "response"]
               PROVE  FALSE
  BY DEF StatusIn
<1>2. PICK i \in DOMAIN r.frames : r.frames[i].stream = s
  OBVIOUS
<1>3. r.frames[i] \in Frame /\ r.frames[i].kind # "request"
  BY RecordsHavePayloads DEF IInv, FramesAgree
<1>4. r.frames[i] = [stream |-> s, kind |-> "trailers"]
  BY <1>1, <1>2, <1>3 DEF Frame
<1>5. phase[s] = "closed"
  BY <1>2, <1>4 DEF IInv, FramesAgree
<1>6. decoded["server"] = r.first /\ r.first \in Nat /\ decoded["server"] # None
  BY RecordsHavePayloads, NoneAssumption DEF InSync, IInv
<1>7. PICK b \in Nat : AnswerAt(s, b)
  BY <1>5, <1>6 DEF IInv, AnswersComeFirst, AnswerSeen
<1>8. r.first > b
  BY <1>1, <1>4, <1>7 DEF AnswerAt
<1> QED
  BY <1>6, <1>7, <1>8 DEF AnswerAt

LEMMA ParseServerPreserves ==
    ASSUME IInv, NEW r \in path, Parse(r), NEW error \in BOOLEAN, error => ~ AllSound(r),
           misread' = misread \cup IF error THEN {r.side} ELSE {},
           NEW streams \in Named(r, error), ParseServer(r, streams)
    PROVE  IInv' /\ \A o \in output' : "client" \in misread \/ o.stream \notin reported
<1>1. /\ path' = path \ {r}
      /\ UNCHANGED <<now, phase, requestTime, blocks>> /\ UNCHANGED world
      /\ r.side = "server"
  BY DEF Parse, ParseServer, world
<1>2. /\ r.time \in 1 .. MaxTime /\ Len(r.frames) \in 0 .. 2 /\ r.first \in Nat
      /\ DOMAIN r.frames = 1 .. Len(r.frames)
      /\ \A i \in DOMAIN r.frames : r.frames[i].stream \in Streams
  BY RecordsHavePayloads DEF IInv, Frame
<1>3. PICK statuses \in Statuses(r, streams) :
         /\ output' = {[stream |-> s, status |-> statuses[s], duration |-> Duration(r, s)] :
                          s \in Found(statuses)}
         /\ reported' = reported \cup Found(statuses)
         /\ Collect(r, AfterReport(Found(statuses)))
  BY DEF ParseServer
<1>0. /\ streams \in SUBSET Streams
      /\ misread \subseteq misread' /\ misread' \subseteq Sides
      /\ "client" \notin misread' <=> "client" \notin misread
      /\ misread' = {} => misread = {} /\ ~ error
      /\ ~ error => /\ \A i \in DOMAIN r.frames : r.frames[i].stream \in streams
                   /\ \A s \in streams : \E i \in DOMAIN r.frames : r.frames[i].stream = s
  BY <1>1, NamedStreams
<1>4. /\ DOMAIN statuses = streams
      /\ \A s \in streams : statuses[s] \in Nat
      /\ AllSound(r) => \A s \in streams : statuses[s] = StatusIn(r.frames, s)
  BY <1>0, StatusesAreOfPayload
<1> DEFINE found == Found(statuses)
           table == AfterReport(found)
<1>5. found = {s \in streams : activeRequests[s] # None}
  BY <1>4 DEF Found
<1>6. /\ activeRequests \in [Streams -> 1 .. MaxTime \cup {None}]
      /\ \A s \in Streams : activeRequests[s] # None => activeRequests[s] <= newest
      /\ "client" \notin misread =>
            \A s \in Streams : activeRequests[s] # None => activeRequests[s] = requestTime[s]
  BY DEF IInv, TypeOK, ClocksAgree
<1>7. \A s \in Streams : table[s] = IF s \in found THEN None ELSE activeRequests[s]
  BY DEF AfterReport
<1>8. table \in [Streams -> 1 .. MaxTime \cup {None}]
  BY <1>6 DEF AfterReport
<1> HIDE DEF found, table
<1>9. Collect(r, table) /\ reported' = reported \cup found
  BY <1>3 DEF table, found
<1>10. \A o \in output' : /\ o.stream \in found
                          /\ o = [stream |-> o.stream, status |-> statuses[o.stream],
                                  duration |-> Duration(r, o.stream)]
  BY <1>3 DEF found
<1>11. /\ activeRequests' \in [Streams -> 1 .. MaxTime \cup {None}]
       /\ \A s \in Streams : activeRequests'[s] \in {None, table[s]}
       /\ lastGcTime' \in 0 .. MaxTime /\ lastGcTime' <= newest'
       /\ collected' \subseteq Streams
       /\ collections' \in 0 .. 2 /\ (collections' # 0 => lastGcTime' > 0)
       /\ CollectionIsExact'
  BY <1>0, <1>6, <1>7, <1>8, <1>9, CollectIsExact
<1>12. /\ newest' \in 0 .. MaxTime /\ newest' < now'
       /\ newest <= newest' /\ r.time <= newest'
       /\ overtaken' \in BOOLEAN
       /\ ~ overtaken' => ~ overtaken /\ newest <= r.time /\ newest' = r.time
  BY ClockFollows
<1>13. /\ decoded' \in [Sides -> Nat \cup {None}]
       /\ \A d \in Sides : decoded'[d] \in 0 .. blocks[d] \cup {None}
       /\ decoded'["server"] = IF AllSound(r) THEN r.first + Len(r.frames) ELSE None
  BY <1>1, DecoderFollows DEF Sides
<1>14. \A s \in Streams : activeRequests'[s] \in {None, activeRequests[s]}
                          /\ (s \in found => activeRequests'[s] = None)
  BY <1>7, <1>11
<1>15. \A s \in found :
          /\ s \in Streams /\ s \in streams /\ activeRequests[s] # None
          /\ ~ error => \E i \in DOMAIN r.frames : r.frames[i].stream = s
  BY <1>0, <1>5
<1>16. TypeOK'
  <2>1. "client" \notin misread' =>
           \A s \in Streams : activeRequests'[s] \in {None, requestTime'[s]}
    BY <1>0, <1>1, <1>6, <1>14
  <2>2. output' \subseteq Result
    <3> SUFFICES ASSUME NEW o \in output'
                 PROVE  o \in Result
      OBVIOUS
    <3>1. /\ o.stream \in Streams /\ statuses[o.stream] \in Nat
          /\ Duration(r, o.stream) \in 0 .. Modulus - 1
      BY <1>4, <1>10, <1>15, DurationIsANumber
    <3> QED
      BY <3>1, <1>10 DEF Result
  <2> QED
    BY <2>1, <2>2, <1>1, <1>9, <1>11, <1>13, <1>15 DEF IInv, TypeOK
<1>17. ClocksAgree'
  <2>1. \A s \in Streams : activeRequests'[s] # None => activeRequests'[s] <= newest'
    <3>1. newest \in Nat
      BY DEF IInv, ClocksAgree
    <3> QED
      BY <3>1, <1>6, <1>12, <1>14
  <2> QED
    BY <2>1, <1>0, <1>1, <1>11, <1>12, <1>13 DEF IInv, ClocksAgree
<1>18. RecordsAreSent' /\ FramesAgree' /\ RequestsAreTimed'
  BY <1>1, FewerRecords DEF IInv, RequestsAreTimed
<1>19. OpenedOnce'
  <2> SUFFICES ASSUME "client" \notin misread, NEW s \in Streams
               PROVE  /\ s \in reported' => activeRequests'[s] = None /\ requestTime[s] # None
                      /\ (s \in reported' \/ activeRequests'[s] # None) =>
                            \A q \in path' : q.side = "client" =>
                               \A i \in DOMAIN q.frames : q.frames[i].stream # s
    BY <1>0, <1>1 DEF IInv, OpenedOnce
  <2>1. CASE s \in found
    <3>1. requestTime[s] # None
      BY <2>1, <1>6, <1>15
    <3> QED
      BY <2>1, <3>1, <1>1, <1>14, <1>15 DEF IInv, OpenedOnce
  <2>2. CASE s \notin found
    BY <2>2, <1>1, <1>9, <1>14 DEF IInv, OpenedOnce
  <2> QED
    BY <2>1, <2>2
<1>20. AnswersComeFirst'
  <2> SUFFICES ASSUME decoded'["server"] # None, misread' = {}, ~ overtaken',
                      NEW s \in Streams, phase[s] \in {"answered", "closed"}
               PROVE  AnswerSeen(s)' \/ \E b \in Nat : AnswerAt(s, b)'
    BY <1>1 DEF AnswersComeFirst, AnswerSeen, AnswerAt
  <2>1. /\ requestTime[s] \in Nat /\ newest \in Nat
    BY DEF IInv, RequestsAreTimed, ClocksAgree
  <2>2. /\ AllSound(r) /\ decoded["server"] = r.first /\ decoded["server"] # None
        /\ decoded'["server"] = r.first + Len(r.frames)
    BY <1>1, <1>2, <1>13, NoneAssumption DEF AllSound, InSync
  <2>3. CASE AnswerSeen(s)
    BY <2>1, <2>3, <1>1, <1>12, <1>14 DEF AnswerSeen
  <2>4. ASSUME NEW b \in Nat, AnswerAt(s, b), r.first + Len(r.frames) <= b
        PROVE  AnswerAt(s, b)'
    BY <2>2, <2>4, <1>1 DEF AnswerAt
  <2>5. ASSUME NEW b \in Nat, AnswerAt(s, b), ~ (r.first + Len(r.frames) <= b)
        PROVE  AnswerSeen(s)'
    <3>1. r.first <= b /\ b < r.first + Len(r.frames)
      BY <2>2, <2>5, <1>2 DEF AnswerAt
    <3>2. r.frames[b - r.first + 1] = [stream |-> s, kind |-> "response"]
      BY <3>1, <2>5, <1>1 DEF AnswerAt
    <3>3. b - r.first + 1 \in DOMAIN r.frames
      BY <3>1, <1>2
    <3>4. r.frames[b - r.first + 1].stream = s
      BY <3>2
    <3>5. s \in DOMAIN statuses
      BY <3>3, <3>4, <1>0, <1>4
    <3>6. activeRequests'[s] = None
      BY <3>5, <1>0, <1>4, <1>5, <1>6, <1>14
    <3>7. requestTime[s] < r.time
      BY <3>3, <3>4, <1>1 DEF IInv, FramesAgree
    <3> QED
      BY <3>6, <3>7, <2>1, <1>1, <1>2, <1>12 DEF AnswerSeen
  <2> QED
    BY <2>2, <2>3, <2>4, <2>5, <1>0, <1>12 DEF IInv, AnswersComeFirst
<1>21. StatusIsOwn'
  <2> SUFFICES ASSUME decoded'["server"] # None, misread' = {}, ~ overtaken', NEW o \in output'
               PROVE  o.status = Answer[o.stream]
    BY DEF StatusIsOwn
  <2>1. AllSound(r) /\ InSync(r) /\ misread = {} /\ ~ overtaken
    BY <1>0, <1>12, <1>13 DEF AllSound
  <2>2. o.stream \in found /\ o.status = statuses[o.stream]
    BY <1>10
  <2>3. statuses[o.stream] = StatusIn(r.frames, o.stream)
    BY <2>1, <2>2, <1>4, <1>5
  <2> QED
    BY <2>1, <2>2, <2>3, <1>0, <1>1, <1>15, AnswerIsInPayload
<1>22. DurationsArePositive'
  <2> SUFFICES ASSUME misread' = {}, NEW o \in output'
               PROVE  o.duration \in 1 .. now - requestTime[o.stream]
    BY <1>1 DEF DurationsArePositive
  <2>1. o.stream \in found /\ o.duration = Duration(r, o.stream)
    BY <1>10
  <2> QED
    BY <2>1, <1>0, <1>1, <1>15, DurationIsBounded
<1>23. \A o \in output' : "client" \in misread \/ o.stream \notin reported
  BY <1>10, <1>15 DEF IInv, OpenedOnce
<1> QED
  BY <1>11, <1>16, <1>17, <1>18, <1>19, <1>20, <1>21, <1>22, <1>23 DEF IInv

---------------------------------------------------------------------------

LEMMA StutterPreserves ==
    ASSUME IInv, UNCHANGED vars
    PROVE  IInv'
<1>1. /\ UNCHANGED <<now, phase, requestTime, blocks, path, decoded, activeRequests,
                     lastGcTime>>
      /\ UNCHANGED <<output, collected, reported, collections, misread, newest, overtaken>>
  BY DEF vars, world, parser, results
<1>2. TypeOK' /\ ClocksAgree'
  BY <1>1 DEF IInv, TypeOK, ClocksAgree
<1>3. RecordsAreSent' /\ FramesAgree' /\ OpenedOnce' /\ RequestsAreTimed'
  BY <1>1 DEF IInv, RecordsAreSent, FramesAgree, OpenedOnce, RequestsAreTimed
<1>4. AnswersComeFirst'
  BY <1>1 DEF IInv, AnswersComeFirst, AnswerSeen, AnswerAt
<1>5. StatusIsOwn' /\ DurationsArePositive' /\ CollectionIsExact'
  BY <1>1 DEF IInv, StatusIsOwn, DurationsArePositive, CollectionIsExact
<1> QED
  BY <1>2, <1>3, <1>4, <1>5 DEF IInv

LEMMA NextPreserves ==
    ASSUME IInv, [Next]_vars
    PROVE  IInv' /\ (Next => \A o \in output' : "client" \in misread \/ o.stream \notin reported)
<1>1. ASSUME NEW ss \in SeqOf(Streams, 2) \ {<<>>}, ClientWrites(ss)
      PROVE  IInv' /\ output' = {}
  BY <1>1, ClientWritesPreserves DEF ClientWrites, Send
<1>2. ASSUME NEW frames \in Payload \ {<<>>}, ServerSends(frames)
      PROVE  IInv' /\ output' = {}
  BY <1>2, ServerSendsPreserves DEF ServerSends, Send
<1>3. CASE Wait
  BY <1>3, WaitPreserves DEF Wait
<1>4. ASSUME NEW r \in path, Lose(r)
      PROVE  IInv' /\ output' = {}
  BY <1>4, LosePreserves DEF Lose
<1>5. ASSUME NEW r \in path, Parse(r)
      PROVE  IInv' /\ \A o \in output' : "client" \in misread \/ o.stream \notin reported
  <2>1. PICK error \in BOOLEAN :
          /\ error => ~ AllSound(r)
          /\ misread' = misread \cup IF error THEN {r.side} ELSE {}
          /\ \E streams \in Named(r, error) : ParseClient(r, streams) \/ ParseServer(r, streams)
    BY <1>5 DEF Parse
  <2>2. PICK streams \in Named(r, error) : ParseClient(r, streams) \/ ParseServer(r, streams)
    BY <2>1
  <2>3. CASE ParseClient(r, streams)
    <3>1. IInv'
      BY <1>5, <2>1, <2>3, ParseClientPreserves
    <3>2. output' = {}
      BY <2>3 DEF ParseClient
    <3> QED
      BY <3>1, <3>2
  <2>4. CASE ParseServer(r, streams)
    BY <1>5, <2>1, <2>4, ParseServerPreserves
  <2> QED
    BY <2>2, <2>3, <2>4
<1>6. Next => IInv' /\ \A o \in output' : "client" \in misread \/ o.stream \notin reported
  BY <1>1, <1>2, <1>3, <1>4, <1>5 DEF Next
<1> QED
  BY <1>6, StutterPreserves

LEMMA Inductive == Spec => []IInv
BY InitInvariant, NextPreserves, PTL DEF Spec

(* Every variable keeps its type; an entry has the time of its stream's    *)
(* request (http2.go:25-40).                                               *)
THEOREM TypeCorrect == Spec => []TypeOK
<1>1. IInv => TypeOK
  BY DEF IInv
<1> QED
  BY <1>1, Inductive, PTL

(* A stream is reported once, however many blocks the server sends on it   *)
(* and in whatever order records arrive: once its entry is gone no record  *)
(* on the way can open another, but a block of the client's that is taken  *)
(* for frames (http2.go:122-124, 128-137).                                 *)
THEOREM NeverTwice == Spec => ReportedOnce
<1> DEFINE New == \A r \in output' : "client" \in misread \/ r.stream \notin reported
<1>1. IInv /\ [Next]_vars => [New]_vars
  BY NextPreserves
<1> HIDE DEF New
<1>2. Spec => [][New]_vars
  BY <1>1, Inductive, PTL DEF Spec
<1> USE DEF New
<1> QED
  BY <1>2 DEF ReportedOnce

(* While the server's decoder has seen every block whole and as it is      *)
(* expected, no bytes of a block were taken for frames and no record was   *)
(* overtaken, a stream is reported with its own status, whatever was lost  *)
(* or cut of the requests (http2.go:106-125, 128-135).                     *)
THEOREM StatusesAreOwn == Spec => []StatusIsOwn
<1>1. IInv => StatusIsOwn
  BY DEF IInv
<1> QED
  BY <1>1, Inductive, PTL

(* No duration is negative modulo 2^64, whatever is lost, cut or overtaken,*)
(* while only frames are taken for frames (http2.go:134).                  *)
THEOREM NoNegativeDuration == Spec => []DurationsArePositive
<1>1. IInv => DurationsArePositive
  BY DEF IInv
<1> QED
  BY <1>1, Inductive, PTL

(* In order, only requests that had no answer for the whole interval are   *)
(* given up, and after two collections nothing stale is left, whatever it  *)
(* was made of                                                             *)
(* (http2.go:140-149).                                                     *)
THEOREM CollectionsAreExact == Spec => []CollectionIsExact
<1>1. IInv => CollectionIsExact
  BY DEF IInv
<1> QED
  BY <1>1, Inductive, PTL

=============================================================================
