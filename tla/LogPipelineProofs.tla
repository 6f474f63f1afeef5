------------------------- MODULE LogPipelineProofs -------------------------
(***************************************************************************)
(* Proofs about LogPipeline, for any units, providers, entries and limits: *)
(* the log path implements LogQueue.                                       *)
(***************************************************************************)
EXTENDS LogPipeline, SequenceTheorems, TLAPS

(* A flush always has something to flush, and a provider that is not       *)
(* started has no goroutines.                                              *)
GoroutinesAgree ==
    \A p \in Providers : /\ reader[p] = "flushing" => message[p] # <<>>
                         /\ provider[p] = "new" => reader[p] = "off" /\ exporter[p] = "off"

Below(s, n) == \A i \in 1 .. Len(s) : s[i] < n

(* The message on its way is the last that was read, and no provider has   *)
(* it, or a later one, yet.                                                *)
SentIsLatest ==
    sending # None =>
    /\ sending.msg = Len(journal)
    /\ \A p \in Providers :
          /\ Below(exported[p], Len(journal)) /\ Below(batch[p], Len(journal))
          /\ Below(message[p], Len(journal))
          /\ held[p] # None => held[p] < Len(journal)

(* Deliveries are counted for channels without a unit only, and after one  *)
(* there is none on the way.                                               *)
StragglersAreCounted ==
    \A p \in Providers : stragglers[p] # None =>
        /\ \A u \in Units : subscribers[u] # p
        /\ stragglers[p] \in {0, 1}
        /\ stragglers[p] = 1 => ~ (sending # None /\ sending.ch = p)

IInv == TypeOK /\ GoroutinesAgree /\ SentIsLatest /\ StragglersAreCounted

---------------------------------------------------------------------------

LEMMA InitInvariant == Init => IInv
BY BoundAssumption, NoneAssumption DEF Init, IInv, TypeOK, GoroutinesAgree, SentIsLatest, StragglersAreCounted, Messages

LEMMA SubscribePreserves ==
    ASSUME IInv, NEW u \in Units, NEW p \in Providers, Subscribe(u, p)
    PROVE  IInv'
<1> USE DEF IInv, Subscribe, buffers, exports
<1>1. TypeOK'
  BY BoundAssumption DEF TypeOK, Messages
<1>2. GoroutinesAgree'
  BY DEF GoroutinesAgree, TypeOK
<1>3. SentIsLatest'
  BY DEF SentIsLatest, TypeOK
<1>4. StragglersAreCounted'
  BY DEF StragglersAreCounted, TypeOK
<1> QED
  BY <1>1, <1>2, <1>3, <1>4

LEMMA UnsubscribePreserves ==
    ASSUME IInv, NEW u \in Units, Unsubscribe(u)
    PROVE  IInv'
<1> USE DEF IInv, Unsubscribe, CountStragglers, buffers, exports
<1>1. TypeOK'
  BY BoundAssumption DEF TypeOK, Messages
<1>2. GoroutinesAgree'
  BY DEF GoroutinesAgree, TypeOK
<1>3. SentIsLatest'
  BY DEF SentIsLatest, TypeOK
<1>4. StragglersAreCounted'
  BY NoneAssumption DEF StragglersAreCounted, TypeOK
<1> QED
  BY <1>1, <1>2, <1>3, <1>4

LEMMA StartPreserves ==
    ASSUME IInv, NEW p \in Providers, Start(p)
    PROVE  IInv'
<1> USE DEF IInv, Start, source
<1>1. TypeOK'
  BY BoundAssumption DEF TypeOK, Messages, GoroutinesAgree
<1>2. GoroutinesAgree'
  BY DEF GoroutinesAgree, TypeOK
<1>3. SentIsLatest'
  BY DEF SentIsLatest, TypeOK
<1>4. StragglersAreCounted'
  BY DEF StragglersAreCounted, TypeOK
<1> QED
  BY <1>1, <1>2, <1>3, <1>4

LEMMA StopPreserves ==
    ASSUME IInv, NEW p \in Providers, Stop(p)
    PROVE  IInv'
<1> USE DEF IInv, Stop, source, buffers, exports
<1>1. TypeOK'
  BY BoundAssumption DEF TypeOK, Messages
<1>2. GoroutinesAgree'
  BY DEF GoroutinesAgree, TypeOK
<1>3. SentIsLatest'
  BY DEF SentIsLatest, TypeOK
<1>4. StragglersAreCounted'
  BY DEF StragglersAreCounted, TypeOK
<1> QED
  BY <1>1, <1>2, <1>3, <1>4

LEMMA ReaderLeavesPreserves ==
    ASSUME IInv, NEW p \in Providers, ReaderLeaves(p)
    PROVE  IInv'
<1> USE DEF IInv, ReaderLeaves, source, exports
<1>1. TypeOK'
  BY BoundAssumption DEF TypeOK, Messages
<1>2. GoroutinesAgree'
  BY DEF GoroutinesAgree, TypeOK
<1>3. SentIsLatest'
  BY DEF SentIsLatest, TypeOK
<1>4. StragglersAreCounted'
  BY DEF StragglersAreCounted, TypeOK
<1> QED
  BY <1>1, <1>2, <1>3, <1>4

LEMMA ExporterLeavesPreserves ==
    ASSUME IInv, NEW p \in Providers, ExporterLeaves(p)
    PROVE  IInv'
<1> USE DEF IInv, ExporterLeaves, source, buffers
<1>1. TypeOK'
  BY BoundAssumption DEF TypeOK, Messages
<1>2. GoroutinesAgree'
  BY DEF GoroutinesAgree, TypeOK
<1>3. SentIsLatest'
  BY DEF SentIsLatest, TypeOK
<1>4. StragglersAreCounted'
  BY DEF StragglersAreCounted, TypeOK
<1> QED
  BY <1>1, <1>2, <1>3, <1>4

(* What was a message before is one afterwards.                            *)
LEMMA fllowPreserves ==
    ASSUME IInv, NEW e \in Entries, fllow(e)
    PROVE  IInv'
<1> USE DEF IInv, fllow, buffers, exports
<1>1. CASE e.size = 0 \/ subscribers[e.unit] = None
  BY <1>1 DEF TypeOK, GoroutinesAgree, SentIsLatest, StragglersAreCounted, Messages
<1>2. CASE ~ (e.size = 0 \/ subscribers[e.unit] = None)
  <2>1. /\ journal' \in Seq(Entries)
        /\ Len(journal') = Len(journal) + 1
        /\ Len(journal) \in Nat
        /\ Messages = 1 .. Len(journal) /\ Messages' = 1 .. Len(journal')
    <3>1. journal' = Append(journal, e) /\ journal \in Seq(Entries)
      BY <1>2 DEF TypeOK
    <3> QED
      BY <3>1, AppendProperties, LenProperties DEF Messages
  <2>2. Len(journal') <= MaxEntries
    BY <1>2, <2>1, BoundAssumption DEF TypeOK
  <2>3. sending' = [msg |-> Len(journal'), ch |-> subscribers[e.unit]]
    BY <1>2
  <2>4. sending' \in [msg : Messages', ch : Providers]
    BY <1>2, <2>1, EntriesAssumption DEF TypeOK
  <2>5. \A p \in Providers : {message'[p], batch'[p], exported'[p]} \subseteq Seq(Messages')
    <3> TAKE p \in Providers
    <3>1. Messages \subseteq Messages'
      BY <2>1
    <3>2. message[p] \in Seq(Messages) /\ batch[p] \in Seq(Messages) /\ exported[p] \in Seq(Messages)
      BY DEF TypeOK
    <3> QED
      BY <3>1, <3>2, SeqMonotonic
  <2>6. held' \in [Providers -> Messages' \cup {None}]
    BY <2>1 DEF TypeOK
  <2>7. TypeOK'
    BY <2>1, <2>2, <2>4, <2>5, <2>6 DEF TypeOK
  <2>8. GoroutinesAgree'
    BY DEF GoroutinesAgree
  <2>9. SentIsLatest'
    <3>1. \A p \in Providers : held[p] # None => held[p] < Len(journal')
      BY <2>1 DEF TypeOK
    <3>2. \A p \in Providers : \A s \in {message[p], batch[p], exported[p]} :
             Below(s, Len(journal'))
      BY <2>1, ElementOfSeq DEF TypeOK, Below
    <3> QED
      BY <2>3, <3>1, <3>2 DEF SentIsLatest
  <2>10. StragglersAreCounted'
    <3>1. e.unit \in Units
      BY EntriesAssumption
    <3> QED
      BY <1>2, <2>3, <3>1 DEF StragglersAreCounted
  <2> QED
    BY <2>7, <2>8, <2>9, <2>10
<1> QED
  BY <1>1, <1>2

LEMMA ReceivePreserves ==
    ASSUME IInv, NEW p \in Providers, Receive(p)
    PROVE  IInv'
<1> USE DEF IInv, Receive, exports
<1> DEFINE i == sending.msg
<1>1. i \in Messages /\ i \in Nat /\ i = Len(journal) /\ Len(journal) <= MaxEntries
  BY DEF TypeOK, SentIsLatest, Messages
<1>2. /\ stragglers' \in [Providers -> 0 .. MaxEntries \cup {None}]
      /\ StragglersAreCounted'
  <2>1. stragglers[p] # None => stragglers[p] = 0
    BY DEF TypeOK, StragglersAreCounted
  <2>2. stragglers'[p] \in {None, 1}
    BY <2>1 DEF TypeOK
  <2>3. stragglers' \in [Providers -> 0 .. MaxEntries \cup {None}]
    BY <1>1, <2>2, BoundAssumption DEF TypeOK, Messages
  <2>5. \A q \in Providers \ {p} : stragglers'[q] = stragglers[q]
    BY DEF TypeOK
  <2>4. UNCHANGED subscribers /\ sending' = None
    OBVIOUS
  <2> QED
    BY <2>1, <2>2, <2>3, <2>4, <2>5 DEF StragglersAreCounted
<1>3. CASE ~ journal[i].valid
  BY <1>2, <1>3 DEF Add, buffers, TypeOK, GoroutinesAgree, SentIsLatest, Messages
<1>4. CASE journal[i].valid /\ message[p] # <<>> /\ Full(message[p])
  <2>1. /\ held' = [held EXCEPT ![p] = i]
        /\ reader' = [reader EXCEPT ![p] = "flushing"]
        /\ UNCHANGED message
    BY <1>4 DEF Add
  <2>2. UNCHANGED Messages /\ UNCHANGED <<journal, batch, exported>>
    BY DEF Messages
  <2>3. /\ held'[p] = i /\ reader'[p] = "flushing"
        /\ \A q \in Providers \ {p} : held'[q] = held[q] /\ reader'[q] = reader[q]
    BY <2>1 DEF TypeOK
  <2>4. /\ UNCHANGED <<journal, subscribers, provider, exporter, batch, exported, message>>
        /\ sending' = None /\ i # None
    BY <1>1, <2>1, <2>2, NoneAssumption
  <2>5. TypeOK /\ StragglersAreCounted'
    BY <1>2
  <2>6. GoroutinesAgree /\ provider[p] # "new"
    BY DEF GoroutinesAgree
  <2> HIDE DEF IInv, Receive, i
  <2>7. TypeOK'
    <3>1. /\ held' \in [Providers -> Messages \cup {None}]
          /\ reader' \in [Providers -> {"off", "select", "flushing", "done"}]
      BY <1>1, <2>1, <2>5 DEF TypeOK
    <3>2. ASSUME NEW q \in Providers
          PROVE  /\ held'[q] # None <=> reader'[q] = "flushing"
                 /\ batch[q] # <<>> <=> exporter[q] = "exporting"
      <4>1. CASE q = p
        BY <2>3, <2>4, <2>5, <4>1 DEF TypeOK
      <4>2. CASE q # p
        BY <2>3, <2>5, <4>2 DEF TypeOK
      <4> QED
        BY <4>1, <4>2
    <3>3. /\ sending' = None \/ sending' \in [msg : Messages', ch : Providers]
          /\ {message, batch, exported}' \subseteq [Providers -> Seq(Messages)]
      BY <2>4, <2>5 DEF TypeOK
    <3> QED
      BY <1>2, <2>2, <2>4, <2>5, <3>1, <3>2, <3>3 DEF TypeOK
  <2>8. GoroutinesAgree'
    BY <1>4, <2>3, <2>4, <2>6 DEF GoroutinesAgree
  <2>9. SentIsLatest'
    BY <2>4 DEF SentIsLatest
  <2> QED
    BY <2>5, <2>7, <2>8, <2>9 DEF IInv
<1>5. CASE journal[i].valid /\ ~ (message[p] # <<>> /\ Full(message[p]))
  <2>1. message' = [message EXCEPT ![p] = Append(@, i)] /\ UNCHANGED <<held, reader>>
    BY <1>5 DEF Add
  <2>2. message[p] \in Seq(Messages)
    BY DEF TypeOK
  <2>3. message'[p] \in Seq(Messages) /\ UNCHANGED Messages
    BY <1>1, <2>1, <2>2, AppendProperties DEF TypeOK, Messages
  <2> QED
    BY <1>2, <2>1, <2>3 DEF TypeOK, GoroutinesAgree, SentIsLatest, Messages
<1> QED
  BY <1>3, <1>4, <1>5

LEMMA flushMessagePreserves ==
    ASSUME IInv, NEW p \in Providers, flushMessage(p)
    PROVE  IInv'
<1> USE DEF IInv, flushMessage, source
<1>1. TypeOK'
  BY NoneAssumption DEF TypeOK, Messages, GoroutinesAgree
<1>2. GoroutinesAgree'
  BY DEF GoroutinesAgree, TypeOK
<1>3. SentIsLatest'
  BY DEF SentIsLatest, TypeOK, GoroutinesAgree, Below
<1>4. StragglersAreCounted'
  BY DEF StragglersAreCounted, TypeOK
<1> QED
  BY <1>1, <1>2, <1>3, <1>4

LEMMA ExportPreserves ==
    ASSUME IInv, NEW p \in Providers, Export(p)
    PROVE  IInv'
<1> USE DEF IInv, Export, source, buffers
<1>1. TypeOK'
  BY BoundAssumption DEF TypeOK, Messages
<1>2. GoroutinesAgree'
  BY DEF GoroutinesAgree, TypeOK
<1>3. SentIsLatest'
  BY DEF SentIsLatest, TypeOK, Below
<1>4. StragglersAreCounted'
  BY DEF StragglersAreCounted, TypeOK
<1> QED
  BY <1>1, <1>2, <1>3, <1>4


LEMMA StutterPreserves == IInv /\ UNCHANGED vars => IInv'
BY DEF IInv, vars, source, buffers, exports, TypeOK, GoroutinesAgree, SentIsLatest,
   StragglersAreCounted, Messages, Below

LEMMA NextPreserves == IInv /\ [Next]_vars => IInv'
<1> SUFFICES ASSUME IInv, [Next]_vars
             PROVE  IInv'
  OBVIOUS
<1>1. ASSUME NEW u \in Units, NEW p \in Providers, Subscribe(u, p)
      PROVE  IInv'
  BY <1>1, SubscribePreserves
<1>2. ASSUME NEW u \in Units, Unsubscribe(u)
      PROVE  IInv'
  BY <1>2, UnsubscribePreserves
<1>3. ASSUME NEW e \in Entries, fllow(e)
      PROVE  IInv'
  BY <1>3, fllowPreserves
<1>4. ASSUME NEW p \in Providers, Start(p) \/ Stop(p) \/ ReaderLeaves(p) \/ ExporterLeaves(p)
      PROVE  IInv'
  BY <1>4, StartPreserves, StopPreserves, ReaderLeavesPreserves, ExporterLeavesPreserves
<1>5. ASSUME NEW p \in Providers, Receive(p) \/ flushMessage(p) \/ Export(p)
      PROVE  IInv'
  BY <1>5, ReceivePreserves, flushMessagePreserves, ExportPreserves
<1> QED
  BY <1>1, <1>2, <1>3, <1>4, <1>5, StutterPreserves DEF Next

LEMMA Inductive == Spec => []IInv
BY InitInvariant, NextPreserves, PTL DEF Spec

---------------------------------------------------------------------------

(* Every variable of the log path keeps its type (journal_reader.go:12-16, *)
(* multiline_buffer.go:11-20, log_provider.go:22-27).                      *)
THEOREM TypeCorrect == Spec => []TypeOK
<1>1. IInv => TypeOK
  BY DEF IInv
<1> QED
  BY <1>1, Inductive, PTL

(* After the last unit of a channel is unsubscribed the channel gets the   *)
(* message on its way at most (journal_reader.go:71-77, 101-108).          *)
THEOREM StragglersAreFew == Spec => []AtMostOneStraggler
<1>1. IInv => AtMostOneStraggler
  BY DEF IInv, StragglersAreCounted, AtMostOneStraggler
<1> QED
  BY <1>1, Inductive, PTL

(* The text of a level gives the level back, also the gravest, whose text  *)
(* is that of none.                                                        *)
LEMMA LevelsSurviveTheirTexts ==
    ASSUME NEW l \in {LevelCritical, LevelError, LevelWarning, LevelInfo, LevelDebug}
    PROVE  String2Level(string(l)) = l
<1> USE DEF LevelCritical, LevelError, LevelWarning, LevelInfo, LevelDebug
<1>1. CASE l = LevelCritical
  <2>1. string(l) = ""
    BY <1>1 DEF string
  <2> QED
    BY <1>1, <2>1 DEF String2Level
<1>2. CASE l = LevelError
  <2>1. string(l) = "ERROR"
    BY <1>2 DEF string
  <2> QED
    BY <1>2, <2>1 DEF String2Level
<1>3. CASE l = LevelWarning
  <2>1. string(l) = "WARN"
    BY <1>3 DEF string
  <2> QED
    BY <1>3, <2>1 DEF String2Level
<1>4. CASE l = LevelInfo
  <2>1. string(l) = "INFO"
    BY <1>4 DEF string
  <2> QED
    BY <1>4, <2>1 DEF String2Level
<1>5. CASE l = LevelDebug
  <2>1. string(l) = "DEBUG"
    BY <1>5 DEF string
  <2> QED
    BY <1>5, <2>1 DEF String2Level
<1> QED
  BY <1>1, <1>2, <1>3, <1>4, <1>5

LEMMA LevelOfPriority ==
    ASSUME NEW p \in 0 .. 7 \cup {None}
    PROVE  /\ priority2Levels(p) \in -1 .. 3
           /\ \A q \in 0 .. 7 : p # None /\ p <= q => priority2Levels(p) <= priority2Levels(q)
<1> USE NoneAssumption DEF LevelCritical, LevelError, LevelWarning, LevelInfo, LevelDebug
<1>1. \A k \in 0 .. 2 : priority2Levels(k) = -1
  BY DEF priority2Levels
<1>2. \A k \in {3, None} : priority2Levels(k) = 0
  BY DEF priority2Levels
<1>3. priority2Levels(4) = 1
  BY DEF priority2Levels
<1>4. \A k \in {5, 6} : priority2Levels(k) = 2
  BY DEF priority2Levels
<1>5. priority2Levels(7) = 3
  BY DEF priority2Levels
<1> QED
  BY <1>1, <1>2, <1>3, <1>4, <1>5

LEMMA SeverityOfLevel ==
    ASSUME NEW l \in -1 .. 3
    PROVE  Level2OtelLogsLevel(string(l)) = 17 - 4 * l
<1>1. l \in {LevelCritical, LevelError, LevelWarning, LevelInfo, LevelDebug}
  BY DEF LevelCritical, LevelError, LevelWarning, LevelInfo, LevelDebug
<1>2. String2Level(string(l)) = l
  BY <1>1, LevelsSurviveTheirTexts
<1> QED
  BY <1>2 DEF Level2OtelLogsLevel, LevelCritical, LevelError, LevelWarning, LevelInfo,
              LevelDebug

(* What the journal's priorities become: graver means at least as severe.  *)
LEMMA SeverityIsMonotonic ==
    ASSUME NEW p \in 0 .. 7, NEW q \in 0 .. 7, p <= q
    PROVE  Level2OtelLogsLevel(string(priority2Levels(p)))
             >= Level2OtelLogsLevel(string(priority2Levels(q)))
<1>1. /\ priority2Levels(p) \in -1 .. 3 /\ priority2Levels(q) \in -1 .. 3
      /\ priority2Levels(p) <= priority2Levels(q)
  BY NoneAssumption, LevelOfPriority
<1>2. /\ Level2OtelLogsLevel(string(priority2Levels(p))) = 17 - 4 * priority2Levels(p)
      /\ Level2OtelLogsLevel(string(priority2Levels(q))) = 17 - 4 * priority2Levels(q)
  BY <1>1, SeverityOfLevel
<1> QED
  BY <1>1, <1>2

LEMMA SeverityIsGiven ==
    ASSUME NEW p \in 0 .. 7 \cup {None}
    PROVE  Level2OtelLogsLevel(string(priority2Levels(p))) # 0
<1>1. priority2Levels(p) \in -1 .. 3
  BY LevelOfPriority
<1>2. Level2OtelLogsLevel(string(priority2Levels(p))) = 17 - 4 * priority2Levels(p)
  BY <1>1, SeverityOfLevel
<1> QED
  BY <1>1, <1>2

(* The severity of what is exported follows the journal's priority and is  *)
(* never unspecified (level.go:30-69, otel_exporter.go:89-104).            *)
THEOREM SeveritiesFollow == Spec => []SeverityFollowsPriority
<1>1. IInv => SeverityFollowsPriority
  <2> SUFFICES ASSUME IInv, NEW p \in Providers,
                      NEW i \in Range(exported[p]), NEW j \in Range(exported[p])
               PROVE  /\ Severity(i) # 0
                      /\ (/\ journal[i].priority # None /\ journal[j].priority # None
                          /\ journal[i].priority <= journal[j].priority)
                         => Severity(i) >= Severity(j)
    BY DEF SeverityFollowsPriority
  <2>1. exported[p] \in Seq(Messages)
    BY DEF IInv, TypeOK
  <2>2. i \in Messages /\ j \in Messages
    BY <2>1, RangeOfSeq
  <2>3. journal[i] \in Entries /\ journal[j] \in Entries
    BY <2>2, ElementOfSeq DEF IInv, TypeOK, Messages
  <2>4. /\ journal[i].priority \in 0 .. 7 \cup {None}
        /\ journal[j].priority \in 0 .. 7 \cup {None}
    BY <2>3, EntriesAssumption
  <2> QED
    BY <2>4, SeverityIsMonotonic, SeverityIsGiven DEF Severity, Level
<1> QED
  BY <1>1, Inductive, PTL

---------------------------------------------------------------------------
(* The refinement.                                                         *)

LEMMA QueueTypes ==
    ASSUME IInv, NEW p \in Providers
    PROVE  /\ Messages \subseteq 1 .. MaxEntries
           /\ Messages \subseteq Nat
           /\ message[p] \in Seq(Messages) /\ batch[p] \in Seq(Messages)
           /\ exported[p] \in Seq(Messages) /\ Held(p) \in Seq(Messages)
           /\ Accepted(p) \in Seq(Messages)
<1>1. Messages \subseteq 1 .. MaxEntries
  BY BoundAssumption, LenProperties DEF IInv, TypeOK, Messages
<1>2. message[p] \in Seq(Messages) /\ batch[p] \in Seq(Messages) /\ exported[p] \in Seq(Messages)
  BY DEF IInv, TypeOK
<1>3. Held(p) \in Seq(Messages)
  BY DEF IInv, TypeOK, Held
<1>4. Accepted(p) \in Seq(Messages)
  BY <1>2, <1>3, ConcatProperties DEF Accepted
<1> QED
  BY <1>1, <1>2, <1>3, <1>4, BoundAssumption

LEMMA InitRefines == Init => Queue!Init
BY DEF Init, Queue!Init, Accepted, Held

(* A step that leaves what every provider has accepted and exported as it  *)
(* is.                                                                     *)
LEMMA StutterRefines ==
    ASSUME UNCHANGED exported, \A p \in Providers : Accepted(p)' = Accepted(p)
    PROVE  UNCHANGED Queue!vars
BY DEF Queue!vars

(* A step that adds a message to what one provider has accepted.           *)
LEMMA AcceptRefines ==
    ASSUME IInv, NEW p \in Providers, NEW m \in 1 .. MaxEntries,
           UNCHANGED exported,
           Below(exported[p] \o Accepted(p), m),
           Accepted(p)' = Append(Accepted(p), m),
           \A q \in Providers \ {p} : Accepted(q)' = Accepted(q)
    PROVE  Queue!Accept(p)
<1> DEFINE queue == [q \in Providers |-> Accepted(q)]
<1>1. queue' = [queue EXCEPT ![p] = Append(@, m)]
  OBVIOUS
<1>2. queue[p] = Accepted(p)
  OBVIOUS
<1>3. Queue!Later(m, exported[p] \o queue[p])
  BY <1>2 DEF Below, Queue!Later
<1> QED
  BY <1>1, <1>3 DEF Queue!Accept

(* Two facts about sequences.                                              *)
LEMMA ConcatAppend ==
    ASSUME NEW S, NEW s \in Seq(S), NEW t \in Seq(S), NEW e \in S
    PROVE  s \o Append(t, e) = Append(s \o t, e)
<1>1. <<e>> \in Seq(S)
  OBVIOUS
<1>2. s \o (t \o <<e>>) = (s \o t) \o <<e>>
  BY <1>1, ConcatAssociative
<1>3. s \o t \in Seq(S)
  BY ConcatProperties
<1>4. t \o <<e>> = Append(t, e)
  BY AppendIsConcat
<1>5. (s \o t) \o <<e>> = Append(s \o t, e)
  BY <1>3, AppendIsConcat
<1> QED
  BY <1>2, <1>4, <1>5

LEMMA TakeFront ==
    ASSUME NEW S, NEW s \in Seq(S), NEW t \in Seq(S), s # <<>>
    PROVE  /\ Len(s) \in 1 .. Len(s \o t)
           /\ SubSeq(s \o t, 1, Len(s)) = s
           /\ SubSeq(s \o t, Len(s) + 1, Len(s \o t)) = t
<1>1. Len(s) \in Nat \ {0} /\ Len(t) \in Nat
  BY EmptySeq, LenProperties
<1>2. s \o t \in Seq(S) /\ Len(s \o t) = Len(s) + Len(t)
  BY ConcatProperties
<1>3. SubSeq(s \o t, 1, Len(s)) = SubSeq(s, 1, Len(s))
  BY <1>1, SubSeqOfConcat1
<1>4. SubSeq(s, 1, Len(s)) = s
  BY SubSeqFull
<1>5. CASE t = <<>>
  BY <1>1, <1>2, <1>3, <1>4, <1>5, SubSeqEmpty, EmptySeq
<1>6. CASE t # <<>>
  <2>1. Len(t) \in Nat \ {0}
    BY <1>6, EmptySeq
  <2>2. SubSeq(s \o t, Len(s) + 1, Len(s) + Len(t))
          = SubSeq(t, (Len(s) + 1) - Len(s), (Len(s) + Len(t)) - Len(s))
    <3>1. Len(s) + 1 \in Len(s) + 1 .. Len(s) + Len(t)
      BY <1>1, <2>1
    <3>2. Len(s) + Len(t) \in Len(s) + 1 .. Len(s) + Len(t)
      BY <1>1, <2>1
    <3> QED
      BY <3>1, <3>2, SubSeqOfConcat2
  <2>3. (Len(s) + 1) - Len(s) = 1 /\ (Len(s) + Len(t)) - Len(s) = Len(t)
    BY <1>1
  <2>4. SubSeq(t, 1, Len(t)) = t
    BY SubSeqFull
  <2> QED
    BY <1>1, <1>2, <1>3, <1>4, <2>2, <2>3, <2>4
<1> QED
  BY <1>5, <1>6

LEMMA BelowConcat ==
    ASSUME NEW S, NEW s \in Seq(S), NEW t \in Seq(S), NEW n, Below(s, n), Below(t, n)
    PROVE  Below(s \o t, n)
BY ConcatProperties, LenProperties DEF Below

(* What is received is later than all that the provider has.               *)
LEMMA ReceivedIsLatest ==
    ASSUME IInv, NEW p \in Providers, sending # None, reader[p] # "flushing"
    PROVE  Below(exported[p] \o Accepted(p), sending.msg)
<1> DEFINE n == Len(journal)
<1>1. sending.msg = n
  BY DEF IInv, SentIsLatest
<1>2. Below(exported[p], n) /\ Below(batch[p], n) /\ Below(message[p], n)
  BY DEF IInv, SentIsLatest
<1>3. Held(p) = <<>>
  BY DEF IInv, TypeOK, Held
<1>4. Below(Held(p), n)
  BY <1>3 DEF Below
<1>5. batch[p] \o message[p] \in Seq(Messages) /\ Below(batch[p] \o message[p], n)
  BY <1>2, QueueTypes, BelowConcat, ConcatProperties
<1>6. Below(Accepted(p), n)
  BY <1>4, <1>5, QueueTypes, BelowConcat DEF Accepted
<1>7. Below(exported[p] \o Accepted(p), n)
  BY <1>2, <1>6, QueueTypes, BelowConcat
<1> QED
  BY <1>1, <1>7

LEMMA ReceiveRefines ==
    ASSUME IInv, NEW p \in Providers, Receive(p)
    PROVE  Queue!Accept(p) \/ UNCHANGED Queue!vars
<1> DEFINE i == sending.msg
<1>1. i \in Messages /\ i \in 1 .. MaxEntries
  BY QueueTypes DEF Receive, IInv, TypeOK
<1>2. UNCHANGED <<batch, exported>>
  BY DEF Receive, exports
<1>3. Below(exported[p] \o Accepted(p), i)
  BY ReceivedIsLatest DEF Receive
<1>4. held[p] = None /\ Held(p) = <<>>
  BY DEF Receive, IInv, TypeOK, Held
<1>5. Accepted(p) = batch[p] \o message[p]
  BY <1>4, QueueTypes, ConcatProperties, ConcatEmptySeq DEF Accepted
<1>6. CASE ~ journal[i].valid
  <2>1. UNCHANGED buffers
    BY <1>6 DEF Receive, Add
  <2>2. \A q \in Providers : Accepted(q)' = Accepted(q)
    BY <1>2, <2>1 DEF Accepted, Held, buffers
  <2> QED
    BY <1>2, <2>2, StutterRefines
<1>7. CASE journal[i].valid /\ message[p] # <<>> /\ Full(message[p])
  <2>1. held' = [held EXCEPT ![p] = i] /\ UNCHANGED message
    BY <1>7 DEF Receive, Add
  <2>2. Held(p)' = <<i>>
    BY <1>1, <2>1, QueueTypes, NoneAssumption DEF Held, IInv, TypeOK
  <2>3. Accepted(p)' = Append(Accepted(p), i)
    <3>1. Accepted(p)' = (batch[p] \o message[p]) \o <<i>>
      BY <1>2, <2>1, <2>2 DEF Accepted
    <3> QED
      BY <1>1, <1>5, <3>1, QueueTypes, AppendIsConcat
  <2>4. \A q \in Providers \ {p} : Accepted(q)' = Accepted(q)
    BY <1>2, <2>1 DEF Accepted, Held, IInv, TypeOK
  <2> QED
    BY <1>1, <1>2, <1>3, <2>3, <2>4, AcceptRefines
<1>8. CASE journal[i].valid /\ ~ (message[p] # <<>> /\ Full(message[p]))
  <2>1. message' = [message EXCEPT ![p] = Append(@, i)] /\ UNCHANGED held
    BY <1>8 DEF Receive, Add
  <2>2. Accepted(p)' = Append(Accepted(p), i)
    <3>1. message[p]' = Append(message[p], i)
      BY <2>1 DEF IInv, TypeOK
    <3>2. Held(p)' = <<>>
      BY <1>4, <2>1 DEF Held
    <3>3. Append(message[p], i) \in Seq(Messages)
      BY <1>1, QueueTypes, AppendProperties
    <3>4. Accepted(p)' = batch[p] \o Append(message[p], i)
      BY <1>2, <3>1, <3>2, <3>3, QueueTypes, ConcatProperties, ConcatEmptySeq DEF Accepted
    <3>5. batch[p] \o Append(message[p], i) = Append(batch[p] \o message[p], i)
      <4>1. \A s, t \in Seq(Messages) : s \o Append(t, i) = Append(s \o t, i)
        BY <1>1, ConcatAppend
      <4> QED
        BY <4>1, QueueTypes
    <3> QED
      BY <1>5, <3>4, <3>5
  <2>3. \A q \in Providers \ {p} : Accepted(q)' = Accepted(q)
    BY <1>2, <2>1 DEF Accepted, Held, IInv, TypeOK
  <2> QED
    BY <1>1, <1>2, <1>3, <2>2, <2>3, AcceptRefines
<1> QED
  BY <1>6, <1>7, <1>8

(* A flush moves messages within what is accepted.                         *)
LEMMA flushMessageRefines ==
    ASSUME IInv, NEW p \in Providers, flushMessage(p)
    PROVE  UNCHANGED Queue!vars
<1>1. /\ batch[p] = <<>> /\ held[p] \in Messages /\ held[p] # None
      /\ batch'[p] = message[p] /\ message'[p] = <<held[p]>> /\ held'[p] = None
  BY DEF flushMessage, IInv, TypeOK
<1>2. Accepted(p) = message[p] \o <<held[p]>>
  BY <1>1, QueueTypes, ConcatEmptySeq DEF Accepted, Held
<1>3. Accepted(p)' = message[p] \o <<held[p]>>
  <2>1. Accepted(p)' = (message[p] \o <<held[p]>>) \o <<>>
    BY <1>1 DEF Accepted, Held
  <2>2. message[p] \o <<held[p]>> \in Seq(Messages)
    BY <1>2, QueueTypes
  <2> QED
    BY <2>1, <2>2, ConcatEmptySeq
<1>4. \A q \in Providers \ {p} : Accepted(q)' = Accepted(q)
  BY DEF flushMessage, Accepted, Held, IInv, TypeOK
<1> QED
  BY <1>2, <1>3, <1>4, StutterRefines DEF flushMessage

(* An export takes the batch from the front of what is accepted.           *)
LEMMA ExportRefines ==
    ASSUME IInv, NEW p \in Providers, Export(p)
    PROVE  Queue!ExportBatch(p)
<1> DEFINE queue == [q \in Providers |-> Accepted(q)]
           n == Len(batch[p])
           rest == message[p] \o Held(p)
<1>1. /\ exported' = [exported EXCEPT ![p] = @ \o batch[p]]
      /\ batch[p] # <<>> /\ batch'[p] = <<>>
      /\ UNCHANGED <<message, held>>
  BY DEF Export, IInv, TypeOK, buffers
<1>2. rest \in Seq(Messages)
  BY QueueTypes, ConcatProperties
<1>3. Accepted(p) = batch[p] \o rest
  <2>1. batch[p] \in Seq(Messages) /\ message[p] \in Seq(Messages) /\ Held(p) \in Seq(Messages)
    BY QueueTypes
  <2>2. \A s, t, u \in Seq(Messages) : (s \o t) \o u = s \o (t \o u)
    BY ConcatAssociative
  <2> QED
    BY <2>1, <2>2 DEF Accepted
<1>4. batch[p] \in Seq(Messages) /\ batch[p] # <<>>
  BY <1>1, QueueTypes
<1>5. /\ n \in 1 .. Len(Accepted(p))
      /\ SubSeq(Accepted(p), 1, n) = batch[p]
      /\ SubSeq(Accepted(p), n + 1, Len(Accepted(p))) = rest
  <2>1. \A s, t \in Seq(Messages) : s # <<>> =>
           /\ Len(s) \in 1 .. Len(s \o t)
           /\ SubSeq(s \o t, 1, Len(s)) = s
           /\ SubSeq(s \o t, Len(s) + 1, Len(s \o t)) = t
    BY TakeFront
  <2>2. PICK s : s = batch[p]
    OBVIOUS
  <2>3. PICK t : t = rest
    OBVIOUS
  <2>4. s \in Seq(Messages) /\ t \in Seq(Messages) /\ s # <<>> /\ Accepted(p) = s \o t
    BY <1>2, <1>3, <1>4, <2>2, <2>3
  <2>5. /\ Len(s) \in 1 .. Len(s \o t)
        /\ SubSeq(s \o t, 1, Len(s)) = s
        /\ SubSeq(s \o t, Len(s) + 1, Len(s \o t)) = t
    BY <2>1, <2>4
  <2> QED
    BY <2>2, <2>3, <2>4, <2>5
<1>7. Accepted(p)' = rest
  BY <1>1, <1>2, QueueTypes, ConcatEmptySeq, ConcatAssociative DEF Accepted, Held
<1>8. \A q \in Providers \ {p} : Accepted(q)' = Accepted(q)
  BY DEF Export, buffers, Accepted, Held, IInv, TypeOK
<1>9. queue' = [queue EXCEPT ![p] = SubSeq(@, n + 1, Len(@))]
  BY <1>5, <1>7, <1>8
<1>10. exported' = [exported EXCEPT ![p] = @ \o SubSeq(queue[p], 1, n)]
  BY <1>1, <1>5
<1> QED
  BY <1>5, <1>9, <1>10 DEF Queue!ExportBatch

(* All other steps leave accepted and exported messages alone.             *)
LEMMA OthersRefine ==
    ASSUME UNCHANGED <<exported, batch, message, held>>
    PROVE  UNCHANGED Queue!vars
<1>1. \A p \in Providers : Accepted(p)' = Accepted(p)
  BY DEF Accepted, Held
<1> QED
  BY <1>1, StutterRefines

LEMMA NextRefines == IInv /\ [Next]_vars => [Queue!Next]_(Queue!vars)
<1> SUFFICES ASSUME IInv, [Next]_vars
             PROVE  Queue!Next \/ UNCHANGED Queue!vars
  OBVIOUS
<1>1. ASSUME NEW u \in Units, NEW p \in Providers, Subscribe(u, p)
      PROVE  UNCHANGED Queue!vars
  BY <1>1, OthersRefine DEF Subscribe, exports, buffers
<1>2. ASSUME NEW u \in Units, Unsubscribe(u)
      PROVE  UNCHANGED Queue!vars
  BY <1>2, OthersRefine DEF Unsubscribe, exports, buffers
<1>3. ASSUME NEW e \in Entries, fllow(e)
      PROVE  UNCHANGED Queue!vars
  BY <1>3, OthersRefine DEF fllow, exports, buffers
<1>4. ASSUME NEW p \in Providers, Start(p) \/ Stop(p) \/ ReaderLeaves(p) \/ ExporterLeaves(p)
      PROVE  UNCHANGED Queue!vars
  BY <1>4, OthersRefine DEF Start, Stop, ReaderLeaves, ExporterLeaves, exports, buffers
<1>5. ASSUME NEW p \in Providers, Receive(p) \/ flushMessage(p) \/ Export(p)
      PROVE  Queue!Next \/ UNCHANGED Queue!vars
  BY <1>5, ReceiveRefines, flushMessageRefines, ExportRefines DEF Queue!Next
<1>6. CASE UNCHANGED vars
  BY <1>6, OthersRefine DEF vars, exports, buffers
<1> QED
  BY <1>1, <1>2, <1>3, <1>4, <1>5, <1>6 DEF Next

(* The goroutines, the buffer and its flushes implement the queue: every   *)
(* message a provider accepts is exported at most once and in the order of *)
(* the journal, whenever buffers are flushed and providers stopped         *)
(* (multiline_buffer.go:42-65, log_provider.go:48-68).                     *)
THEOREM Refinement == Spec => ImplementsQueue
<1>1. Init => Queue!Init
  BY InitRefines
<1>2. IInv /\ [Next]_vars => [Queue!Next]_(Queue!vars)
  BY NextRefines
<1> QED
  BY <1>1, <1>2, Inductive, PTL DEF Spec, ImplementsQueue, Queue!Spec

---------------------------------------------------------------------------
(* How much a provider keeps, and who can go on: the states that           *)
(* FollowProceeds and MessagesLeave rest on.                               *)

(* An empty buffer takes a message even when no line is allowed.           *)
Most == IF maxLines = 0 THEN 1 ELSE maxLines

BuffersAreBounded ==
    \A p \in Providers : Len(message[p]) <= Most /\ Len(batch[p]) <= Most

StartedGoOn ==
    \A p \in Providers : provider[p] = "started" =>
        reader[p] \in {"select", "flushing"} /\ exporter[p] \in {"select", "exporting"}

BInv == BuffersAreBounded /\ StartedGoOn

CanFlush(p)  == reader[p] = "flushing" /\ exporter[p] = "select"
CanExport(p) == exporter[p] = "exporting"

(* A batch, a full buffer and the message that waits for the flush.        *)
KeptIsBounded == \A p \in Providers : Len(Accepted(p)) <= 2 * Most + 1

(* The goroutines of a provider that is not stopped never wait for each    *)
(* other: when the journal's goroutine cannot hand over, a flush or an     *)
(* export can take place; when more is kept than a buffer holds, too.      *)
NoWaitCycle ==
    \A p \in Providers :
        /\ provider[p] = "started" /\ reader[p] # "select" => CanFlush(p) \/ CanExport(p)
        /\ provider[p] # "stopped" /\ Len(Accepted(p)) > Most => CanFlush(p) \/ CanExport(p)

LEMMA MostIsPositive == Most \in Nat /\ Most >= 1 /\ Most >= maxLines
BY EntriesAssumption DEF Most

LEMMA InitBounds == Init => BInv
BY MostIsPositive, EmptySeq DEF Init, BInv, BuffersAreBounded, StartedGoOn

LEMMA ReceiveBounds ==
    ASSUME IInv, BInv, NEW p \in Providers, Receive(p)
    PROVE  BInv'
<1> DEFINE i == sending.msg
<1>1. /\ UNCHANGED <<batch, provider, exporter>>
      /\ message[p] \in Seq(Messages) /\ i \in Messages
  BY QueueTypes DEF Receive, exports, IInv, TypeOK
<1>2. /\ Len(message'[p]) <= Most
      /\ reader'[p] \in {reader[p], "flushing"}
      /\ \A q \in Providers \ {p} : message'[q] = message[q] /\ reader'[q] = reader[q]
  <2>1. CASE UNCHANGED buffers
    BY <2>1 DEF buffers, BInv, BuffersAreBounded
  <2>2. CASE reader' = [reader EXCEPT ![p] = "flushing"] /\ UNCHANGED message
    BY <2>2 DEF BInv, BuffersAreBounded, IInv, TypeOK
  <2>3. CASE /\ ~ (message[p] # <<>> /\ Full(message[p]))
             /\ message' = [message EXCEPT ![p] = Append(@, i)]
             /\ UNCHANGED reader
    <3>1. message'[p] = Append(message[p], i)
          /\ \A q \in Providers \ {p} : message'[q] = message[q]
      BY <2>3 DEF IInv, TypeOK
    <3>2. Len(Append(message[p], i)) = Len(message[p]) + 1 /\ Len(message[p]) \in Nat
      BY <1>1, AppendProperties, LenProperties
    <3>3. message[p] = <<>> \/ Len(message[p]) < maxLines
      BY <2>3, <3>2, EntriesAssumption DEF Full
    <3>4. message[p] = <<>> => Len(message[p]) = 0
      BY EmptySeq
    <3>5. Len(message'[p]) <= Most
      BY <3>1, <3>2, <3>3, <3>4, MostIsPositive, EntriesAssumption
    <3> QED
      BY <2>3, <3>1, <3>5
  <2> QED
    BY <2>1, <2>2, <2>3 DEF Receive, Add
<1>3. reader[p] = "select"
  BY DEF Receive
<1> QED
  BY <1>1, <1>2, <1>3 DEF BInv, BuffersAreBounded, StartedGoOn

LEMMA flushMessageBounds ==
    ASSUME IInv, BInv, NEW p \in Providers, flushMessage(p)
    PROVE  BInv'
<1>1. /\ batch'[p] = message[p] /\ message'[p] = <<held[p]>>
      /\ reader'[p] = "select" /\ exporter'[p] = "exporting" /\ UNCHANGED provider
      /\ \A q \in Providers \ {p} : /\ batch'[q] = batch[q] /\ message'[q] = message[q]
                                    /\ reader'[q] = reader[q] /\ exporter'[q] = exporter[q]
  BY DEF flushMessage, IInv, TypeOK
<1>2. Len(message'[p]) <= Most
  <2>1. Len(<<held[p]>>) = 1
    OBVIOUS
  <2> QED
    BY <1>1, <2>1, MostIsPositive
<1>3. Len(batch'[p]) <= Most
  BY <1>1 DEF BInv, BuffersAreBounded
<1>4. BuffersAreBounded'
  BY <1>1, <1>2, <1>3 DEF BInv, BuffersAreBounded
<1>5. StartedGoOn'
  BY <1>1 DEF BInv, StartedGoOn
<1> QED
  BY <1>4, <1>5 DEF BInv

LEMMA ExportBounds ==
    ASSUME IInv, BInv, NEW p \in Providers, Export(p)
    PROVE  BInv'
<1>1. /\ batch'[p] = <<>> /\ exporter'[p] = "select"
      /\ UNCHANGED <<provider, reader, message>>
      /\ \A q \in Providers \ {p} : batch'[q] = batch[q] /\ exporter'[q] = exporter[q]
  BY DEF Export, buffers, IInv, TypeOK
<1>2. Len(<<>>) = 0
  BY EmptySeq
<1> QED
  BY <1>1, <1>2, MostIsPositive DEF BInv, BuffersAreBounded, StartedGoOn

(* Starting, stopping and leaving.                                         *)
LEMMA LifecycleBounds ==
    ASSUME IInv, BInv, NEW p \in Providers,
           Start(p) \/ Stop(p) \/ ReaderLeaves(p) \/ ExporterLeaves(p)
    PROVE  BInv'
<1>1. UNCHANGED <<message, batch>>
  BY DEF Start, Stop, ReaderLeaves, ExporterLeaves, buffers, exports
<1>2. BuffersAreBounded'
  BY <1>1 DEF BInv, BuffersAreBounded
<1>3. \A q \in Providers \ {p} :
         provider'[q] = provider[q] /\ reader'[q] = reader[q] /\ exporter'[q] = exporter[q]
  BY DEF Start, Stop, ReaderLeaves, ExporterLeaves, buffers, exports, IInv, TypeOK
<1>4. provider'[p] = "started" => reader'[p] = "select" /\ exporter'[p] = "select"
  BY DEF Start, Stop, ReaderLeaves, ExporterLeaves, IInv, TypeOK
<1>5. StartedGoOn'
  BY <1>3, <1>4 DEF BInv, StartedGoOn
<1> QED
  BY <1>2, <1>5 DEF BInv

LEMMA NextBounds == IInv /\ BInv /\ [Next]_vars => BInv'
<1> SUFFICES ASSUME IInv, BInv, [Next]_vars
             PROVE  BInv'
  OBVIOUS
<1>1. CASE UNCHANGED <<provider, buffers, exports>>
  BY <1>1 DEF buffers, exports, BInv, BuffersAreBounded, StartedGoOn
<1>2. CASE \/ \E u \in Units, p \in Providers : Subscribe(u, p)
           \/ \E u \in Units : Unsubscribe(u)
           \/ \E e \in Entries : fllow(e)
           \/ UNCHANGED vars
  BY <1>1, <1>2 DEF Subscribe, Unsubscribe, fllow, vars
<1>3. ASSUME NEW p \in Providers, Start(p) \/ Stop(p) \/ ReaderLeaves(p) \/ ExporterLeaves(p)
      PROVE  BInv'
  BY <1>3, LifecycleBounds
<1>4. ASSUME NEW p \in Providers, Receive(p) \/ flushMessage(p) \/ Export(p)
      PROVE  BInv'
  BY <1>4, ReceiveBounds, flushMessageBounds, ExportBounds
<1> QED
  BY <1>2, <1>3, <1>4 DEF Next

LEMMA Bounded == Spec => [](IInv /\ BInv)
<1>1. Init => IInv /\ BInv
  BY InitInvariant, InitBounds
<1>2. IInv /\ BInv /\ [Next]_vars => (IInv /\ BInv)'
  BY NextPreserves, NextBounds
<1> QED
  BY <1>1, <1>2, PTL DEF Spec

(* What a provider keeps is as long as its parts.                          *)
LEMMA AcceptedLength ==
    ASSUME IInv, NEW p \in Providers
    PROVE  /\ Len(Accepted(p)) = Len(batch[p]) + Len(message[p]) + Len(Held(p))
           /\ Len(batch[p]) \in Nat /\ Len(message[p]) \in Nat /\ Len(Held(p)) \in {0, 1}
           /\ Len(batch[p]) # 0 => exporter[p] = "exporting"
           /\ Len(Held(p)) # 0 => reader[p] = "flushing"
<1>1. \A s, t \in Seq(Messages) : /\ s \o t \in Seq(Messages)
                                  /\ Len(s \o t) = Len(s) + Len(t) /\ Len(s) \in Nat
  BY ConcatProperties, LenProperties
<1>2. Len(Held(p)) = IF held[p] = None THEN 0 ELSE 1
  BY EmptySeq DEF Held
<1>3. Len(batch[p]) # 0 => batch[p] # <<>>
  BY EmptySeq
<1>4. /\ batch[p] # <<>> => exporter[p] = "exporting"
      /\ held[p] # None => reader[p] = "flushing"
  BY DEF IInv, TypeOK
<1>5. batch[p] \o message[p] \in Seq(Messages)
  BY <1>1, QueueTypes
<1>6. Len(Accepted(p)) = Len(batch[p]) + Len(message[p]) + Len(Held(p))
  BY <1>1, <1>5, QueueTypes DEF Accepted
<1>7. Len(batch[p]) \in Nat /\ Len(message[p]) \in Nat
  BY <1>1, QueueTypes
<1> QED
  BY <1>2, <1>3, <1>4, <1>6, <1>7

(* However slow the exporter is, a provider keeps two buffers and one      *)
(* message at most: a full buffer holds up the journal instead of growing  *)
(* (multiline_buffer.go:42-65).                                            *)
THEOREM KeepsLittle == Spec => []KeptIsBounded
<1>1. IInv /\ BInv => KeptIsBounded
  <2> SUFFICES ASSUME IInv, BInv, NEW p \in Providers
               PROVE  Len(Accepted(p)) <= 2 * Most + 1
    BY DEF KeptIsBounded
  <2>1. Len(batch[p]) <= Most /\ Len(message[p]) <= Most
    BY DEF BInv, BuffersAreBounded
  <2>2. /\ Len(Accepted(p)) = Len(batch[p]) + Len(message[p]) + Len(Held(p))
        /\ Len(batch[p]) \in Nat /\ Len(message[p]) \in Nat /\ Len(Held(p)) \in {0, 1}
    BY AcceptedLength
  <2>3. \A b, m, n \in Nat : \A h \in {0, 1} : b <= n /\ m <= n => b + m + h <= 2 * n + 1
    OBVIOUS
  <2> QED
    BY <2>1, <2>2, <2>3, MostIsPositive
<1> QED
  BY <1>1, Bounded, PTL

(* Adding waits for the flush, the flush for the exporter and the journal  *)
(* for the adding, but never in a circle, so the fair steps that           *)
(* FollowProceeds and MessagesLeave ask for can be taken                   *)
(* (multiline_buffer.go:42-65, log_provider.go:48-68).                     *)
THEOREM NobodyWaitsInACircle == Spec => []NoWaitCycle
<1>1. IInv /\ BInv => NoWaitCycle
  <2> SUFFICES ASSUME IInv, BInv, NEW p \in Providers
               PROVE  /\ provider[p] = "started" /\ reader[p] # "select"
                           => CanFlush(p) \/ CanExport(p)
                      /\ provider[p] # "stopped" /\ Len(Accepted(p)) > Most
                           => CanFlush(p) \/ CanExport(p)
    BY DEF NoWaitCycle
  <2>1. ASSUME provider[p] = "started", reader[p] = "flushing"
        PROVE  CanFlush(p) \/ CanExport(p)
    BY <2>1 DEF BInv, StartedGoOn, CanFlush, CanExport
  <2>2. provider[p] = "started" => reader[p] \in {"select", "flushing"}
    BY DEF BInv, StartedGoOn
  <2>3. ASSUME provider[p] # "stopped", Len(Accepted(p)) > Most, ~ CanExport(p)
        PROVE  provider[p] = "started" /\ reader[p] = "flushing"
    <3>1. Len(batch[p]) = 0
      BY <2>3, AcceptedLength DEF CanExport
    <3>2. Len(message[p]) <= Most
      BY DEF BInv, BuffersAreBounded
    <3>3. reader[p] = "flushing"
      <4>1. /\ Len(Accepted(p)) = Len(batch[p]) + Len(message[p]) + Len(Held(p))
            /\ Len(message[p]) \in Nat /\ Len(Held(p)) \in {0, 1}
            /\ Len(Held(p)) # 0 => reader[p] = "flushing"
        BY AcceptedLength
      <4>2. Len(Held(p)) # 0
        BY <2>3, <3>1, <3>2, <4>1, MostIsPositive
      <4> QED
        BY <4>1, <4>2
    <3>4. provider[p] = "started"
      BY <2>3, <3>3 DEF IInv, TypeOK, GoroutinesAgree
    <3> QED
      BY <3>3, <3>4
  <2> QED
    BY <2>1, <2>2, <2>3
<1> QED
  BY <1>1, Bounded, PTL

=============================================================================
