---------------------------- MODULE LogPipeline ----------------------------
(***************************************************************************)
(* The log path: one goroutine follows the journal and hands each entry to *)
(* the channel subscribed for its unit (pkg/log/journal_reader.go); behind *)
(* every channel a provider collects messages in a buffer and exports them *)
(* in batches (pkg/exporter/log/log_provider.go, pkg/log/                  *)
(* multiline_buffer.go).  No channel is buffered: a send and its receive   *)
(* are one step, and a sender without a receiver waits.                    *)
(*                                                                         *)
(* A message is its place among the entries that were handed on; Entries   *)
(* says what an entry holds.                                               *)
(***************************************************************************)
EXTENDS Naturals, Integers, SequencesExt

CONSTANTS
    Units,           \* values of the field the journal is filtered by
    Providers,       \* a provider stands for its channel, too
    Entries,         \* what may be in the journal
    maxLines, maxBytes,
    MaxEntries,      \* bound: entries handed on
    None

ASSUME EntriesAssumption ==
    /\ \A e \in Entries : e.unit \in Units /\ e.size \in Nat
                          /\ e.priority \in 0 .. 7 \cup {None} /\ e.valid \in BOOLEAN
    /\ maxLines \in Nat /\ maxBytes \in Nat

ASSUME BoundAssumption == MaxEntries \in Nat
ASSUME NoneAssumption == None \notin Nat \cup Providers

VARIABLES
    journal,         \* the entries that fllow has found a channel for
    subscribers,     \* JournalReader.subscribers
    sending,         \* the message and the channel fllow is sending on, or None
    provider,        \* "new", "started" or "stopped"
    reader,          \* reading goroutine: "off", "select", "flushing" or "done"
    held,            \* the message whose Add waits for the flush, or None
    message,         \* MessageBuffer.message
    exporter,        \* exporting goroutine: "off", "select", "exporting", "done"
    batch,           \* what it exports
    exported,        \* everything it has exported, in order
    stragglers       \* history: deliveries since the last unit of the channel was
                     \* unsubscribed, None while there is one

source == <<journal, subscribers, sending>>
buffers == <<reader, held, message>>
exports == <<exporter, batch, exported>>
vars == <<source, provider, buffers, exports, stragglers>>

Messages == DOMAIN journal

Init ==
    /\ journal = <<>>
    /\ subscribers = [u \in Units |-> None]
    /\ sending = None
    /\ provider = [p \in Providers |-> "new"]
    /\ reader = [p \in Providers |-> "off"]
    /\ held = [p \in Providers |-> None]
    /\ message = [p \in Providers |-> <<>>]
    /\ exporter = [p \in Providers |-> "off"]
    /\ batch = [p \in Providers |-> <<>>]
    /\ exported = [p \in Providers |-> <<>>]
    /\ stragglers = [p \in Providers |-> None]

---------------------------------------------------------------------------
(* The journal reader                                                      *)

Subscribe(u, p) ==
    /\ subscribers[u] = None           \* otherwise the caller gets an error
    /\ subscribers' = [subscribers EXCEPT ![u] = p]
    /\ stragglers' = [stragglers EXCEPT ![p] = None]
    /\ UNCHANGED <<journal, sending, provider, buffers, exports>>

CountStragglers(u) ==
    stragglers' = IF \E v \in Units \ {u} : subscribers[v] = subscribers[u]
                  THEN stragglers ELSE [stragglers EXCEPT ![subscribers[u]] = 0]

(* A mistake: the test of Unsubscribe taken for an early return.           *)
UnsubscribeUnknownOnly(u) ==
    /\ subscribers[u] # None
    /\ CountStragglers(u)
    /\ UNCHANGED <<source, provider, buffers, exports>>

Unsubscribe(u) ==
    /\ subscribers[u] # None
    /\ subscribers' = [subscribers EXCEPT ![u] = None]
    /\ CountStragglers(u)
    /\ UNCHANGED <<journal, sending, provider, buffers, exports>>

(* A mistake: no test of whether there is a channel.                       *)
fllowUntested(e) ==
    /\ sending = None
    /\ e.size > 0
    /\ Len(journal) < MaxEntries
    /\ journal' = Append(journal, e)
    /\ sending' = [msg |-> Len(journal'), ch |-> subscribers[e.unit]]
    /\ UNCHANGED <<subscribers, provider, buffers, exports, stragglers>>

(* Reads the next entry and looks up the channel of its unit, under the    *)
(* lock; an entry nobody has subscribed for is dropped, as is one without  *)
(* a text.  An error of the journal ends the goroutine: it takes no        *)
(* further step, and none is asked of it.                                  *)
fllow(e) ==
    /\ sending = None
    /\ IF e.size = 0 \/ subscribers[e.unit] = None
       THEN UNCHANGED <<journal, sending>>
       ELSE /\ Len(journal) < MaxEntries
            /\ journal' = Append(journal, e)
            /\ sending' = [msg |-> Len(journal'), ch |-> subscribers[e.unit]]
    /\ UNCHANGED <<subscribers, provider, buffers, exports, stragglers>>

---------------------------------------------------------------------------
(* The provider and its buffer                                             *)

(* A mistake: no goroutine that exports.                                   *)
StartReaderOnly(p) ==
    /\ provider[p] = "new"
    /\ provider' = [provider EXCEPT ![p] = "started"]
    /\ reader' = [reader EXCEPT ![p] = "select"]
    /\ UNCHANGED <<source, exporter, held, message, batch, exported, stragglers>>

Start(p) ==
    /\ provider[p] = "new"
    /\ provider' = [provider EXCEPT ![p] = "started"]
    /\ reader' = [reader EXCEPT ![p] = "select"]
    /\ exporter' = [exporter EXCEPT ![p] = "select"]
    /\ UNCHANGED <<source, held, message, batch, exported, stragglers>>

Stop(p) ==
    /\ provider[p] = "started"
    /\ provider' = [provider EXCEPT ![p] = "stopped"]
    /\ UNCHANGED <<source, buffers, exports, stragglers>>

(* Length of the buffer as it is marshalled.                               *)
Bytes(s) == FoldSeq(LAMBDA i, sum : sum + journal[i].size, 0, s)

(* A mistake: the limits may be passed, not only reached.                  *)
FullWith(s) == Len(s) > maxLines \/ Bytes(s) > maxBytes

Full(s) == Len(s) >= maxLines \/ Bytes(s) >= maxBytes

(* Add refuses what is not UTF-8.  A full buffer is flushed first, which   *)
(* blocks until the exporter takes it, and with it the whole provider.     *)
Add(p, i) ==
    IF ~ journal[i].valid THEN UNCHANGED buffers
    ELSE IF message[p] # <<>> /\ Full(message[p])
    THEN /\ held' = [held EXCEPT ![p] = i]
         /\ reader' = [reader EXCEPT ![p] = "flushing"]
         /\ UNCHANGED message
    ELSE /\ message' = [message EXCEPT ![p] = Append(@, i)]
         /\ UNCHANGED <<held, reader>>

(* fllow's send meets the provider's receive.                              *)
Receive(p) ==
    /\ sending # None /\ sending.ch = p
    /\ reader[p] = "select"
    /\ sending' = None
    /\ Add(p, sending.msg)
    /\ stragglers' = [stragglers EXCEPT ![p] =
                        IF @ = None THEN None ELSE @ + 1]
    /\ UNCHANGED <<journal, subscribers, provider, exports>>

(* A mistake: the buffer is not reset.                                     *)
flushKeeping(p) ==
    /\ reader[p] = "flushing" /\ exporter[p] = "select"
    /\ batch' = [batch EXCEPT ![p] = message[p]]
    /\ exporter' = [exporter EXCEPT ![p] = "exporting"]
    /\ message' = [message EXCEPT ![p] = Append(@, held[p])]
    /\ held' = [held EXCEPT ![p] = None]
    /\ reader' = [reader EXCEPT ![p] = "select"]
    /\ UNCHANGED <<source, provider, exported, stragglers>>

(* flushMessage's send meets the exporter's receive; Add goes on with an   *)
(* empty buffer.                                                           *)
flushMessage(p) ==
    /\ reader[p] = "flushing" /\ exporter[p] = "select"
    /\ batch' = [batch EXCEPT ![p] = message[p]]
    /\ exporter' = [exporter EXCEPT ![p] = "exporting"]
    /\ message' = [message EXCEPT ![p] = <<held[p]>>]
    /\ held' = [held EXCEPT ![p] = None]
    /\ reader' = [reader EXCEPT ![p] = "select"]
    /\ UNCHANGED <<source, provider, exported, stragglers>>

Export(p) ==
    /\ exporter[p] = "exporting"
    /\ exported' = [exported EXCEPT ![p] = @ \o batch[p]]
    /\ batch' = [batch EXCEPT ![p] = <<>>]
    /\ exporter' = [exporter EXCEPT ![p] = "select"]
    /\ UNCHANGED <<source, provider, buffers, stragglers>>

(* After Stop each goroutine leaves, when it is at its select; it may also *)
(* go on receiving first, for a select picks among what is ready.          *)
ReaderLeaves(p) ==
    /\ provider[p] = "stopped" /\ reader[p] = "select"
    /\ reader' = [reader EXCEPT ![p] = "done"]
    /\ UNCHANGED <<source, provider, held, message, exports, stragglers>>

ExporterLeaves(p) ==
    /\ provider[p] = "stopped" /\ exporter[p] = "select"
    /\ exporter' = [exporter EXCEPT ![p] = "done"]
    /\ UNCHANGED <<source, provider, buffers, batch, exported, stragglers>>

Next ==
    \/ \E u \in Units, p \in Providers : Subscribe(u, p)
    \/ \E u \in Units : Unsubscribe(u)
    \/ \E e \in Entries : fllow(e)
    \/ \E p \in Providers :
          \/ Start(p) \/ Stop(p)
          \/ Receive(p) \/ flushMessage(p) \/ Export(p)
          \/ ReaderLeaves(p) \/ ExporterLeaves(p)

(* Goroutines are scheduled; users and the journal owe nothing.            *)
Fairness ==
    \A p \in Providers :
        /\ WF_vars(Receive(p)) /\ WF_vars(flushMessage(p)) /\ WF_vars(Export(p))
        /\ WF_vars(ReaderLeaves(p)) /\ WF_vars(ExporterLeaves(p))

Spec == Init /\ [][Next]_vars /\ Fairness

---------------------------------------------------------------------------
(* Levels: what a priority of the journal becomes on the way out.          *)

LevelCritical == -1
LevelError    == 0
LevelWarning  == 1
LevelInfo     == 2
LevelDebug    == 3

(* A priority that is not there gets the zero value of the map.            *)
priority2Levels(priority) ==
    CASE priority \in 0 .. 2  -> LevelCritical
      [] priority \in {3, None} -> LevelError
      [] priority = 4         -> LevelWarning
      [] priority \in {5, 6}  -> LevelInfo
      [] priority = 7         -> LevelDebug

(* Message.Level carries a text, and LevelCritical has none.               *)
string(l) ==
    CASE l = LevelDebug   -> "DEBUG"
      [] l = LevelInfo    -> "INFO"
      [] l = LevelWarning -> "WARN"
      [] l = LevelError   -> "ERROR"
      [] OTHER            -> ""

(* A mistake: an unknown text gives a level nobody handles.                *)
String2LevelUnknown(text) ==
    CASE text = "DEBUG" -> LevelDebug
      [] text = "INFO"  -> LevelInfo
      [] text = "WARN"  -> LevelWarning
      [] text = "ERROR" -> LevelError
      [] OTHER          -> LevelDebug + 1

String2Level(text) ==
    CASE text = "DEBUG" -> LevelDebug
      [] text = "INFO"  -> LevelInfo
      [] text = "WARN"  -> LevelWarning
      [] text = "ERROR" -> LevelError
      [] OTHER          -> -1

(* The severity numbers of OpenTelemetry: 0 is unspecified.                *)
Level2OtelLogsLevel(text) ==
    LET level == String2Level(text) IN
    CASE level = LevelDebug    -> 5
      [] level = LevelInfo     -> 9
      [] level = LevelWarning  -> 13
      [] level = LevelError    -> 17
      [] level = LevelCritical -> 21
      [] OTHER                 -> 0

Level(i)    == priority2Levels(journal[i].priority)
Severity(i) == Level2OtelLogsLevel(string(Level(i)))

---------------------------------------------------------------------------
(* Properties                                                              *)

(* Every variable stays in its type (journal_reader.go:12-16,              *)
(* multiline_buffer.go:11-20, log_provider.go:22-27).                      *)
TypeOK ==
    /\ journal \in Seq(Entries) /\ Len(journal) <= MaxEntries
    /\ subscribers \in [Units -> Providers \cup {None}]
    /\ sending = None \/ sending \in [msg : Messages, ch : Providers]
    /\ provider \in [Providers -> {"new", "started", "stopped"}]
    /\ reader \in [Providers -> {"off", "select", "flushing", "done"}]
    /\ exporter \in [Providers -> {"off", "select", "exporting", "done"}]
    /\ held \in [Providers -> Messages \cup {None}]
    /\ {message, batch, exported} \subseteq [Providers -> Seq(Messages)]
    /\ stragglers \in [Providers -> 0 .. MaxEntries \cup {None}]
    /\ \A p \in Providers : /\ held[p] # None <=> reader[p] = "flushing"
                            /\ batch[p] # <<>> <=> exporter[p] = "exporting"

Held(p) == IF held[p] = None THEN <<>> ELSE <<held[p]>>

(* What a provider has accepted and not exported, wherever it is.          *)
Accepted(p) == batch[p] \o message[p] \o Held(p)

Queue == INSTANCE LogQueue WITH
             queue <- [p \in Providers |-> Accepted(p)],
             Messages <- 1 .. MaxEntries

(* The goroutines, the buffer and its flushes amount to the queue of       *)
(* LogQueue: no flush and no stop at any moment loses, repeats or swaps a  *)
(* message (multiline_buffer.go:42-65, log_provider.go:48-68).             *)
ImplementsQueue == Queue!Spec

(* A channel looked up before Unsubscribe may still get that one message,  *)
(* and no other (journal_reader.go:71-77, 101-108).                        *)
AtMostOneStraggler == \A p \in Providers : stragglers[p] \in {None, 0, 1}

(* The severity a message is exported with keeps the order of the          *)
(* journal's priorities, and none is left unspecified, although a level    *)
(* travels as a text and the gravest one has none (level.go:30-69,         *)
(* otel_exporter.go:89-104).                                               *)
SeverityFollowsPriority ==
    \A p \in Providers : \A i, j \in Range(exported[p]) :
        /\ Severity(i) # 0
        /\ (/\ journal[i].priority # None /\ journal[j].priority # None
            /\ journal[i].priority <= journal[j].priority) => Severity(i) >= Severity(j)

(* The journal is not held up by a provider that has started and is not    *)
(* stopped (journal_reader.go:77).                                         *)
FollowProceeds ==
    \A p \in Providers : (sending # None /\ sending.ch = p)
        ~> (sending = None \/ sending.ch # p \/ provider[p] # "started")

(* A message does not wait for the timeout nobody sets: when maxLines more *)
(* have come it is exported, unless the provider is stopped                *)
(* (multiline_buffer.go:42-63).                                            *)
MessagesLeave ==
    \A p \in Providers : \A k \in 1 .. MaxEntries :
        (Len(exported[p] \o Accepted(p)) >= k + maxLines)
            ~> (Len(exported[p]) >= k \/ provider[p] = "stopped")

=============================================================================
