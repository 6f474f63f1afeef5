--------------------------- MODULE StatementCache ---------------------------
(***************************************************************************)
(* pkg/ebpftracer/l7/mysql.go and postgres.go: the tables in which the     *)
(* parsers keep the text of prepared statements, so that an execution,     *)
(* which names its statement only, is shown with the text it executes.     *)
(*                                                                         *)
(* The parsers learn of statements from records that l7.c makes at two     *)
(* moments: the record of a PREPARE or EXECUTE when its response is read,  *)
(* the record of a CLOSE when it is written.  Records of one connection    *)
(* travel through the rings of several CPUs: they can overtake each other  *)
(* and get lost.  A response l7.c does not recognise is a record lost.     *)
(*                                                                         *)
(* One connection and the parser that serves it.  A text is known by its   *)
(* number; queries without a statement are left out.                       *)
(***************************************************************************)
EXTENDS Integers, Sequences, SequencesExt

CONSTANTS
    None,
    Names, Unnamed,      \* names that Postgres clients give to statements
    MaxTexts,            \* bound on the texts prepared
    MaxOnTheWay          \* bound on the records in the rings

ASSUME NamesAssumption == Unnamed \in Names /\ \A name \in Names : name \notin Nat
ASSUME BoundsAssumption == MaxTexts \in Nat /\ MaxOnTheWay \in Nat

VARIABLES
    protocol,            \* the parser: "mysql" or "postgres"
    prepared,            \* texts the program has asked to prepare
    server,              \* the text of each statement the server has, or None
    awaited,             \* the request whose response the program awaits, or None
    path,                \* records on their way to the parser
    preparedStatements,  \* the parser's table
    shown,               \* what the last execution was shown as, or None
    disturbed            \* a record was lost or overtook another, or a Parse of
                         \* Postgres was refused

vars == <<protocol, prepared, server, awaited, path, preparedStatements, shown, disturbed>>

Texts      == 1 .. MaxTexts
Ids        == 0 .. MaxTexts        \* MySQL's, from its server; 0 is none
Keys       == Names \cup Ids
TheUnknown == 0                    \* "EXECUTE s /* unknown */"
Request    == [op : {"prepare", "execute"}, key : Keys, text : Texts,
               accepted : BOOLEAN, closed : BOOLEAN]

ASSUME NoneAssumption == None \notin Nat \cup Request

Init ==
    /\ protocol \in {"mysql", "postgres"}
    /\ prepared = 0
    /\ server = [k \in Keys |-> None]
    /\ awaited = None
    /\ path = <<>>
    /\ preparedStatements = [k \in Keys |-> None]
    /\ shown = None
    /\ disturbed = FALSE

---------------------------------------------------------------------------
(* The program and its server.  The program awaits each response, but may  *)
(* close statements and portals while an execution is under way.           *)

(* MySQL's server numbers the statements it accepts.  Postgres's clients   *)
(* name them: a name in use is refused unless it is the empty one.         *)
Prepare(key, accepted) ==
    LET text == prepared + 1
    IN  /\ awaited = None
        /\ text \in Texts
        /\ IF protocol = "mysql" THEN key = IF accepted THEN text ELSE 0
           ELSE key \in Names /\ (accepted => key = Unnamed \/ server[key] = None)
        /\ prepared' = text
        /\ server' = IF accepted \/ key = Unnamed
                     THEN [server EXCEPT ![key] = IF accepted THEN text ELSE None]
                     ELSE server
        /\ awaited' = [op |-> "prepare", key |-> key, text |-> text,
                       accepted |-> accepted, closed |-> FALSE]
        /\ disturbed' = (disturbed \/ (protocol = "postgres" /\ ~ accepted))
        /\ UNCHANGED <<protocol, path, preparedStatements, shown>>

Execute(key) ==
    /\ awaited = None
    /\ server[key] # None
    /\ awaited' = [op |-> "execute", key |-> key, text |-> server[key],
                   accepted |-> TRUE, closed |-> FALSE]
    /\ UNCHANGED <<protocol, prepared, server, path, preparedStatements, shown, disturbed>>

(* The statement id of a PREPARE's record: the response's if it is an OK,  *)
(* otherwise what the reset of the record left, not that of the last one.  *)
StatementIdKept(request) == IF request.accepted THEN request.key ELSE request.text - 1
StatementId(request) == IF request.accepted THEN request.key ELSE 0

Record(request) ==
    [kind |-> request.op, text |-> request.text, closed |-> request.closed,
     key |-> IF protocol = "mysql" /\ request.op = "prepare" THEN StatementId(request)
             ELSE request.key]

Send(record) ==
    /\ Len(path) < MaxOnTheWay
    /\ path' = Append(path, record)

(* The response is read, and recognised.                                   *)
Answer ==
    /\ awaited # None
    /\ Send(Record(awaited))
    /\ awaited' = None
    /\ UNCHANGED <<protocol, prepared, server, preparedStatements, shown, disturbed>>

MayClose == awaited # None => awaited.op = "execute"

Close(key) ==
    /\ MayClose
    /\ server[key] # None
    /\ Send([kind |-> "close", key |-> key, text |-> server[key], closed |-> TRUE])
    /\ server' = [server EXCEPT ![key] = None]
    /\ awaited' = IF awaited # None /\ awaited.key = key
                  THEN [awaited EXCEPT !.closed = TRUE] ELSE awaited
    /\ UNCHANGED <<protocol, prepared, preparedStatements, shown, disturbed>>

(* A Close of Postgres can also name a portal.                             *)
ClosePortal(name) ==
    /\ protocol = "postgres"
    /\ MayClose
    /\ Send([kind |-> "portal", key |-> name, text |-> TheUnknown, closed |-> TRUE])
    /\ UNCHANGED <<protocol, prepared, server, awaited, preparedStatements, shown, disturbed>>

Lose(i) ==
    /\ path' = RemoveAt(path, i)
    /\ disturbed' = TRUE
    /\ UNCHANGED <<protocol, prepared, server, awaited, preparedStatements, shown>>

---------------------------------------------------------------------------
(* The parsers                                                             *)

(* The text of an execution.                                               *)
TextUnchecked(key) == preparedStatements[key]
Text(key) == IF preparedStatements[key] = None THEN TheUnknown ELSE preparedStatements[key]

(* What a record does to the table.  A PREPARE counts whatever became of   *)
(* it, a Close only if it names a statement.                               *)
NothingClosed(record) == FALSE
ClosesStatement(record) == record.kind = "close"

Updated(record) ==
    CASE record.kind = "prepare" -> [preparedStatements EXCEPT ![record.key] = record.text]
      [] ClosesStatement(record) -> [preparedStatements EXCEPT ![record.key] = None]
      [] OTHER -> preparedStatements

Parse(i) ==
    LET record == path[i]
    IN  /\ path' = RemoveAt(path, i)
        /\ preparedStatements' = Updated(record)
        /\ shown' = IF record.kind = "execute"
                    THEN [own |-> record.text, text |-> Text(record.key),
                          closed |-> record.closed]
                    ELSE None
        /\ disturbed' = (disturbed \/ i > 1)
        /\ UNCHANGED <<protocol, prepared, server, awaited>>

Next ==
    \/ \E key \in Keys, accepted \in BOOLEAN : Prepare(key, accepted)
    \/ \E key \in Keys : Execute(key) \/ Close(key)
    \/ \E name \in Names : ClosePortal(name)
    \/ Answer
    \/ \E i \in 1 .. Len(path) : Lose(i) \/ Parse(i)

Spec == Init /\ [][Next]_vars

---------------------------------------------------------------------------
(* Properties                                                              *)

(* The variables keep their types: an execution is always shown with a     *)
(* text or as unknown.                                                     *)
TypeOK ==
    /\ protocol \in {"mysql", "postgres"}
    /\ prepared \in Texts \cup {0}
    /\ server \in [Keys -> Texts \cup {None}]
    /\ awaited \in Request \cup {None}
    /\ path \in Seq([kind : {"prepare", "execute", "close", "portal"}, key : Keys,
                     text : Texts \cup {TheUnknown}, closed : BOOLEAN])
    /\ preparedStatements \in [Keys -> Texts \cup {None}]
    /\ shown \in {None} \cup [own : Texts, text : Texts \cup {TheUnknown}, closed : BOOLEAN]
    /\ disturbed \in BOOLEAN

(* MysqlParser never shows an execution with the text of another           *)
(* statement, whatever is lost, overtaken or refused.  PostgresParser,     *)
(* whose names are used again, does not while its records arrive and its   *)
(* Parses are accepted.  Then both know the text of every execution,       *)
(* unless the statement was closed while it was under way.                 *)
TextIsOwn ==
    shown # None =>
    /\ protocol = "mysql" \/ ~ disturbed => shown.text \in {shown.own, TheUnknown}
    /\ ~ disturbed /\ shown.text = TheUnknown => shown.closed

(* The tables do not grow with the statements a connection has used: while *)
(* records arrive, an entry is for a statement the server still has, or    *)
(* its CLOSE is on its way.  MySQL's refused statements share one entry.   *)
ClosedAreForgotten ==
    ~ disturbed =>
    \A key \in Keys \ {0} :
        preparedStatements[key] # None =>
        \/ server[key] # None
        \/ \E i \in 1 .. Len(path) : path[i].kind = "close" /\ path[i].key = key

=============================================================================
