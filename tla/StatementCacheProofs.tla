------------------------ MODULE StatementCacheProofs ------------------------
(***************************************************************************)
(* Proofs about StatementCache, for any names, any number of statements    *)
(* and any number of records on their way, whatever becomes of them.       *)
(***************************************************************************)
EXTENDS StatementCache, SequenceTheorems, TLAPS

RecordType == [kind : {"prepare", "execute", "close", "portal"}, key : Keys,
               text : Texts \cup {TheUnknown}, closed : BOOLEAN]

(* MySQL's server gives a number to one text only, the number of the text, *)
(* and what is refused has none.                                           *)
ServerIsNumbered ==
    /\ \A k \in Keys : server[k] # None => server[k] = k
    /\ awaited # None /\ awaited.op = "execute" => awaited.key = awaited.text
    /\ awaited # None /\ awaited.op = "prepare" =>
           awaited.key = IF awaited.accepted THEN awaited.text ELSE 0

(* So records carry a text and its number, or 0, the number of none.       *)
PathIsNumbered ==
    \A i \in 1 .. Len(path) :
        /\ path[i].kind = "execute" => path[i].key = path[i].text /\ path[i].text # 0
        /\ path[i].kind = "prepare" => path[i].key \in {path[i].text, 0}

(* And the parser keeps every text under its number.                       *)
TableIsNumbered ==
    \A k \in Keys \ {0} : preparedStatements[k] # None => preparedStatements[k] = k

ShownIsOwn == shown # None => shown.text \in {shown.own, TheUnknown}

Numbered == ServerIsNumbered /\ PathIsNumbered /\ TableIsNumbered /\ ShownIsOwn

(* All records but those about portals carry a text.                       *)
PathHasTexts == \A i \in 1 .. Len(path) : path[i].kind # "portal" => path[i].text \in Texts

IInv == TypeOK /\ PathHasTexts /\ (protocol = "mysql" => Numbered)

---------------------------------------------------------------------------
(* A record that is sent, and one that leaves the path.                    *)

LEMMA AppendRecord ==
    ASSUME NEW s \in Seq(RecordType), NEW r \in RecordType
    PROVE  /\ Append(s, r) \in Seq(RecordType)
           /\ Len(Append(s, r)) = Len(s) + 1
           /\ \A i \in 1 .. Len(s) : Append(s, r)[i] = s[i]
           /\ Append(s, r)[Len(s) + 1] = r
OBVIOUS

LEMMA RemoveRecord ==
    ASSUME NEW s \in Seq(RecordType), NEW i \in 1 .. Len(s)
    PROVE  /\ RemoveAt(s, i) \in Seq(RecordType)
           /\ \A j \in 1 .. Len(RemoveAt(s, i)) :
                 \E k \in 1 .. Len(s) : RemoveAt(s, i)[j] = s[k]
<1> DEFINE before == SubSeq(s, 1, i - 1)
           after == SubSeq(s, i + 1, Len(s))
<1>0. Len(s) \in Nat /\ i \in Int
  OBVIOUS
<1>1. /\ before \in Seq(RecordType) /\ Len(before) = i - 1
      /\ \A j \in 1 .. i - 1 : before[j] = s[j]
  OBVIOUS
<1>2. /\ after \in Seq(RecordType) /\ Len(after) = Len(s) - i
      /\ \A j \in 1 .. Len(s) - i : after[j] = s[j + i]
  OBVIOUS
<1>3. RemoveAt(s, i) = before \o after
  BY DEF RemoveAt
<1> HIDE DEF before, after
<1>4. /\ before \o after \in Seq(RecordType)
      /\ Len(before \o after) = Len(s) - 1
      /\ \A j \in 1 .. Len(s) - 1 :
            (before \o after)[j] = IF j <= i - 1 THEN before[j] ELSE after[j - (i - 1)]
  BY <1>1, <1>2, ConcatProperties
<1>5. ASSUME NEW j \in 1 .. Len(s) - 1
      PROVE  \E k \in 1 .. Len(s) : (before \o after)[j] = s[k]
  <2>0. j <= i - 1 \/ j > i - 1
    BY <1>0
  <2>1. CASE j <= i - 1
    <3>1. (before \o after)[j] = s[j]
      BY <2>1, <1>1, <1>4
    <3> QED
      BY <3>1
  <2>2. CASE j > i - 1
    <3>1. (before \o after)[j] = s[j + 1]
      <4>1. j - (i - 1) \in 1 .. Len(s) - i /\ j - (i - 1) + i = j + 1
        BY <2>2
      <4>2. after[j - (i - 1)] = s[j + 1]
        BY <4>1, <1>2
      <4> QED
        BY <4>2, <2>2, <1>0, <1>4
    <3> QED
      BY <3>1
  <2> QED
    BY <2>0, <2>1, <2>2
<1> QED
  BY <1>3, <1>4, <1>5

---------------------------------------------------------------------------

LEMMA InitInvariant == Init => IInv
<1> SUFFICES ASSUME Init PROVE IInv
  OBVIOUS
<1>1. TypeOK
  <2>1. path \in Seq([kind : {"prepare", "execute", "close", "portal"}, key : Keys,
                      text : Texts \cup {TheUnknown}, closed : BOOLEAN])
    BY EmptySeq DEF Init
  <2>2. server \in [Keys -> Texts \cup {None}] /\ preparedStatements \in [Keys -> Texts \cup {None}]
    BY DEF Init
  <2> QED
    BY <2>1, <2>2 DEF Init, TypeOK
<1>2. Numbered /\ PathHasTexts
  BY DEF Init, PathHasTexts, Numbered, ServerIsNumbered, PathIsNumbered, TableIsNumbered, ShownIsOwn
<1> QED
  BY <1>1, <1>2 DEF IInv

(* The texts are numbered in the order they are prepared.                  *)
LEMMA PreparePreserves ==
    ASSUME IInv, NEW key \in Keys, NEW accepted \in BOOLEAN, Prepare(key, accepted)
    PROVE  IInv'
<1>1. TypeOK'
  BY DEF IInv, TypeOK, Request, Prepare, Texts
<1>2. ASSUME protocol = "mysql" PROVE Numbered'
  <2>1. ServerIsNumbered'
    <3>1. key = IF accepted THEN prepared + 1 ELSE 0
      BY <1>2 DEF Prepare
    <3>2. key # Unnamed
      BY <3>1, NamesAssumption DEF IInv, TypeOK, Prepare, Texts
    <3> QED
      BY <1>2, <3>1, <3>2 DEF IInv, TypeOK, Numbered, ServerIsNumbered, Prepare
  <2>2. PathIsNumbered' /\ TableIsNumbered' /\ ShownIsOwn'
    BY <1>2 DEF IInv, Numbered, PathIsNumbered, TableIsNumbered, ShownIsOwn, Prepare
  <2> QED
    BY <2>1, <2>2 DEF Numbered
<1> QED
  BY <1>1, <1>2 DEF IInv, PathHasTexts, Prepare

LEMMA ExecutePreserves ==
    ASSUME IInv, NEW key \in Keys, Execute(key)
    PROVE  IInv'
<1>1. TypeOK'
  BY DEF IInv, TypeOK, Request, Execute
<1>2. ASSUME protocol = "mysql" PROVE Numbered'
  BY <1>2 DEF IInv, TypeOK, Numbered, ServerIsNumbered, PathIsNumbered, TableIsNumbered,
     ShownIsOwn, Execute
<1> QED
  BY <1>1, <1>2 DEF IInv, PathHasTexts, Execute

(* What is put on the path keeps its type, and its number when it has one. *)
LEMMA SendPreserves ==
    ASSUME TypeOK, NEW r \in RecordType, Send(r)
    PROVE  /\ path' \in Seq(RecordType)
           /\ PathHasTexts /\ (r.kind # "portal" => r.text \in Texts) => PathHasTexts'
           /\ PathIsNumbered /\ (r.kind = "execute" => r.key = r.text /\ r.text # 0)
              /\ (r.kind = "prepare" => r.key \in {r.text, 0})
              => PathIsNumbered'
<1>1. path \in Seq(RecordType)
  BY DEF TypeOK, RecordType
<1>2. /\ path' \in Seq(RecordType)
      /\ Len(path') = Len(path) + 1
      /\ \A i \in 1 .. Len(path) : path'[i] = path[i]
      /\ path'[Len(path) + 1] = r
  BY <1>1, AppendRecord DEF Send
<1>3. \A i \in 1 .. Len(path') : i \in 1 .. Len(path) \/ i = Len(path) + 1
  BY <1>1, <1>2
<1> QED
  BY <1>2, <1>3 DEF PathIsNumbered, PathHasTexts

LEMMA AnswerPreserves ==
    ASSUME IInv, Answer
    PROVE  IInv'
<1> DEFINE r == Record(awaited)
<1>1. awaited \in Request /\ Send(r)
  BY DEF IInv, TypeOK, Answer
<1>2. /\ r \in RecordType /\ r.text = awaited.text
      /\ r.kind = awaited.op /\ r.text \in Texts /\ r.text # 0
      /\ protocol = "mysql" => r.key = IF r.kind = "prepare" THEN StatementId(awaited)
                                       ELSE awaited.key
  BY <1>1, BoundsAssumption DEF Record, RecordType, StatementId, Keys, Ids, Texts, Request
<1> HIDE DEF r
<1>3. TypeOK' /\ PathHasTexts'
  BY <1>1, <1>2, SendPreserves DEF IInv, TypeOK, Answer, RecordType
<1>4. ASSUME protocol = "mysql" PROVE Numbered'
  <2>1. /\ r.kind = "execute" => r.key = r.text
        /\ r.kind = "prepare" => r.key \in {r.text, 0}
    BY <1>1, <1>2, <1>4 DEF IInv, Numbered, ServerIsNumbered, StatementId, Answer
  <2>2. PathIsNumbered'
    BY <1>1, <1>2, <1>4, <2>1, SendPreserves DEF IInv, Numbered
  <2>3. ServerIsNumbered' /\ TableIsNumbered' /\ ShownIsOwn'
    BY <1>4 DEF IInv, Numbered, ServerIsNumbered, TableIsNumbered, ShownIsOwn, Answer
  <2> QED
    BY <2>2, <2>3 DEF Numbered
<1> QED
  BY <1>3, <1>4 DEF IInv, Answer

LEMMA ClosePreserves ==
    ASSUME IInv, NEW key \in Keys, Close(key)
    PROVE  IInv'
<1> DEFINE r == [kind |-> "close", key |-> key, text |-> server[key], closed |-> TRUE]
<1>1. r \in RecordType /\ r.kind = "close" /\ r.text \in Texts /\ Send(r)
  BY DEF IInv, TypeOK, Close, RecordType
<1> HIDE DEF r
<1>2. TypeOK' /\ PathHasTexts'
  BY <1>1, SendPreserves DEF IInv, TypeOK, Request, Close, RecordType
<1>3. ASSUME protocol = "mysql" PROVE Numbered'
  <2>1. PathIsNumbered'
    BY <1>1, <1>3, SendPreserves DEF IInv, Numbered
  <2>2. ServerIsNumbered' /\ TableIsNumbered' /\ ShownIsOwn'
    BY <1>3 DEF IInv, TypeOK, Numbered, ServerIsNumbered, TableIsNumbered, ShownIsOwn, Close
  <2> QED
    BY <2>1, <2>2 DEF Numbered
<1> QED
  BY <1>2, <1>3 DEF IInv, Close

LEMMA ClosePortalPreserves ==
    ASSUME IInv, NEW name \in Names, ClosePortal(name)
    PROVE  IInv'
<1> DEFINE r == [kind |-> "portal", key |-> name, text |-> TheUnknown, closed |-> TRUE]
<1>1. r \in RecordType /\ r.kind = "portal" /\ Send(r)
  BY DEF ClosePortal, RecordType, Keys
<1> HIDE DEF r
<1>2. TypeOK' /\ PathHasTexts'
  BY <1>1, SendPreserves DEF IInv, TypeOK, ClosePortal, RecordType
<1> QED
  BY <1>2 DEF IInv, ClosePortal

(* A record that leaves the path, lost or parsed, changes no other.        *)
LEMMA RemovePreserves ==
    ASSUME TypeOK, NEW i \in 1 .. Len(path), path' = RemoveAt(path, i)
    PROVE  /\ path' \in Seq(RecordType)
           /\ PathHasTexts => PathHasTexts'
           /\ PathIsNumbered => PathIsNumbered'
<1>1. path \in Seq(RecordType)
  BY DEF TypeOK, RecordType
<1>2. /\ path' \in Seq(RecordType)
      /\ \A j \in 1 .. Len(path') : \E k \in 1 .. Len(path) : path'[j] = path[k]
  BY <1>1, RemoveRecord
<1> QED
  BY <1>2 DEF PathIsNumbered, PathHasTexts

LEMMA LosePreserves ==
    ASSUME IInv, NEW i \in 1 .. Len(path), Lose(i)
    PROVE  IInv'
<1>1. /\ path' \in Seq(RecordType) /\ PathHasTexts'
      /\ PathIsNumbered => PathIsNumbered'
  BY RemovePreserves DEF IInv, Lose
<1>2. TypeOK'
  BY <1>1 DEF IInv, TypeOK, Lose, RecordType
<1>3. ASSUME protocol = "mysql" PROVE Numbered'
  BY <1>1, <1>3 DEF IInv, Numbered, ServerIsNumbered, TableIsNumbered, ShownIsOwn, Lose
<1> QED
  BY <1>1, <1>2, <1>3 DEF IInv, Lose

LEMMA ParsePreserves ==
    ASSUME IInv, NEW i \in 1 .. Len(path), Parse(i)
    PROVE  IInv'
<1> DEFINE r == path[i]
<1>1. /\ path' \in Seq(RecordType) /\ PathHasTexts'
      /\ PathIsNumbered => PathIsNumbered'
  BY RemovePreserves DEF IInv, Parse
<1>2. /\ r \in RecordType /\ (r.kind # "portal" => r.text \in Texts)
      /\ preparedStatements' = Updated(r)
      /\ shown' = IF r.kind = "execute"
                  THEN [own |-> r.text, text |-> Text(r.key), closed |-> r.closed] ELSE None
  BY ElementOfSeq DEF IInv, TypeOK, PathHasTexts, RecordType, Parse
<1>3. protocol = "mysql" => /\ r.kind = "execute" => r.key = r.text /\ r.text # 0
                            /\ r.kind = "prepare" => r.key \in {r.text, 0}
  BY DEF IInv, Numbered, PathIsNumbered
<1> HIDE DEF r
<1>4. TypeOK'
  <2>1. preparedStatements' \in [Keys -> Texts \cup {None}]
    BY <1>2 DEF IInv, TypeOK, RecordType, Updated
  <2>2. shown' \in {None} \cup [own : Texts, text : Texts \cup {TheUnknown}, closed : BOOLEAN]
    BY <1>2 DEF IInv, TypeOK, RecordType, Text
  <2> QED
    BY <1>1, <2>1, <2>2 DEF IInv, TypeOK, RecordType, Parse
<1>5. ASSUME protocol = "mysql" PROVE Numbered'
  <2>1. ServerIsNumbered' /\ PathIsNumbered'
    BY <1>1, <1>5 DEF IInv, Numbered, ServerIsNumbered, Parse
  <2>2. TableIsNumbered'
    BY <1>2, <1>3, <1>5 DEF IInv, TypeOK, Numbered, TableIsNumbered, Updated, ClosesStatement, RecordType
  <2>3. ShownIsOwn'
    BY <1>2, <1>3, <1>5 DEF IInv, TypeOK, Numbered, TableIsNumbered, ShownIsOwn, Text, RecordType
  <2> QED
    BY <2>1, <2>2, <2>3 DEF Numbered
<1> QED
  BY <1>1, <1>4, <1>5 DEF IInv, Parse

LEMMA NextPreserves == IInv /\ [Next]_vars => IInv'
<1> SUFFICES ASSUME IInv, [Next]_vars PROVE IInv'
  OBVIOUS
<1>1. CASE \E key \in Keys, accepted \in BOOLEAN : Prepare(key, accepted)
  BY <1>1, PreparePreserves
<1>2. CASE \E key \in Keys : Execute(key) \/ Close(key)
  BY <1>2, ExecutePreserves, ClosePreserves
<1>3. CASE \E name \in Names : ClosePortal(name)
  BY <1>3, ClosePortalPreserves
<1>4. CASE Answer
  BY <1>4, AnswerPreserves
<1>5. CASE \E i \in 1 .. Len(path) : Lose(i) \/ Parse(i)
  BY <1>5, LosePreserves, ParsePreserves
<1>6. CASE UNCHANGED vars
  BY <1>6 DEF vars, IInv, TypeOK, PathHasTexts, Numbered, ServerIsNumbered, PathIsNumbered,
     TableIsNumbered, ShownIsOwn
<1> QED
  BY <1>1, <1>2, <1>3, <1>4, <1>5, <1>6 DEF Next

LEMMA Inductive == Spec => []IInv
BY InitInvariant, NextPreserves, PTL DEF Spec

---------------------------------------------------------------------------
(* While nothing is disturbed, the path is a queue, and what it will make  *)
(* of the table can be told.                                               *)

Changes(r, k) == r.kind \in {"prepare", "close"} /\ r.key = k

(* After the first n records of s, the table has text t under key k, or    *)
(* nothing, which may only be when gone.                                   *)
Gives(s, table, k, n, t, gone) ==
    /\ \A j \in 1 .. n :
          Changes(s[j], k) /\ (\A m \in j + 1 .. n : ~ Changes(s[m], k)) =>
              IF s[j].kind = "prepare" THEN s[j].text = t ELSE gone
    /\ (\A j \in 1 .. n : ~ Changes(s[j], k)) =>
          table[k] = t \/ (table[k] = None /\ gone)

(* What is awaited is what the server has, and 0 is no statement's number. *)
AwaitedIsKnown ==
    /\ server[0] = None
    /\ awaited # None =>
          IF awaited.op = "prepare"
          THEN IF awaited.accepted THEN server[awaited.key] = awaited.text
                                   ELSE awaited.key = 0
          ELSE /\ awaited.key # 0
               /\ server[awaited.key] = IF awaited.closed THEN None ELSE awaited.text

(* A statement the server does not have will be forgotten.                 *)
ClosesFollow ==
    \A k \in Keys \ {0} : server[k] = None =>
        /\ preparedStatements[k] # None => \E i \in 1 .. Len(path) :
                path[i].kind = "close" /\ path[i].key = k
        /\ \A i \in 1 .. Len(path) :
              path[i].kind = "prepare" /\ path[i].key = k =>
                  \E j \in i + 1 .. Len(path) : path[j].kind = "close" /\ path[j].key = k

(* One it has will be known, unless its PREPARE is still to be answered.   *)
TableWillFollow ==
    \A k \in Keys \ {0} :
        server[k] # None /\ ~ (awaited # None /\ awaited.op = "prepare" /\ awaited.key = k)
        => Gives(path, preparedStatements, k, Len(path), server[k], FALSE)

(* An execution on its way will find its text.                             *)
ExecutionsWillFind ==
    \A i \in 1 .. Len(path) : path[i].kind = "execute" =>
        /\ path[i].text # 0
        /\ Gives(path, preparedStatements, path[i].key, i - 1, path[i].text, path[i].closed)

InOrder == AwaitedIsKnown /\ ClosesFollow /\ TableWillFollow /\ ExecutionsWillFind
           /\ (shown # None => /\ shown.text \in {shown.own, TheUnknown}
                               /\ shown.text = TheUnknown => shown.closed)

Followed == ~ disturbed => InOrder

LEMMA GivesAppend ==
    ASSUME NEW s \in Seq(RecordType), NEW r \in RecordType, NEW table, NEW k, NEW t,
           NEW gone, NEW n \in 0 .. Len(s), Gives(s, table, k, n, t, gone)
    PROVE  Gives(Append(s, r), table, k, n, t, gone)
<1>1. \A i \in 1 .. n : Append(s, r)[i] = s[i]
  BY AppendRecord
<1> QED
  BY <1>1 DEF Gives

LEMMA GivesSame ==
    ASSUME NEW s \in Seq(RecordType), NEW r \in RecordType, NEW table, NEW k, NEW t,
           NEW gone, ~ Changes(r, k), Gives(s, table, k, Len(s), t, gone)
    PROVE  Gives(Append(s, r), table, k, Len(s) + 1, t, gone)
<1>1. /\ \A i \in 1 .. Len(s) : Append(s, r)[i] = s[i]
      /\ Append(s, r)[Len(s) + 1] = r
      /\ Len(s) \in Nat
  BY AppendRecord
<1> QED
  BY <1>1 DEF Gives

LEMMA GivesNew ==
    ASSUME NEW s \in Seq(RecordType), NEW r \in RecordType, NEW table, NEW k, NEW t,
           NEW gone, Changes(r, k), IF r.kind = "prepare" THEN r.text = t ELSE gone
    PROVE  Gives(Append(s, r), table, k, Len(s) + 1, t, gone)
<1>1. Append(s, r)[Len(s) + 1] = r /\ Len(s) \in Nat
  BY AppendRecord
<1>2. \A j \in 1 .. Len(s) : Len(s) + 1 \in j + 1 .. Len(s) + 1
  BY <1>1
<1> QED
  BY <1>1, <1>2 DEF Gives

(* What the first record does to the table, done.                          *)
LEMMA GivesRest ==
    ASSUME NEW s \in Seq(RecordType), NEW rest \in Seq(RecordType),
           Len(rest) = Len(s) - 1, \A j \in 1 .. Len(rest) : rest[j] = s[j + 1],
           NEW table, NEW after, NEW k, NEW t, NEW gone \in BOOLEAN,
           NEW n \in 1 .. Len(s), Gives(s, table, k, n, t, gone),
           IF Changes(s[1], k)
           THEN after[k] = IF s[1].kind = "prepare" THEN s[1].text ELSE None
           ELSE after[k] = table[k]
    PROVE  Gives(rest, after, k, n - 1, t, gone)
<1>1. Len(s) \in Nat /\ Len(rest) \in Nat
  OBVIOUS
<1>2. \A j \in 2 .. n : j - 1 \in 1 .. Len(rest) /\ s[j] = rest[j - 1]
  BY <1>1
<1>3. ASSUME NEW j \in 1 .. n - 1, Changes(rest[j], k),
             \A m \in j + 1 .. n - 1 : ~ Changes(rest[m], k)
      PROVE  IF rest[j].kind = "prepare" THEN rest[j].text = t ELSE gone
  <2>1. j + 1 \in 1 .. n /\ rest[j] = s[j + 1]
    BY <1>1
  <2>2. \A m \in (j + 1) + 1 .. n : ~ Changes(s[m], k)
    <3>1. \A m \in (j + 1) + 1 .. n : m \in 2 .. n /\ m - 1 \in j + 1 .. n - 1
      BY <1>1
    <3> QED
      BY <1>2, <1>3, <3>1
  <2> QED
    BY <1>3, <2>1, <2>2 DEF Gives
<1>4. ASSUME \A j \in 1 .. n - 1 : ~ Changes(rest[j], k)
      PROVE  after[k] = t \/ (after[k] = None /\ gone)
  <2>1. \A j \in 2 .. n : ~ Changes(s[j], k)
    <3>1. \A j \in 2 .. n : j - 1 \in 1 .. n - 1
      BY <1>1
    <3> QED
      BY <1>2, <1>4, <3>1
  <2>2. CASE Changes(s[1], k)
    <3>1. 1 \in 1 .. n /\ 1 + 1 = 2
      BY <1>1
    <3>2. IF s[1].kind = "prepare" THEN s[1].text = t ELSE gone
      BY <2>1, <2>2, <3>1 DEF Gives
    <3> QED
      BY <2>2, <3>2
  <2>3. CASE ~ Changes(s[1], k)
    <3>1. \A j \in 1 .. n : j = 1 \/ j \in 2 .. n
      OBVIOUS
    <3> QED
      BY <2>1, <2>3, <3>1 DEF Gives
  <2> QED
    BY <2>2, <2>3
<1> QED
  BY <1>3, <1>4 DEF Gives

LEMMA RemoveHead ==
    \A s \in Seq(RecordType) : s # <<>> =>
        /\ RemoveAt(s, 1) \in Seq(RecordType) /\ Len(RemoveAt(s, 1)) = Len(s) - 1
        /\ \A j \in 1 .. Len(s) - 1 : RemoveAt(s, 1)[j] = s[j + 1]
<1> SUFFICES ASSUME NEW s \in Seq(RecordType), s # <<>>
             PROVE  RemoveAt(s, 1) = Tail(s)
  BY HeadTailProperties
<1>1. SubSeq(s, 1, 0) = <<>>
  OBVIOUS
<1>2. Tail(s) \in Seq(RecordType) /\ SubSeq(s, 2, Len(s)) = Tail(s)
  BY HeadTailProperties, TailIsSubSeq
<1>3. RemoveAt(s, 1) = <<>> \o Tail(s)
  BY <1>1, <1>2 DEF RemoveAt
<1> QED
  BY <1>2, <1>3, ConcatEmptySeq

---------------------------------------------------------------------------
(* Each step, while nothing is disturbed.                                  *)

LEMMA InitFollowed == Init => Followed
<1> SUFFICES ASSUME Init
             PROVE  Followed
  OBVIOUS
<1>1. 0 \in Keys
  BY BoundsAssumption DEF Keys, Ids
<1> QED
  BY <1>1 DEF Init, Followed, InOrder, AwaitedIsKnown, ClosesFollow, TableWillFollow,
     ExecutionsWillFind

LEMMA PrepareFollows ==
    ASSUME IInv, InOrder, ~ disturbed', NEW key \in Keys, NEW accepted \in BOOLEAN,
           Prepare(key, accepted)
    PROVE  InOrder'
<1>0. awaited' \in Request
  BY NoneAssumption DEF Prepare, IInv, TypeOK, Request
<1>1. /\ prepared + 1 \in Nat \ {0} /\ prepared + 1 # None /\ 0 \in Keys
  BY BoundsAssumption, NoneAssumption DEF IInv, TypeOK, Texts, Keys, Ids
<1>2. accepted \/ key = 0
  BY DEF Prepare, IInv, TypeOK
<1>3. accepted => key # 0
  BY <1>1, NamesAssumption DEF Prepare, IInv, TypeOK
<1>4. server' = IF accepted THEN [server EXCEPT ![key] = prepared + 1] ELSE server
  BY <1>2, NamesAssumption DEF Prepare
<1>5. /\ server'[0] = None
      /\ accepted => server'[key] = prepared + 1
      /\ \A k \in Keys \ {key} : server'[k] = server[k]
  BY <1>1, <1>3, <1>4 DEF IInv, TypeOK, InOrder, AwaitedIsKnown
<1>6. AwaitedIsKnown'
  BY <1>2, <1>5 DEF AwaitedIsKnown, Prepare
<1>7. ClosesFollow'
  BY <1>1, <1>2, <1>5 DEF InOrder, ClosesFollow, Prepare
<1>8. TableWillFollow'
  <2> SUFFICES ASSUME NEW k \in Keys \ {0}, server'[k] # None,
                      ~ (awaited' # None /\ awaited'.op = "prepare" /\ awaited'.key = k)
               PROVE  Gives(path', preparedStatements', k, Len(path'), server'[k], FALSE)
    BY DEF TableWillFollow, Gives
  <2>1. k # key /\ server[k] # None /\ server'[k] = server[k] /\ awaited = None
    <3>1. awaited' = [op |-> "prepare", key |-> key, text |-> prepared + 1,
                      accepted |-> accepted, closed |-> FALSE] /\ awaited = None
      BY DEF Prepare
    <3>2. awaited'.op = "prepare" /\ awaited'.key = key
      BY <3>1
    <3>3. awaited' # None
      BY <1>0, NoneAssumption
    <3>4. accepted \/ server' = server
      BY <1>4
    <3> QED
      BY <1>5, <3>1, <3>2, <3>3, <3>4
  <2>2. Gives(path, preparedStatements, k, Len(path), server[k], FALSE)
    BY <2>1 DEF InOrder, TableWillFollow
  <2> QED
    BY <2>1, <2>2 DEF Prepare
<1> QED
  BY <1>6, <1>7, <1>8 DEF InOrder, ExecutionsWillFind, Prepare

LEMMA ExecuteFollows ==
    ASSUME IInv, InOrder, NEW key \in Keys, Execute(key)
    PROVE  InOrder'
<1>1. AwaitedIsKnown'
  BY DEF InOrder, AwaitedIsKnown, Execute
<1>2. ClosesFollow' /\ TableWillFollow' /\ ExecutionsWillFind'
  BY DEF InOrder, ClosesFollow, TableWillFollow, ExecutionsWillFind, Execute, Gives
<1> QED
  BY <1>1, <1>2 DEF InOrder, Execute

(* What a record sent leaves as it was.                                    *)
LEMMA SendFollows ==
    ASSUME IInv, InOrder, NEW r \in RecordType, Send(r), UNCHANGED preparedStatements
    PROVE  /\ path \in Seq(RecordType) /\ path' = Append(path, r)
           /\ Len(path) \in Nat /\ Len(path') = Len(path) + 1
           /\ \A i \in 1 .. Len(path) : path'[i] = path[i]
           /\ path'[Len(path) + 1] = r
           /\ \A t : \A k \in Keys, gone \in BOOLEAN :
                 /\ ~ Changes(r, k) /\ Gives(path, preparedStatements, k, Len(path), t, gone)
                       => Gives(path', preparedStatements', k, Len(path'), t, gone)
                 /\ Changes(r, k) /\ (IF r.kind = "prepare" THEN r.text = t ELSE gone)
                       => Gives(path', preparedStatements', k, Len(path'), t, gone)
           /\ \A i \in 1 .. Len(path) : path'[i].kind = "execute" =>
                 /\ path'[i].text # 0
                 /\ Gives(path', preparedStatements', path'[i].key, i - 1, path'[i].text,
                          path'[i].closed)
<1>1. path \in Seq(RecordType) /\ path' = Append(path, r)
  BY DEF IInv, TypeOK, RecordType, Send
<1>2. /\ Len(path) \in Nat /\ Len(path') = Len(path) + 1
      /\ \A i \in 1 .. Len(path) : path'[i] = path[i]
      /\ path'[Len(path) + 1] = r
  BY <1>1, AppendRecord
<1>3. ASSUME NEW k \in Keys, NEW t, NEW gone \in BOOLEAN
      PROVE  /\ ~ Changes(r, k) /\ Gives(path, preparedStatements, k, Len(path), t, gone)
                    => Gives(path', preparedStatements', k, Len(path'), t, gone)
             /\ Changes(r, k) /\ (IF r.kind = "prepare" THEN r.text = t ELSE gone)
                    => Gives(path', preparedStatements', k, Len(path'), t, gone)
  BY <1>1, <1>2, GivesSame, GivesNew
<1>4. ASSUME NEW i \in 1 .. Len(path), path'[i].kind = "execute"
      PROVE  /\ path'[i].text # 0
             /\ Gives(path', preparedStatements', path'[i].key, i - 1, path'[i].text,
                      path'[i].closed)
  <2>1. i - 1 \in 0 .. Len(path) /\ path'[i] = path[i]
    BY <1>2
  <2>2. /\ path[i].text # 0
        /\ Gives(path, preparedStatements, path[i].key, i - 1, path[i].text, path[i].closed)
    BY <1>4, <2>1 DEF InOrder, ExecutionsWillFind
  <2>3. Gives(Append(path, r), preparedStatements, path[i].key, i - 1, path[i].text,
              path[i].closed)
    BY <1>1, <2>1, <2>2, GivesAppend
  <2> QED
    BY <1>1, <2>1, <2>2, <2>3
<1> QED
  BY <1>1, <1>2, <1>3, <1>4

LEMMA AnswerFollows ==
    ASSUME IInv, InOrder, Answer
    PROVE  InOrder'
<1> DEFINE r == Record(awaited)
<1>1. awaited \in Request /\ awaited # None /\ Send(r) /\ awaited' = None
  BY DEF IInv, TypeOK, Answer
<1>2. /\ r \in RecordType /\ r.text = awaited.text /\ r.closed = awaited.closed
      /\ r.kind = awaited.op /\ r.text \in Texts /\ r.text # 0 /\ r.text # None
      /\ r.key = awaited.key \/ (r.kind = "prepare" /\ ~ awaited.accepted /\ r.key = 0)
  BY <1>1, BoundsAssumption, NoneAssumption
  DEF Record, RecordType, StatementId, Keys, Ids, Texts, Request
<1> HIDE DEF r
<1>3. UNCHANGED <<server, preparedStatements, shown>>
  BY DEF Answer
<1>4. AwaitedIsKnown'
  BY <1>1, <1>3 DEF InOrder, AwaitedIsKnown
<1>5. r.kind = "prepare" => r.key = 0 \/ server[r.key] = r.text
  BY <1>1, <1>2 DEF InOrder, AwaitedIsKnown
<1>6. ClosesFollow'
  BY <1>1, <1>2, <1>3, <1>5, SendFollows DEF InOrder, ClosesFollow
<1>7. TableWillFollow'
  <2> SUFFICES ASSUME NEW k \in Keys \ {0}, server'[k] # None
               PROVE  Gives(path', preparedStatements', k, Len(path'), server'[k], FALSE)
    BY DEF TableWillFollow, Gives
  <2>1. CASE Changes(r, k)
    <3>1. r.kind = "prepare" /\ r.text = server[k]
      BY <1>1, <1>2, <1>5, <2>1 DEF Changes, Request
    <3> QED
      BY <1>1, <1>2, <1>3, <2>1, <3>1, SendFollows
  <2>2. CASE ~ Changes(r, k)
    <3>1. ~ (awaited.op = "prepare" /\ awaited.key = k)
      BY <1>1, <1>2, <2>2 DEF Changes, InOrder, AwaitedIsKnown
    <3>2. Gives(path, preparedStatements, k, Len(path), server[k], FALSE)
      BY <1>3, <3>1 DEF InOrder, TableWillFollow
    <3> QED
      BY <1>1, <1>2, <1>3, <2>2, <3>2, SendFollows
  <2> QED
    BY <2>1, <2>2
<1>8. ExecutionsWillFind'
  <2> SUFFICES ASSUME NEW i \in 1 .. Len(path'), path'[i].kind = "execute"
               PROVE  /\ path'[i].text # 0
                      /\ Gives(path', preparedStatements', path'[i].key, i - 1,
                               path'[i].text, path'[i].closed)
    BY DEF ExecutionsWillFind, Gives
  <2>1. CASE i \in 1 .. Len(path)
    BY <1>1, <1>2, <1>3, <2>1, SendFollows
  <2>2. CASE i = Len(path) + 1
    <3>1. path'[i] = r /\ r.kind = "execute"
      BY <1>1, <1>2, <1>3, <2>2, SendFollows
    <3>2. /\ r.key \in Keys \ {0} /\ r.closed \in BOOLEAN
          /\ server[r.key] = IF r.closed THEN None ELSE r.text
      BY <1>1, <1>2, <3>1 DEF InOrder, AwaitedIsKnown, Request
    <3>3. Gives(path, preparedStatements, r.key, Len(path), r.text, r.closed)
      <4>1. CASE ~ r.closed
        <5>1. /\ server[r.key] # None /\ server[r.key] = r.text /\ r.closed = FALSE
              /\ awaited.op # "prepare"
          BY <1>2, <3>1, <3>2, <4>1
        <5>2. Gives(path, preparedStatements, r.key, Len(path), server[r.key], FALSE)
          BY <3>2, <5>1 DEF InOrder, TableWillFollow
        <5> QED
          BY <5>1, <5>2
      <4>2. CASE r.closed
        BY <3>2, <4>2 DEF InOrder, ClosesFollow, Gives, Changes
      <4> QED
        BY <4>1, <4>2
    <3>4. Gives(path', preparedStatements', r.key, Len(path), r.text, r.closed)
      <4>1. /\ path \in Seq(RecordType) /\ path' = Append(path, r)
            /\ Len(path) \in 0 .. Len(path)
        BY <1>1, <1>2, <1>3, SendFollows
      <4>2. Gives(Append(path, r), preparedStatements, r.key, Len(path), r.text, r.closed)
        BY <1>2, <3>3, <4>1, GivesAppend
      <4> QED
        BY <1>3, <4>1, <4>2
    <3>5. i - 1 = Len(path)
      BY <1>1, <1>2, <1>3, <2>2, SendFollows
    <3> QED
      BY <1>2, <3>1, <3>4, <3>5
  <2> QED
    BY <1>1, <1>2, <1>3, <2>1, <2>2, SendFollows
<1> QED
  BY <1>3, <1>4, <1>6, <1>7, <1>8 DEF InOrder

LEMMA CloseFollows ==
    ASSUME IInv, InOrder, NEW key \in Keys, Close(key)
    PROVE  InOrder'
<1> DEFINE r == [kind |-> "close", key |-> key, text |-> server[key], closed |-> TRUE]
<1>1. r \in RecordType /\ r.kind = "close" /\ r.key = key /\ Send(r)
  BY DEF IInv, TypeOK, Close, RecordType
<1> HIDE DEF r
<1>2. /\ UNCHANGED <<preparedStatements, shown>>
      /\ awaited # None => awaited.op = "execute"
      /\ server'[key] = None /\ \A k \in Keys \ {key} : server'[k] = server[k]
  BY DEF Close, MayClose, IInv, TypeOK
<1>3. AwaitedIsKnown'
  <2>1. server'[0] = None
    BY BoundsAssumption DEF Close, IInv, TypeOK, InOrder, AwaitedIsKnown
  <2>2. CASE awaited = None
    BY <2>1, <2>2 DEF Close, AwaitedIsKnown
  <2>3. CASE awaited # None
    <3>1. awaited \in Request /\ awaited.op = "execute" /\ awaited.key \in Keys \ {0}
          /\ server[awaited.key] = IF awaited.closed THEN None ELSE awaited.text
      BY <1>2, <2>3 DEF InOrder, AwaitedIsKnown, IInv, TypeOK, Request
    <3>2. CASE awaited.key = key
      <4>1. awaited' = [awaited EXCEPT !.closed = TRUE]
        BY <2>3, <3>2 DEF Close
      <4>2. /\ awaited'.op = "execute" /\ awaited'.key = key /\ awaited'.closed
        BY <3>1, <3>2, <4>1 DEF Request
      <4> QED
        BY <1>2, <2>1, <3>1, <3>2, <4>2 DEF AwaitedIsKnown
    <3>3. CASE awaited.key # key
      BY <1>2, <2>1, <3>1, <3>3 DEF AwaitedIsKnown, Close
    <3> QED
      BY <3>2, <3>3
  <2> QED
    BY <2>2, <2>3
<1>4. ClosesFollow'
  <2>1. /\ Len(path) \in Nat /\ Len(path') = Len(path) + 1
        /\ \A i \in 1 .. Len(path) : path'[i] = path[i]
        /\ path'[Len(path) + 1] = r
    BY <1>1, <1>2, SendFollows
  <2> SUFFICES ASSUME NEW k \in Keys \ {0}, server'[k] = None
               PROVE  /\ preparedStatements[k] # None => \E i \in 1 .. Len(path') :
                             path'[i].kind = "close" /\ path'[i].key = k
                      /\ \A i \in 1 .. Len(path') :
                            path'[i].kind = "prepare" /\ path'[i].key = k =>
                                \E j \in i + 1 .. Len(path') :
                                    path'[j].kind = "close" /\ path'[j].key = k
    BY <1>2 DEF ClosesFollow
  <2>2. CASE k = key
    <3>1. /\ Len(path) + 1 \in 1 .. Len(path')
          /\ \A i \in 1 .. Len(path) : Len(path) + 1 \in i + 1 .. Len(path')
          /\ \A i \in 1 .. Len(path') : i \in 1 .. Len(path) \/ i = Len(path) + 1
      BY <2>1
    <3> QED
      BY <1>1, <2>1, <2>2, <3>1
  <2>3. CASE k # key
    BY <1>1, <1>2, <2>1, <2>3 DEF InOrder, ClosesFollow
  <2> QED
    BY <2>2, <2>3
<1>5. TableWillFollow'
  <2> SUFFICES ASSUME NEW k \in Keys \ {0}, server'[k] # None
               PROVE  Gives(path', preparedStatements', k, Len(path'), server'[k], FALSE)
    BY DEF TableWillFollow, Gives
  <2>1. k # key /\ ~ Changes(r, k) /\ server[k] # None /\ server'[k] = server[k]
    BY <1>1, <1>2 DEF Changes
  <2>2. Gives(path, preparedStatements, k, Len(path), server[k], FALSE)
    BY <1>2, <2>1 DEF InOrder, TableWillFollow
  <2> QED
    BY <1>1, <1>2, <2>1, <2>2, SendFollows
<1>6. ExecutionsWillFind'
  <2> SUFFICES ASSUME NEW i \in 1 .. Len(path'), path'[i].kind = "execute"
               PROVE  /\ path'[i].text # 0
                      /\ Gives(path', preparedStatements', path'[i].key, i - 1,
                               path'[i].text, path'[i].closed)
    BY DEF ExecutionsWillFind, Gives
  <2>1. i \in 1 .. Len(path)
    BY <1>1, <1>2, SendFollows
  <2> QED
    BY <1>1, <1>2, <2>1, SendFollows
<1> QED
  BY <1>2, <1>3, <1>4, <1>5, <1>6 DEF InOrder

LEMMA ClosePortalFollows ==
    ASSUME IInv, InOrder, NEW name \in Names, ClosePortal(name)
    PROVE  InOrder'
<1> DEFINE r == [kind |-> "portal", key |-> name, text |-> TheUnknown, closed |-> TRUE]
<1>1. r \in RecordType /\ r.kind = "portal" /\ Send(r)
  BY DEF ClosePortal, RecordType, Keys
<1> HIDE DEF r
<1>2. UNCHANGED <<preparedStatements, shown, server, awaited>>
  BY DEF ClosePortal
<1>3. \A k : ~ Changes(r, k)
  BY <1>1 DEF Changes
<1>4. AwaitedIsKnown'
  BY <1>2 DEF InOrder, AwaitedIsKnown
<1>5. ClosesFollow'
  BY <1>1, <1>2, SendFollows DEF InOrder, ClosesFollow
<1>6. TableWillFollow'
  <2> SUFFICES ASSUME NEW k \in Keys \ {0}, server[k] # None,
                      ~ (awaited # None /\ awaited.op = "prepare" /\ awaited.key = k)
               PROVE  Gives(path', preparedStatements', k, Len(path'), server[k], FALSE)
    BY <1>2 DEF TableWillFollow, Gives
  <2>1. Gives(path, preparedStatements, k, Len(path), server[k], FALSE)
    BY DEF InOrder, TableWillFollow
  <2> QED
    BY <1>1, <1>2, <1>3, <2>1, SendFollows
<1>7. ExecutionsWillFind'
  <2> SUFFICES ASSUME NEW i \in 1 .. Len(path'), path'[i].kind = "execute"
               PROVE  /\ path'[i].text # 0
                      /\ Gives(path', preparedStatements', path'[i].key, i - 1,
                               path'[i].text, path'[i].closed)
    BY DEF ExecutionsWillFind, Gives
  <2>1. i \in 1 .. Len(path)
    BY <1>1, <1>2, SendFollows
  <2> QED
    BY <1>1, <1>2, <2>1, SendFollows
<1> QED
  BY <1>2, <1>4, <1>5, <1>6, <1>7 DEF InOrder

LEMMA ParseFollows ==
    ASSUME IInv, InOrder, ~ disturbed', NEW i \in 1 .. Len(path), Parse(i)
    PROVE  InOrder'
<1> DEFINE r == path[1]
<1>1. i = 1 /\ path # <<>>
  <2>1. disturbed' = (disturbed \/ i > 1)
    BY DEF Parse
  <2>2. ~ (i > 1)
    BY <2>1
  <2> QED
    BY <2>2 DEF IInv, TypeOK
<1>2. path \in Seq(RecordType) /\ Len(path) \in Nat /\ r \in RecordType
  <2>1. path \in Seq(RecordType) /\ Len(path) \in Nat /\ 1 \in 1 .. Len(path)
    BY <1>1 DEF IInv, TypeOK, RecordType
  <2> QED
    BY <2>1, ElementOfSeq
<1>3. /\ path' \in Seq(RecordType) /\ Len(path') = Len(path) - 1
      /\ \A j \in 1 .. Len(path') : path'[j] = path[j + 1]
  BY <1>1, <1>2, RemoveHead DEF Parse
<1>4. /\ UNCHANGED <<server, awaited>>
      /\ preparedStatements' = Updated(r)
      /\ shown' = IF r.kind = "execute"
                  THEN [own |-> r.text, text |-> Text(r.key), closed |-> r.closed] ELSE None
  BY <1>1 DEF Parse
<1>5. \A k \in Keys :
        IF Changes(r, k)
        THEN preparedStatements'[k] = IF r.kind = "prepare" THEN r.text ELSE None
        ELSE preparedStatements'[k] = preparedStatements[k]
  BY <1>2, <1>4 DEF Changes, Updated, ClosesStatement, IInv, TypeOK, RecordType
<1> HIDE DEF r
<1>6. ASSUME NEW k \in Keys, NEW t, NEW gone \in BOOLEAN, NEW n \in 1 .. Len(path),
             Gives(path, preparedStatements, k, n, t, gone)
      PROVE  Gives(path', preparedStatements', k, n - 1, t, gone)
  BY <1>2, <1>3, <1>5, <1>6, GivesRest DEF r
<1>7. AwaitedIsKnown'
  BY <1>4 DEF InOrder, AwaitedIsKnown
<1>8. ClosesFollow'
  <2> SUFFICES ASSUME NEW k \in Keys \ {0}, server[k] = None
               PROVE  /\ preparedStatements'[k] # None => \E j \in 1 .. Len(path') :
                             path'[j].kind = "close" /\ path'[j].key = k
                      /\ \A j \in 1 .. Len(path') :
                            path'[j].kind = "prepare" /\ path'[j].key = k =>
                                \E m \in j + 1 .. Len(path') :
                                    path'[m].kind = "close" /\ path'[m].key = k
    BY <1>4 DEF ClosesFollow
  <2>1. /\ preparedStatements[k] # None => \E j \in 1 .. Len(path) :
                path[j].kind = "close" /\ path[j].key = k
        /\ \A j \in 1 .. Len(path) : path[j].kind = "prepare" /\ path[j].key = k =>
              \E m \in j + 1 .. Len(path) : path[m].kind = "close" /\ path[m].key = k
    BY DEF InOrder, ClosesFollow
  <2>2. \A j \in 2 .. Len(path) : j - 1 \in 1 .. Len(path') /\ path'[j - 1] = path[j]
    BY <1>2, <1>3
  <2>3. ASSUME preparedStatements'[k] # None
        PROVE  \E j \in 1 .. Len(path') : path'[j].kind = "close" /\ path'[j].key = k
    <3>1. \E j \in 2 .. Len(path) : path[j].kind = "close" /\ path[j].key = k
      <4>1. CASE Changes(r, k)
        <5>1. r.kind = "prepare" /\ r.key = k
          BY <1>5, <2>3, <4>1 DEF Changes
        <5> QED
          BY <1>2, <2>1, <5>1 DEF r
      <4>2. CASE ~ Changes(r, k)
        <5>1. PICK j \in 1 .. Len(path) : path[j].kind = "close" /\ path[j].key = k
          BY <1>5, <2>1, <2>3, <4>2
        <5>2. j # 1
          BY <4>2, <5>1 DEF Changes, r
        <5> QED
          BY <5>1, <5>2
      <4> QED
        BY <4>1, <4>2
    <3> QED
      BY <2>2, <3>1
  <2>4. ASSUME NEW j \in 1 .. Len(path'), path'[j].kind = "prepare", path'[j].key = k
        PROVE  \E m \in j + 1 .. Len(path') : path'[m].kind = "close" /\ path'[m].key = k
    <3>1. j + 1 \in 1 .. Len(path) /\ path'[j] = path[j + 1]
      BY <1>2, <1>3
    <3>2. PICK m \in (j + 1) + 1 .. Len(path) : path[m].kind = "close" /\ path[m].key = k
      BY <2>1, <2>4, <3>1
    <3>3. m - 1 \in j + 1 .. Len(path') /\ path'[m - 1] = path[m]
      BY <1>2, <1>3, <2>2
    <3> QED
      BY <3>2, <3>3
  <2> QED
    BY <2>3, <2>4
<1>9. TableWillFollow'
  <2> SUFFICES ASSUME NEW k \in Keys \ {0}, server[k] # None,
                      ~ (awaited # None /\ awaited.op = "prepare" /\ awaited.key = k)
               PROVE  Gives(path', preparedStatements', k, Len(path'), server[k], FALSE)
    BY <1>4 DEF TableWillFollow, Gives
  <2>1. Gives(path, preparedStatements, k, Len(path), server[k], FALSE)
    BY DEF InOrder, TableWillFollow
  <2>2. Len(path) \in 1 .. Len(path) /\ Len(path') = Len(path) - 1
    BY <1>1, <1>2, <1>3
  <2> QED
    BY <1>6, <2>1, <2>2
<1>10. ExecutionsWillFind'
  <2> SUFFICES ASSUME NEW j \in 1 .. Len(path'), path'[j].kind = "execute"
               PROVE  /\ path'[j].text # 0
                      /\ Gives(path', preparedStatements', path'[j].key, j - 1,
                               path'[j].text, path'[j].closed)
    BY DEF ExecutionsWillFind, Gives
  <2>1. j + 1 \in 1 .. Len(path) /\ j \in 1 .. Len(path) /\ path'[j] = path[j + 1]
        /\ (j + 1) - 1 = j
    BY <1>2, <1>3
  <2>2. /\ path[j + 1].text # 0
        /\ Gives(path, preparedStatements, path[j + 1].key, j, path[j + 1].text,
                 path[j + 1].closed)
    BY <2>1 DEF InOrder, ExecutionsWillFind
  <2>3. path[j + 1].key \in Keys /\ path[j + 1].closed \in BOOLEAN
    <3>1. path[j + 1] \in RecordType
      BY <1>2, <2>1, ElementOfSeq
    <3> QED
      BY <3>1 DEF RecordType
  <2> QED
    BY <1>6, <2>1, <2>2, <2>3
<1>11. shown' # None => /\ shown'.text \in {shown'.own, TheUnknown}
                        /\ shown'.text = TheUnknown => shown'.closed
  <2> SUFFICES ASSUME r.kind = "execute"
               PROVE  /\ Text(r.key) \in {r.text, TheUnknown}
                      /\ Text(r.key) = TheUnknown => r.closed
    BY <1>4
  <2>1. 1 \in 1 .. Len(path) /\ 1 - 1 = 0
    BY <1>1, <1>2
  <2>2. r.text # 0 /\ Gives(path, preparedStatements, r.key, 0, r.text, r.closed)
    BY <2>1 DEF InOrder, ExecutionsWillFind, r
  <2>3. \/ preparedStatements[r.key] = r.text
        \/ preparedStatements[r.key] = None /\ r.closed
    BY <2>2 DEF Gives
  <2>4. r.text # None
    BY <1>2, NoneAssumption, BoundsAssumption DEF RecordType, Texts, TheUnknown
  <2> QED
    BY <2>2, <2>3, <2>4 DEF Text, TheUnknown
<1> QED
  BY <1>7, <1>8, <1>9, <1>10, <1>11 DEF InOrder

LEMMA StutterFollows ==
    ASSUME InOrder, UNCHANGED vars
    PROVE  InOrder'
BY DEF InOrder, AwaitedIsKnown, ClosesFollow, TableWillFollow, ExecutionsWillFind, Gives, vars

LEMMA InductiveFollowed == Spec => []Followed
<1>1. IInv /\ Followed /\ [Next]_vars => Followed'
  <2> SUFFICES ASSUME IInv, Followed, [Next]_vars, ~ disturbed'
               PROVE  InOrder'
    BY DEF Followed
  <2>1. ~ disturbed
    BY DEF Next, Prepare, Execute, Answer, Close, ClosePortal, Lose, Parse, vars
  <2>2. InOrder
    BY <2>1 DEF Followed
  <2>3. \A i \in 1 .. Len(path) : ~ Lose(i)
    BY DEF Lose
  <2> QED
    BY <2>2, <2>3, PrepareFollows, ExecuteFollows, AnswerFollows, CloseFollows,
       ClosePortalFollows, ParseFollows, StutterFollows DEF Next
<1> QED
  BY <1>1, InitFollowed, Inductive, PTL DEF Spec

---------------------------------------------------------------------------

(* Every variable keeps its type: what an execution is shown as is always  *)
(* a text or unknown, and the table holds texts (mysql.go:53-68,           *)
(* postgres.go:38-80).                                                     *)
THEOREM TypeCorrect == Spec => []TypeOK
<1>1. IInv => TypeOK
  BY DEF IInv
<1> QED
  BY <1>1, Inductive, PTL

(* MysqlParser never shows an execution with the text of another           *)
(* statement, although records are lost and overtake each other and a      *)
(* refused PREPARE writes to the table too (mysql.go:53-64).               *)
THEOREM MysqlTextsAreOwn ==
    Spec => [](protocol = "mysql" /\ shown # None => shown.text \in {shown.own, TheUnknown})
<1>1. IInv => (protocol = "mysql" /\ shown # None => shown.text \in {shown.own, TheUnknown})
  BY DEF IInv, Numbered, ShownIsOwn
<1> QED
  BY <1>1, Inductive, PTL

(* Neither parser shows an execution with another statement's text, while  *)
(* Postgres's records arrive in order; then only an execution whose        *)
(* statement was closed meanwhile is shown as unknown (mysql.go:53-64,     *)
(* postgres.go:47-80).                                                     *)
THEOREM TextsAreOwn == Spec => []TextIsOwn
<1>1. IInv /\ Followed => TextIsOwn
  <2> SUFFICES ASSUME IInv, Followed, shown # None
               PROVE  /\ protocol = "mysql" \/ ~ disturbed => shown.text \in {shown.own, TheUnknown}
                      /\ ~ disturbed /\ shown.text = TheUnknown => shown.closed
    BY DEF TextIsOwn
  <2>1. protocol = "mysql" => shown.text \in {shown.own, TheUnknown}
    BY DEF IInv, Numbered, ShownIsOwn
  <2>2. ~ disturbed => /\ shown.text \in {shown.own, TheUnknown}
                       /\ shown.text = TheUnknown => shown.closed
    BY DEF Followed, InOrder
  <2> QED
    BY <2>1, <2>2
<1> QED
  BY <1>1, Inductive, InductiveFollowed, PTL

(* While records arrive in order, the tables hold no statement that was    *)
(* closed (mysql.go:65-66, postgres.go:68-80).                             *)
THEOREM Forgotten == Spec => []ClosedAreForgotten
<1>1. Followed => ClosedAreForgotten
  BY DEF Followed, InOrder, ClosesFollow, ClosedAreForgotten
<1> QED
  BY <1>1, InductiveFollowed, PTL

=============================================================================
