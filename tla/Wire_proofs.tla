----------------------------- MODULE Wire_proofs ----------------------------
(***************************************************************************)
(* What a client reads and writes back is what was there, for every width  *)
(* of integers and every set of doubles.                                   *)
(***************************************************************************)
EXTENDS Wire, TLAPS

\* The row is what its parameters were bound to, and the client's cells are
\* the row's values, unless a column hides another of its name.
WireInv ==
    /\ WireTypeOK
    /\ sent # <<>> => \A i \in {1, 2} : \E p \in Parsed(sent[i]) : row[i] = JsonToSql(p)
    /\ sent # <<>> => \A i \in {1, 2} : Bindable(sent[i])
    /\ reply # NoReply /\ Told => \A i \in {1, 2} : reply.cells[i] = SqlToJson(row[i])

-----------------------------------------------------------------------------
(* Conversions.                                                            *)

\* Any value that can be sent is of one of six kinds.
LEMMA JsonKinds ==
    ASSUME NEW j \in Json
    PROVE  \/ j = Null \/ j = Text \/ j = Nested
           \/ \E b \in BOOLEAN : j = Bool(b)
           \/ \E n \in Numbers : j = Integer(n)
           \/ \E d \in Doubles : j = Real(d)
BY DEF Json

LEMMA SqlKinds ==
    ASSUME NEW v \in SqlValues
    PROVE  \/ v = Null \/ v = Text \/ v = Blob \/ v = Infinity
           \/ \E n \in I64 : v = Integer(n)
           \/ \E d \in Doubles : v = Real(d)
BY DEF SqlValues

LEMMA I64Spelled == I64 \subseteq Numbers /\ I64 \subseteq Int /\ 0 \in I64 /\ 1 \in I64
BY WireAssumption DEF I64

\* json_to_sql makes a storable value of a bindable one, and sql_to_json a
\* value that the client takes for the one it sent.
LEMMA BoundValue ==
    ASSUME NEW j \in Json, Bindable(j), NEW p \in Parsed(j)
    PROVE  JsonToSql(p) \in SqlValues /\ Answers(j, SqlToJson(JsonToSql(p)))
<1>1. CASE j = Null \/ j = Text
  BY <1>1 DEF Parsed, JsonToSql, SqlToJson, Answers, SqlValues, Null, Text
<1>2. CASE j = Nested
  BY <1>2 DEF Bindable, Nested
<1>3. ASSUME NEW b \in BOOLEAN, j = Bool(b)
      PROVE  JsonToSql(p) \in SqlValues /\ Answers(j, SqlToJson(JsonToSql(p)))
  <2>1. p = Bool(b)
    BY <1>3 DEF Parsed, Bool
  <2>2. JsonToSql(p) = Integer(IF b THEN 1 ELSE 0)
    BY <2>1 DEF JsonToSql, Bool
  <2>3. QED
    BY <1>3, <2>2, I64Spelled DEF SqlToJson, Answers, SqlValues, Integer, Bool
<1>4. ASSUME NEW n \in Numbers, j = Integer(n)
      PROVE  JsonToSql(p) \in SqlValues /\ Answers(j, SqlToJson(JsonToSql(p)))
  <2>1. Nearest(n) \in Doubles /\ Nearest(n) \in Neighbours(Nearest(n))
        /\ Neighbours(Nearest(n)) \subseteq Doubles
    BY WireAssumption
  <2>2. CASE n \in I64
    <3>1. p = Integer(n)
      BY <1>4, <2>2, WireAssumption DEF Parsed, Integer, I64
    <3>2. JsonToSql(p) = Integer(n)
      BY <2>2, <3>1 DEF JsonToSql, Integer
    <3>3. QED
      BY <1>4, <2>2, <3>2 DEF SqlToJson, Answers, SqlValues, Integer
  <2>3. CASE n \notin I64
    <3>1. \E d \in Neighbours(Nearest(n)) : JsonToSql(p) = Real(d)
      <4>1. CASE n \in -I64Max - 1 .. U64Max
        <5>1. p = Integer(n)
          BY <1>4, <4>1 DEF Parsed, Integer
        <5>2. JsonToSql(p) = Real(Nearest(n))
          BY <2>3, <5>1 DEF JsonToSql, Integer
        <5>3. QED
          BY <2>1, <5>2
      <4>2. CASE n \notin -I64Max - 1 .. U64Max
        <5>1. \E d \in Neighbours(Nearest(n)) : p = Real(d)
          BY <1>4, <4>2 DEF Parsed, Integer
        <5>2. QED
          BY <5>1 DEF JsonToSql, Real
      <4>3. QED
        BY <4>1, <4>2
    <3>2. PICK d \in Neighbours(Nearest(n)) : JsonToSql(p) = Real(d)
      BY <3>1
    <3>3. QED
      BY <1>4, <2>1, <2>3, <3>2 DEF SqlToJson, Answers, SqlValues, Integer, Real
  <2>4. QED
    BY <2>2, <2>3
<1>5. ASSUME NEW d \in Doubles, j = Real(d)
      PROVE  JsonToSql(p) \in SqlValues /\ Answers(j, SqlToJson(JsonToSql(p)))
  <2>1. PICK e \in Neighbours(d) : p = Real(e)
    BY <1>5 DEF Parsed, Real
  <2>2. e \in Doubles
    BY WireAssumption
  <2>3. QED
    BY <1>5, <2>1, <2>2 DEF JsonToSql, SqlToJson, Answers, SqlValues, Real
<1>6. QED
  BY <1>1, <1>2, <1>3, <1>4, <1>5, JsonKinds

\* A stored value read and bound again is the same, or as near as Kept says.
LEMMA CopiedValue ==
    ASSUME NEW v \in SqlValues, NEW p \in Parsed(SqlToJson(v))
    PROVE  Kept(v, JsonToSql(p))
<1>1. CASE v = Null \/ v = Text \/ v = Blob \/ v = Infinity
  BY <1>1 DEF SqlToJson, Parsed, JsonToSql, Kept, Null, Text, Blob, Infinity
<1>2. ASSUME NEW n \in I64, v = Integer(n)
      PROVE  Kept(v, JsonToSql(p))
  <2>1. p = Integer(n)
    BY <1>2, WireAssumption DEF SqlToJson, Parsed, Integer, I64
  <2>2. JsonToSql(p) = v
    BY <1>2, <2>1 DEF JsonToSql, Integer
  <2>3. QED
    BY <1>2, <2>2 DEF Kept, Integer
<1>3. ASSUME NEW d \in Doubles, v = Real(d)
      PROVE  Kept(v, JsonToSql(p))
  <2>1. PICK e \in Neighbours(d) : p = Real(e)
    BY <1>3 DEF SqlToJson, Parsed, Real
  <2>2. QED
    BY <1>3, <2>1 DEF JsonToSql, Kept, Real
<1>4. QED
  BY <1>1, <1>2, <1>3, SqlKinds

LEMMA ReadValue == \A v \in SqlValues : SqlToJson(v) \in Json
<1> SUFFICES ASSUME NEW v \in SqlValues
             PROVE  SqlToJson(v) \in Json
  OBVIOUS
<1>1. CASE v = Null \/ v = Text \/ v = Blob \/ v = Infinity
  BY <1>1 DEF SqlToJson, Json, Null, Text, Blob, Infinity
<1>2. ASSUME NEW n \in I64, v = Integer(n)
      PROVE  SqlToJson(v) \in Json
  BY <1>2, I64Spelled DEF SqlToJson, Json, Integer
<1>3. ASSUME NEW d \in Doubles, v = Real(d)
      PROVE  SqlToJson(v) \in Json
  BY <1>3 DEF SqlToJson, Json, Real
<1>4. QED
  BY <1>1, <1>2, <1>3, SqlKinds

-----------------------------------------------------------------------------
(* Steps.                                                                  *)

LEMMA WrittenRow ==
    ASSUME NEW js \in Json \X Json, NEW w \in Bound(js)
    PROVE  /\ Bindable(js[1]) /\ Bindable(js[2])
           /\ w \in SqlValues \X SqlValues
           /\ \A i \in {1, 2} : \E p \in Parsed(js[i]) : w[i] = JsonToSql(p)
<1>1. Bindable(js[1]) /\ Bindable(js[2])
  BY DEF Bound
<1>2. PICK a \in Parsed(js[1]), b \in Parsed(js[2]) : w = <<JsonToSql(a), JsonToSql(b)>>
  BY DEF Bound
<1>3. js[1] \in Json /\ js[2] \in Json
  OBVIOUS
<1>4. JsonToSql(a) \in SqlValues /\ JsonToSql(b) \in SqlValues
  BY <1>1, <1>3, BoundValue
<1>5. w[1] = JsonToSql(a) /\ w[2] = JsonToSql(b)
  BY <1>2
<1>6. QED
  BY <1>1, <1>2, <1>4, <1>5

LEMMA WriteKeepsInv ==
    ASSUME WireInv, NEW js \in Json \X Json, Write(js)
    PROVE  WireInv'
<1>1. row' \in Bound(js) /\ sent' = js /\ reply' = NoReply
  BY DEF Write
<1>2. /\ row' \in SqlValues \X SqlValues
      /\ \A i \in {1, 2} : \E p \in Parsed(js[i]) : row'[i] = JsonToSql(p)
      /\ \A i \in {1, 2} : Bindable(js[i])
  BY <1>1, WrittenRow
<1>3. QED
  BY <1>1, <1>2 DEF WireInv, WireTypeOK

LEMMA SelectReads ==
    ASSUME WireInv, NEW format \in {"objects", "arrays"}, NEW names \in Names \X Names,
           Select(format, names)
    PROVE  /\ reply'.format = format /\ reply'.names = names
           /\ reply'.cells \in Json \X Json
           /\ Told' => \A i \in {1, 2} : reply'.cells[i] = SqlToJson(row[i])
           /\ reply' # NoReply
<1> DEFINE v == <<SqlToJson(row[1]), SqlToJson(row[2])>>
           object == AsObject(names, v)
<1>1. v \in Json \X Json /\ v[1] = SqlToJson(row[1]) /\ v[2] = SqlToJson(row[2])
  BY ReadValue DEF WireInv, WireTypeOK
<1>2. reply' = [format |-> format, names |-> names,
                cells |-> IF format = "objects"
                          THEN <<object[names[1]], object[names[2]]>> ELSE v]
  BY DEF Select
<1>3. object[names[2]] = v[2]
  BY DEF AsObject
<1>4. object[names[1]] = IF names[1] = names[2] THEN v[2] ELSE v[1]
  BY DEF AsObject
<1> HIDE DEF v, object
<1>5. <<object[names[1]], object[names[2]]>> \in Json \X Json
  BY <1>1, <1>3, <1>4
<1>6. reply'.format = format /\ reply'.names = names /\ reply'.cells \in Json \X Json
  BY <1>1, <1>2, <1>5
<1>7. ASSUME Told'
      PROVE  reply'.cells[1] = v[1] /\ reply'.cells[2] = v[2]
  <2>1. CASE format = "arrays"
    BY <1>2, <2>1
  <2>2. CASE format = "objects"
    <3>1. names[1] # names[2]
      BY <1>6, <1>7, <2>2 DEF Told
    <3>2. reply'.cells = <<object[names[1]], object[names[2]]>>
      BY <1>2, <2>2
    <3>3. QED
      BY <1>3, <1>4, <3>1, <3>2
  <2>3. QED
    BY <2>1, <2>2
<1>8. reply' # NoReply
  BY <1>6 DEF NoReply
<1>9. QED
  BY <1>1, <1>6, <1>7, <1>8

LEMMA WireInvInit == WireInit => WireInv
<1>1. Null \in SqlValues
  BY DEF SqlValues
<1>2. QED
  BY <1>1 DEF WireInit, WireInv, WireTypeOK

LEMMA WireInvNext == WireInv /\ [WireNext]_wireVars => WireInv'
<1> SUFFICES ASSUME WireInv, [WireNext]_wireVars
             PROVE  WireInv'
  OBVIOUS
<1>1. ASSUME NEW js \in JsonValues \X JsonValues, Write(js)
      PROVE  WireInv'
  <2>1. js \in Json \X Json
    BY WireAssumption
  <2>2. QED
    BY <1>1, <2>1, WriteKeepsInv
<1>2. ASSUME NEW v \in Computed \X Computed, Compute(v)
      PROVE  WireInv'
  BY <1>2, WireAssumption DEF Compute, WireInv, WireTypeOK
<1>3. ASSUME NEW format \in {"objects", "arrays"}, NEW names \in Names \X Names,
             Select(format, names)
      PROVE  WireInv'
  <2>1. row' = row /\ sent' = sent
    BY <1>3 DEF Select
  <2>2. QED
    BY <1>3, <2>1, SelectReads DEF WireInv, WireTypeOK
<1>4. CASE WriteBack
  <2>1. reply.cells \in Json \X Json /\ Write(reply.cells)
    BY <1>4 DEF WriteBack, WireInv, WireTypeOK
  <2>2. QED
    BY <2>1, WriteKeepsInv
<1>5. CASE UNCHANGED wireVars
  BY <1>5 DEF wireVars, WireInv, WireTypeOK, Told
<1>6. QED
  BY <1>1, <1>2, <1>3, <1>4, <1>5 DEF WireNext

-----------------------------------------------------------------------------

\* Every stored value is one that SQLite can store: no integer outgrows its
\* width on the way.
THEOREM WireTypeCorrect == WireSpec => []WireTypeOK
<1>1. WireSpec => []WireInv
  BY WireInvInit, WireInvNext, PTL DEF WireSpec
<1>2. WireInv => WireTypeOK
  BY DEF WireInv
<1>3. QED
  BY <1>1, <1>2, PTL

\* A client reads what it wrote, whatever the integers and the doubles.
THEOREM WritesAreRead == WireSpec => []ReadsItsWrites
<1>1. WireSpec => []WireInv
  BY WireInvInit, WireInvNext, PTL DEF WireSpec
<1>2. WireInv => ReadsItsWrites
  <2> SUFFICES ASSUME WireInv, reply # NoReply, sent # <<>>, Told, NEW i \in {1, 2}
               PROVE  Answers(sent[i], reply.cells[i])
    BY DEF ReadsItsWrites
  <2>1. sent[i] \in Json /\ Bindable(sent[i]) /\ reply.cells[i] = SqlToJson(row[i])
    BY DEF WireInv, WireTypeOK
  <2>2. PICK p \in Parsed(sent[i]) : row[i] = JsonToSql(p)
    BY DEF WireInv
  <2>3. QED
    BY <2>1, <2>2, BoundValue
<1>3. QED
  BY <1>1, <1>2, PTL

\* Reading a row and writing it back leaves it as it was.
THEOREM CopiesAreKept == WireSpec => CopyKeepsValues
<1>1. WireSpec => []WireInv
  BY WireInvInit, WireInvNext, PTL DEF WireSpec
<1>2. WireInv /\ [WireNext]_wireVars
          => [WriteBack /\ Told => \A i \in {1, 2} : Kept(row[i], row'[i])]_wireVars
  <2> SUFFICES ASSUME WireInv, WriteBack, Told, NEW i \in {1, 2}
               PROVE  Kept(row[i], row'[i])
    OBVIOUS
  <2>1. reply # NoReply /\ row' \in Bound(reply.cells) /\ reply.cells \in Json \X Json
    BY DEF WriteBack, Write, WireInv, WireTypeOK
  <2>2. row[i] \in SqlValues /\ reply.cells[i] = SqlToJson(row[i])
    BY <2>1 DEF WireInv, WireTypeOK
  <2>3. PICK p \in Parsed(reply.cells[i]) : row'[i] = JsonToSql(p)
    BY <2>1, WrittenRow
  <2>4. QED
    BY <2>2, <2>3, CopiedValue
<1>3. QED
  BY <1>1, <1>2, PTL DEF WireSpec, CopyKeepsValues

=============================================================================
