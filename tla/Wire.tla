-------------------------------- MODULE Wire --------------------------------
(***************************************************************************)
(* What becomes of a value between a client and a column: the parameters   *)
(* of a request are parsed (SqlRequest), bound (json_to_sql) and stored;   *)
(* a result row is turned back into JSON (sql_to_json) in one of the two   *)
(* shapes of RowsFormat.  A client may read a row and write it back, which *)
(* is how an object mapper saves a record.                                 *)
(*                                                                         *)
(* A value is a record of its kind and its content.  The columns have no   *)
(* declared type, so that SQLite stores what is bound.  Doubles are        *)
(* abstract: Nearest is the conversion of an integer to one, and the       *)
(* decimal notation of a double outside Exact is too long for serde_json,  *)
(* which without its feature float_roundtrip (Cargo.toml:31) may read it   *)
(* as one of its Neighbours.                                               *)
(***************************************************************************)
EXTENDS Integers, Sequences

CONSTANTS
    I64Max, U64Max,  \* the largest integers of the two widths
    Numbers,         \* the integers that JSON can spell
    Doubles,         \* the finite doubles
    Exact,           \* those that serde_json reads back as they are
    Nearest(_),      \* the double for an integer
    Neighbours(_),   \* what a double may be read back as
    JsonValues,      \* what a client may send as a parameter
    Computed,        \* values that a statement may store by itself
    Names            \* the names of result columns

I64 == -I64Max - 1 .. I64Max

Null == [kind |-> "null"]
Integer(n) == [kind |-> "integer", n |-> n]
Real(d) == [kind |-> "real", d |-> d]
Text == [kind |-> "text"]
Blob == [kind |-> "blob"]
Infinity == [kind |-> "infinity"]

SqlValues == {Null, Text, Blob, Infinity}
             \cup {Integer(n) : n \in I64} \cup {Real(d) : d \in Doubles}

\* An array or an object cannot be bound.
Nested == [kind |-> "nested"]
Bool(b) == [kind |-> "bool", b |-> b]

Json == {Null, Text, Nested} \cup {Bool(b) : b \in BOOLEAN}
        \cup {Integer(n) : n \in Numbers} \cup {Real(d) : d \in Doubles}

ASSUME WireAssumption ==
    /\ I64Max \in Nat \ {0} /\ U64Max \in Nat /\ I64Max < U64Max
    /\ Numbers \subseteq Int /\ I64 \subseteq Numbers
    /\ Exact \subseteq Doubles
    /\ \A n \in Numbers : Nearest(n) \in Doubles
    /\ \A d \in Doubles : Neighbours(d) \subseteq Doubles /\ d \in Neighbours(d)
    /\ \A d \in Exact : Neighbours(d) = {d}
    /\ JsonValues \subseteq Json
    /\ Computed \subseteq SqlValues

VARIABLES row,    \* the stored row: a value for either column
          sent,   \* the parameters it was stored from, <<>> for another row
          reply   \* what the client reads of it, column by column

wireVars == <<row, sent, reply>>

-----------------------------------------------------------------------------
(* Conversions.                                                            *)

\* serde_json: an integer too long for 64 bits becomes a double, too.
Parsed(j) ==
    CASE j.kind = "integer" /\ j.n \notin -I64Max - 1 .. U64Max
             -> {Real(d) : d \in Neighbours(Nearest(j.n))}
      [] j.kind = "real" -> {Real(d) : d \in Neighbours(j.d)}
      [] OTHER -> {j}

Bindable(j) == j.kind # "nested"

\* Mutant: as_f64 comes before as_i64.
DoublesFirst(j) ==
    CASE j.kind = "bool"    -> Integer(IF j.b THEN 1 ELSE 0)
      [] j.kind = "integer" -> Real(Nearest(j.n))
      [] OTHER -> j

\* Mutant: an integer is cast, and wraps.
Wrapped(n) == IF n > I64Max THEN n - U64Max - 1 ELSE n
CastToI64(j) ==
    CASE j.kind = "bool"    -> Integer(IF j.b THEN 1 ELSE 0)
      [] j.kind = "integer" -> Integer(Wrapped(j.n))
      [] OTHER -> j

\* Mutant: what as_i64 does not take is bound as it is.
Unchecked(j) == IF j.kind = "bool" THEN Integer(IF j.b THEN 1 ELSE 0) ELSE j

JsonToSql(j) ==
    CASE j.kind = "bool"    -> Integer(IF j.b THEN 1 ELSE 0)
      [] j.kind = "integer" -> IF j.n \in I64 THEN j ELSE Real(Nearest(j.n))
      [] OTHER -> j

SqlToJson(v) == IF v.kind \in {"blob", "infinity"} THEN Null ELSE v

\* What a list of parameters may be stored as.
Bound(js) ==
    {w \in {<<JsonToSql(a), JsonToSql(b)>> : a \in Parsed(js[1]), b \in Parsed(js[2])} :
        Bindable(js[1]) /\ Bindable(js[2])}

\* A row as an object: a later column replaces an earlier one of its name.
AsObject(names, v) == [n \in {names[1], names[2]} |-> IF n = names[2] THEN v[2] ELSE v[1]]

-----------------------------------------------------------------------------
(* The client.                                                             *)

NoReply == [format |-> "none"]

WireTypeOK ==
    /\ row \in SqlValues \X SqlValues
    /\ sent = <<>> \/ sent \in Json \X Json
    /\ \/ reply = NoReply
       \/ /\ reply.format \in {"objects", "arrays"}
          /\ reply.names \in Names \X Names
          /\ reply.cells \in Json \X Json

WireInit == row = <<Null, Null>> /\ sent = <<>> /\ reply = NoReply

\* UPDATE t SET a = ?, b = ?: one value that cannot be bound ends the call
\* before the statement is prepared.
Write(js) ==
    /\ row' \in Bound(js)
    /\ sent' = js
    /\ reply' = NoReply

\* UPDATE t SET a = x'00', b = 9e999: values that no parameter can carry.
Compute(v) ==
    /\ row' = v
    /\ sent' = <<>>
    /\ reply' = NoReply

\* SELECT a AS n1, b AS n2.  In an object the client looks a column up by
\* its name, in an array by its place.
Select(format, names) ==
    /\ reply = NoReply
    /\ LET v == <<SqlToJson(row[1]), SqlToJson(row[2])>>
           object == AsObject(names, v)
       IN reply' = [format |-> format, names |-> names,
                    cells |-> IF format = "objects"
                              THEN <<object[names[1]], object[names[2]]>>
                              ELSE v]
    /\ UNCHANGED <<row, sent>>

WriteBack ==
    /\ reply # NoReply
    /\ Write(reply.cells)

WireNext ==
    \/ \E js \in JsonValues \X JsonValues : Write(js)
    \/ \E v \in Computed \X Computed : Compute(v)
    \/ \E format \in {"objects", "arrays"}, names \in Names \X Names : Select(format, names)
    \/ WriteBack

WireSpec == WireInit /\ [][WireNext]_wireVars

-----------------------------------------------------------------------------
(* Properties.                                                             *)

\* Every column of the reply can be told from the others.
Told == reply.format = "arrays" \/ reply.names[1] # reply.names[2]

\* v may come back as w: the same value, but for a double whose decimal
\* notation is too long.  A blob and an infinity are read as null.
Kept(v, w) ==
    CASE v.kind = "real" -> w.kind = "real" /\ w.d \in Neighbours(v.d)
      [] v.kind \in {"blob", "infinity"} -> w = Null
      [] OTHER -> w = v

\* A client that reads a row and writes it back changes none of its values,
\* nor turns an integer into a double or back, as long as no two columns of
\* an object have one name; what is lost are blobs, infinities and at most
\* the last place of a long double (db.rs:468-492, 393-414).
CopyKeepsValues == [][WriteBack /\ Told => \A i \in {1, 2} : Kept(row[i], row'[i])]_wireVars

\* A client reads what it wrote: a Boolean as 0 or 1, an integer that does
\* not fit 64 bits as the double next to it, never wrapped, cut or null.
Answers(j, a) ==
    CASE j.kind = "bool"    -> a = Integer(IF j.b THEN 1 ELSE 0)
      [] j.kind = "real"    -> a.kind = "real" /\ a.d \in Neighbours(j.d)
      [] j.kind = "integer" -> \/ j.n \in I64 /\ a = j
                               \/ /\ j.n \notin I64 /\ a.kind = "real"
                                  /\ a.d \in Neighbours(Nearest(j.n))
      [] OTHER -> a = j

ReadsItsWrites ==
    reply # NoReply /\ sent # <<>> /\ Told => \A i \in {1, 2} : Answers(sent[i], reply.cells[i])

=============================================================================
