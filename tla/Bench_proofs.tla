----------------------------- MODULE Bench_proofs ---------------------------
(***************************************************************************)
(* The benchmark keeps its types, measures its reads on the seeded table,  *)
(* leaves a whole summary only beside the records it is made of and states *)
(* latencies in order, for any number of runs, iterations and rows and for *)
(* any times.                                                              *)
(***************************************************************************)
EXTENDS Bench, FiniteSetTheorems, FunctionTheorems, TLAPS

Rows == Seq([n : Nat, ok : Nat, errors : Nat])
Records == Seq([op : DOMAIN Ops, ok : BOOLEAN])

\* Nothing is inserted before the operations that follow the reads.
OnSeed == phase = "measuring" /\ op <= 2 => table = Seeds

-----------------------------------------------------------------------------

LEMMA FiveOps ==
    /\ DOMAIN Ops = 1 .. 5 /\ Len(Ops) = 5
    /\ \A i \in 1 .. 5 : /\ Ops[i] = "select" => i = 2
                         /\ Ops[i] = "insert" => i = 4 \/ i = 3
    /\ Ops[1] = "health" /\ Ops[2] = "select"
BY DEF Ops

LEMMA OutcomesAreBooleans == \A name : Outcomes(name) \subseteq BOOLEAN
BY DEF Outcomes

\* A row counts its samples: some of them are below 400, the others are not.
LEMMA RowTyped ==
    ASSUME NEW s \in Seq([ns : Times, ok : BOOLEAN])
    PROVE  Row(s) \in [n : Nat, ok : Nat, errors : Nat]
<1> DEFINE below == {i \in DOMAIN s : s[i].ok}
<1>1. DOMAIN s = 1 .. Len(s) /\ Len(s) \in Nat
  OBVIOUS
<1>2. IsFiniteSet(1 .. Len(s)) /\ Cardinality(1 .. Len(s)) = Len(s)
  BY <1>1, FS_Interval
<1>3. below \subseteq 1 .. Len(s)
  BY <1>1
<1>4. IsFiniteSet(below) /\ Cardinality(below) <= Len(s)
  BY <1>2, <1>3, FS_Subset
<1>5. Cardinality(below) \in Nat
  BY <1>4, FS_CardinalityType
<1>6. OkIn(s) = Cardinality(below)
  BY DEF OkIn
<1> HIDE DEF below
<1>7. QED
  BY <1>1, <1>4, <1>5, <1>6 DEF Row

LEMMA PrefixTyped ==
    ASSUME NEW S, NEW s \in Seq(S), NEW k \in {0, Len(s)}
    PROVE  /\ SubSeq(s, 1, k) \in Seq(S)
           /\ SubSeq(s, k + 1, Len(s)) \in Seq(S)
<1>1. k \in Nat /\ k <= Len(s)
  OBVIOUS
<1>2. \A i \in 1 .. k : s[i] \in S
  BY <1>1
<1>3. \A i \in k + 1 .. Len(s) : s[i] \in S
  BY <1>1
<1>4. QED
  BY <1>1, <1>2, <1>3

LEMMA BufferTyped ==
    ASSUME BenchTypeOK, NEW records \in Records, Buffered(records)
    PROVE  /\ pending' \in Records
           /\ jsonl' \in [run : 0 .. Runs, records : Records]
<1>1. PICK k \in {0, Len(records)} :
          /\ jsonl' = [jsonl EXCEPT !.records = @ \o SubSeq(records, 1, k)]
          /\ pending' = SubSeq(records, k + 1, Len(records))
  BY DEF Buffered
<1>2. SubSeq(records, 1, k) \in Records /\ pending' \in Records
  BY <1>1, PrefixTyped DEF Records
<1>3. jsonl \in [run : 0 .. Runs, records : Records]
  BY DEF BenchTypeOK, Records
<1>4. jsonl.records \o SubSeq(records, 1, k) \in Records
  BY <1>2, <1>3 DEF Records
<1>5. QED
  BY <1>1, <1>2, <1>3, <1>4

LEMMA BenchTypeInit == BenchInit => BenchTypeOK
BY BenchAssumption, FiveOps DEF BenchInit, BenchTypeOK

LEMMA BenchTypeNext == BenchTypeOK /\ [BenchNext]_benchVars => BenchTypeOK'
<1> SUFFICES ASSUME BenchTypeOK, [BenchNext]_benchVars
             PROVE  BenchTypeOK'
  OBVIOUS
<1> USE BenchAssumption
<1>1. CASE Start
  BY <1>1, FiveOps DEF Start, BenchTypeOK
<1>2. CASE Seed
  BY <1>2 DEF Seed, BenchTypeOK
<1>3. CASE CreateRecords
  BY <1>3 DEF CreateRecords, BenchTypeOK
<1>4. CASE Call
  <2>1. PICK ns \in Times, ok \in Outcomes(Ops[op]) :
             /\ samples' = Append(samples, [ns |-> ns, ok |-> ok])
             /\ table' = IF Ops[op] = "insert" /\ ok THEN table + 1 ELSE table
    BY <1>4 DEF Call
  <2>2. [ns |-> ns, ok |-> ok] \in [ns : Times, ok : BOOLEAN]
    BY OutcomesAreBooleans
  <2>3. /\ samples' \in Seq([ns : Times, ok : BOOLEAN])
        /\ Len(samples') <= Iterations
    BY <1>4, <2>1, <2>2 DEF Call, MoreCalls, BenchTypeOK
  <2>4. table' \in Nat
    BY <2>1 DEF BenchTypeOK
  <2>5. QED
    BY <1>4, <2>3, <2>4 DEF Call, BenchTypeOK
<1>5. CASE Summarise
  <2> DEFINE new == [i \in DOMAIN samples |-> [op |-> op, ok |-> samples[i].ok]]
  <2>1. new \in Records
    <3>1. op \in DOMAIN Ops /\ DOMAIN samples = 1 .. Len(samples) /\ Len(samples) \in Nat
      BY DEF BenchTypeOK
    <3>2. \A i \in DOMAIN samples : samples[i].ok \in BOOLEAN
      <4> DEFINE S == [ns : Times, ok : BOOLEAN]
      <4>1. samples \in Seq(S)
        BY DEF BenchTypeOK
      <4> HIDE DEF S
      <4>2. \A i \in DOMAIN samples : samples[i] \in S
        BY <4>1
      <4>3. QED
        BY <4>2, Zenon DEF S
    <3>3. \A i \in DOMAIN samples :
              [op |-> op, ok |-> samples[i].ok] \in [op : DOMAIN Ops, ok : BOOLEAN]
      BY <3>1, <3>2, Zenon
    <3>4. QED
      BY <3>1, <3>3 DEF Records
  <2>2. pending \in Records
    BY DEF BenchTypeOK, Records
  <2> HIDE DEF new
  <2>3. pending \o new \in Records
    BY <2>1, <2>2 DEF Records
  <2>4. Buffered(pending \o new)
    BY <1>5 DEF Summarise, new
  <2>5. /\ pending' \in Records
        /\ jsonl' \in [run : 0 .. Runs, records : Records]
    BY <2>3, <2>4, BufferTyped
  <2>6. Row(samples) \in [n : Nat, ok : Nat, errors : Nat]
    BY RowTyped DEF BenchTypeOK
  <2>7. summary' \in Rows
    BY <1>5, <2>6 DEF Summarise, BenchTypeOK, Rows
  <2>8. op' \in DOMAIN Ops /\ phase' \in {"measuring", "flushing"}
    BY <1>5, FiveOps DEF Summarise, BenchTypeOK
  <2>9. samples' = <<>> /\ UNCHANGED <<run, table, md>>
    BY <1>5 DEF Summarise
  <2>10. QED
    BY <2>5, <2>7, <2>8, <2>9 DEF BenchTypeOK, Records, Rows
<1>6. CASE CreateSummary
  <2>1. jsonl' = [jsonl EXCEPT !.records = jsonl.records \o pending]
    BY <1>6 DEF CreateSummary, FlushRecords
  <2>2. jsonl \in [run : 0 .. Runs, records : Records] /\ pending \in Records
    BY DEF BenchTypeOK, Records
  <2>3. jsonl.records \o pending \in Records
    BY <2>2 DEF Records
  <2>4. jsonl' \in [run : 0 .. Runs, records : Records]
    BY <2>1, <2>2, <2>3
  <2>5. QED
    BY <1>6, <2>4 DEF CreateSummary, FlushRecords, BenchTypeOK, Records
<1>7. CASE WriteSummary
  BY <1>7 DEF WriteSummary, BenchTypeOK
<1>8. CASE Stop
  <2>1. pending \in Records /\ summary \in Rows
    BY DEF BenchTypeOK, Records, Rows
  <2>2. /\ pending' \in Records
        /\ jsonl' \in [run : 0 .. Runs, records : Records]
    BY <1>8, <2>1, BufferTyped DEF Stop
  <2>3. PICK k \in {0, Len(summary)} :
            md' = IF phase = "writing" THEN [md EXCEPT !.rows = SubSeq(summary, 1, k)] ELSE md
    BY <1>8 DEF Stop
  <2>4. SubSeq(summary, 1, k) \in Rows
    BY <2>1, PrefixTyped DEF Rows
  <2>5. md' \in [run : 0 .. Runs, rows : Rows, whole : BOOLEAN]
    BY <2>3, <2>4 DEF BenchTypeOK, Rows
  <2>6. phase' = "stopped" /\ UNCHANGED <<run, table, op, samples, summary, stats>>
    BY <1>8 DEF Stop
  <2>7. QED
    BY <2>2, <2>5, <2>6 DEF BenchTypeOK, Records, Rows
<1>9. CASE UNCHANGED benchVars
  BY <1>9 DEF benchVars, BenchTypeOK
<1>10. QED
  BY <1>1, <1>2, <1>3, <1>4, <1>5, <1>6, <1>7, <1>8, <1>9 DEF BenchNext

LEMMA OnSeedNext ==
    BenchTypeOK /\ OnSeed /\ (phase = "seeding" => op = 1) /\ [BenchNext]_benchVars
        => OnSeed' /\ (phase = "seeding" => op = 1)'
<1> SUFFICES ASSUME BenchTypeOK, OnSeed, phase = "seeding" => op = 1, [BenchNext]_benchVars
             PROVE  OnSeed' /\ (phase' = "seeding" => op' = 1)
  OBVIOUS
<1>1. op \in 1 .. 5
  BY FiveOps DEF BenchTypeOK
<1>2. CASE Call
  <2>1. op <= 2 => Ops[op] # "insert"
    BY <1>1, FiveOps
  <2>2. QED
    BY <1>2, <2>1 DEF Call, OnSeed
<1>3. CASE Summarise
  BY <1>1, <1>3 DEF Summarise, OnSeed
<1>4. CASE Start \/ Seed \/ CreateRecords
  BY <1>4 DEF Start, Seed, CreateRecords, OnSeed
<1>5. CASE CreateSummary \/ WriteSummary \/ Stop
  BY <1>5 DEF CreateSummary, WriteSummary, Stop, OnSeed
<1>6. CASE UNCHANGED benchVars
  BY <1>6 DEF benchVars, OnSeed
<1>7. QED
  BY <1>2, <1>3, <1>4, <1>5, <1>6 DEF BenchNext

-----------------------------------------------------------------------------
(* Records and rows.                                                       *)

\* The positions of a sequence that hold a member of a set.
Positions(s, P) == {k \in DOMAIN s : s[k] \in P}

LEMMA PositionsFinite ==
    ASSUME NEW S, NEW s \in Seq(S), NEW P
    PROVE  /\ IsFiniteSet(Positions(s, P)) /\ Cardinality(Positions(s, P)) \in Nat
           /\ Cardinality(Positions(s, P)) <= Len(s)
<1>1. DOMAIN s = 1 .. Len(s) /\ Len(s) \in Nat
  OBVIOUS
<1>2. IsFiniteSet(1 .. Len(s)) /\ Cardinality(1 .. Len(s)) = Len(s)
  BY <1>1, FS_Interval
<1>3. Positions(s, P) \subseteq 1 .. Len(s)
  BY <1>1 DEF Positions
<1>4. QED
  BY <1>2, <1>3, FS_Subset, FS_CardinalityType

\* Two sequences hold together what each of them does.
LEMMA PositionsAppend ==
    ASSUME NEW S, NEW s \in Seq(S), NEW t \in Seq(S), NEW P
    PROVE  Cardinality(Positions(s \o t, P))
               = Cardinality(Positions(s, P)) + Cardinality(Positions(t, P))
<1> DEFINE n     == Len(s)
           A     == Positions(s, P)
           B     == Positions(t, P)
           C     == {k \in n + 1 .. n + Len(t) : t[k - n] \in P}
           shift == [k \in B |-> k + n]
<1>1. /\ n \in Nat /\ Len(t) \in Nat /\ DOMAIN s = 1 .. n /\ DOMAIN t = 1 .. Len(t)
      /\ DOMAIN (s \o t) = 1 .. n + Len(t)
  OBVIOUS
<1>2. /\ \A k \in 1 .. n : (s \o t)[k] = s[k]
      /\ \A k \in n + 1 .. n + Len(t) : (s \o t)[k] = t[k - n]
  OBVIOUS
<1>3. Positions(s \o t, P) = A \cup C /\ A \cap C = {}
  BY <1>1, <1>2 DEF Positions
<1>4. ExistsBijection(B, C)
  <2>1. B \subseteq 1 .. Len(t)
    BY <1>1 DEF Positions
  <2>2. shift \in [B -> C]
    BY <1>1, <2>1 DEF Positions
  <2>3. \A k, l \in B : shift[k] = shift[l] => k = l
    BY <1>1, <2>1
  <2>4. ASSUME NEW k \in C
        PROVE  \E l \in B : shift[l] = k
    <3>1. k - n \in 1 .. Len(t) /\ t[k - n] \in P /\ (k - n) + n = k
      BY <1>1
    <3>2. k - n \in B
      BY <1>1, <3>1 DEF Positions
    <3>3. QED
      BY <3>1, <3>2
  <2> HIDE DEF shift, B, C
  <2>5. shift \in Bijection(B, C)
    BY <2>2, <2>3, <2>4, Fun_IsBij
  <2>6. QED
    BY <2>5, Fun_ExistsBij
<1>5. IsFiniteSet(A) /\ IsFiniteSet(B) /\ Cardinality(A) \in Nat /\ Cardinality(B) \in Nat
  BY PositionsFinite
<1>6. IsFiniteSet(C) /\ Cardinality(C) = Cardinality(B)
  <2> HIDE DEF B, C
  <2>1. QED
    BY <1>4, <1>5, FS_Bijection
<1>7. Cardinality(A \cup C) = Cardinality(A) + Cardinality(C) - Cardinality(A \cap C)
  <2> HIDE DEF A, C
  <2>1. QED
    BY <1>5, <1>6, FS_Union
<1>8. QED
  <2> HIDE DEF A, B, C
  <2>1. Cardinality(A \cap C) = 0
    BY <1>3, FS_EmptySet
  <2>2. QED
    BY <1>3, <1>5, <1>6, <1>7, <2>1 DEF A, B

Rec == [op : DOMAIN Ops, ok : BOOLEAN]
OfOp(i) == {r \in Rec : r.op = i}
OfOpOk(i) == {r \in Rec : r.op = i /\ r.ok}

LEMMA CountsArePositions ==
    ASSUME NEW s \in Records, NEW i
    PROVE  /\ Count(s, i) = Cardinality(Positions(s, OfOp(i)))
           /\ CountOk(s, i) = Cardinality(Positions(s, OfOpOk(i)))
           /\ Count(s, i) \in Nat /\ CountOk(s, i) \in Nat
<1>1. s \in Seq(Rec)
  BY DEF Records, Rec
<1>2. \A k \in DOMAIN s : s[k] \in Rec
  BY <1>1
<1>3. Positions(s, OfOp(i)) = {k \in DOMAIN s : s[k].op = i}
  BY <1>2, Zenon DEF Positions, OfOp
<1>4. Positions(s, OfOpOk(i)) = {k \in DOMAIN s : s[k].op = i /\ s[k].ok}
  BY <1>2, Zenon DEF Positions, OfOpOk
<1>5. QED
  BY <1>1, <1>3, <1>4, PositionsFinite DEF Count, CountOk

\* Records add up.
LEMMA CountsAdd ==
    ASSUME NEW s \in Records, NEW t \in Records, NEW i
    PROVE  /\ Count(s \o t, i) = Count(s, i) + Count(t, i)
           /\ CountOk(s \o t, i) = CountOk(s, i) + CountOk(t, i)
<1>1. s \in Seq(Rec) /\ t \in Seq(Rec)
  BY DEF Records, Rec
<1>2. s \o t \in Records
  BY <1>1 DEF Records, Rec
<1>3. QED
  BY <1>1, <1>2, CountsArePositions, PositionsAppend

\* The records of an operation are as many as its samples, and as many of
\* them are below 400; they are of no other operation.
LEMMA RecordsOfSamples ==
    ASSUME NEW s \in Seq([ns : Times, ok : BOOLEAN]), NEW j \in DOMAIN Ops
    PROVE  LET new == [i \in DOMAIN s |-> [op |-> j, ok |-> s[i].ok]]
           IN  /\ new \in Records
               /\ Count(new, j) = Len(s) /\ CountOk(new, j) = OkIn(s)
               /\ \A i : i # j => Count(new, i) = 0 /\ CountOk(new, i) = 0
<1> DEFINE new == [i \in DOMAIN s |-> [op |-> j, ok |-> s[i].ok]]
           S   == [ns : Times, ok : BOOLEAN]
<1>1. DOMAIN s = 1 .. Len(s) /\ Len(s) \in Nat
  OBVIOUS
<1>2. \A i \in DOMAIN s : s[i] \in S
  <2>1. s \in Seq(S)
    OBVIOUS
  <2> HIDE DEF S
  <2>2. QED
    BY <2>1
<1>3. \A i \in DOMAIN s : s[i].ok \in BOOLEAN
  BY <1>2, Zenon DEF S
<1> HIDE DEF S
<1>4. DOMAIN new = DOMAIN s /\ \A i \in DOMAIN s : new[i] = [op |-> j, ok |-> s[i].ok]
  OBVIOUS
<1>5. \A i \in DOMAIN s : new[i] \in Rec /\ new[i].op = j /\ new[i].ok = s[i].ok
  BY <1>3, <1>4, Zenon DEF Rec
<1>6. new \in Records
  <2>1. new \in [1 .. Len(s) -> Rec]
    BY <1>1, <1>4, <1>5, Zenon
  <2>2. QED
    BY <1>1, <2>1 DEF Records, Rec
<1> HIDE DEF new
<1>7. {k \in DOMAIN new : new[k].op = j} = 1 .. Len(s)
  BY <1>1, <1>4, <1>5, Zenon
<1>8. \A n \in Nat : Cardinality(1 .. n) = n
  BY FS_Interval
<1>9. {k \in DOMAIN new : new[k].op = j /\ new[k].ok} = {i \in DOMAIN s : s[i].ok}
  BY <1>4, <1>5, Zenon
<1>10. ASSUME NEW i, i # j
       PROVE  Count(new, i) = 0 /\ CountOk(new, i) = 0
  <2>1. {k \in DOMAIN new : new[k].op = i} = {}
    BY <1>4, <1>5, <1>10, Zenon
  <2>2. {k \in DOMAIN new : new[k].op = i /\ new[k].ok} = {}
    BY <1>4, <1>5, <1>10, Zenon
  <2>3. QED
    BY <2>1, <2>2, FS_EmptySet DEF Count, CountOk
<1>11. QED
  BY <1>1, <1>6, <1>7, <1>8, <1>9, <1>10 DEF Count, CountOk, OkIn, new

LEMMA NoRecords == \A i : Count(<<>>, i) = 0 /\ CountOk(<<>>, i) = 0
<1>1. \A i : {k \in DOMAIN <<>> : <<>>[k].op = i} = {}
  OBVIOUS
<1>2. \A i : {k \in DOMAIN <<>> : <<>>[k].op = i /\ <<>>[k].ok} = {}
  OBVIOUS
<1>3. QED
  BY <1>1, <1>2, FS_EmptySet DEF Count, CountOk

\* What the buffer holds and the file has stay together.
LEMMA BufferKeeps ==
    ASSUME BenchTypeOK, NEW records \in Records, Buffered(records)
    PROVE  /\ jsonl'.run = jsonl.run
           /\ jsonl'.records \o pending' = jsonl.records \o records
           /\ records = <<>> => jsonl' = jsonl
<1>1. PICK k \in {0, Len(records)} :
          /\ jsonl' = [jsonl EXCEPT !.records = @ \o SubSeq(records, 1, k)]
          /\ pending' = SubSeq(records, k + 1, Len(records))
  BY DEF Buffered
<1>2. jsonl \in [run : 0 .. Runs, records : Records]
  BY DEF BenchTypeOK, Records
<1>3. jsonl.records \in Seq(Rec) /\ records \in Seq(Rec)
  BY <1>2 DEF Records, Rec
<1>4. /\ jsonl'.run = jsonl.run
      /\ jsonl'.records = jsonl.records \o SubSeq(records, 1, k)
  BY <1>1, <1>2
<1>5. \A x \in Seq(Rec), y \in Seq(Rec) :
         /\ (x \o SubSeq(y, 1, 0)) \o SubSeq(y, 1, Len(y)) = x \o y
         /\ (x \o SubSeq(y, 1, Len(y))) \o SubSeq(y, Len(y) + 1, Len(y)) = x \o y
  OBVIOUS
<1>6. jsonl'.records \o pending' = jsonl.records \o records
  <2>1. CASE k = 0
    <3>1. pending' = SubSeq(records, 1, Len(records))
      BY <1>1, <2>1
    <3>2. QED
      BY <1>3, <1>4, <1>5, <2>1, <3>1, Zenon
  <2>2. CASE k = Len(records)
    <3>1. /\ pending' = SubSeq(records, Len(records) + 1, Len(records))
          /\ jsonl'.records = jsonl.records \o SubSeq(records, 1, Len(records))
      BY <1>1, <1>4, <2>2, Zenon
    <3>2. QED
      BY <1>3, <1>5, <3>1, Zenon
  <2>3. QED
    BY <2>1, <2>2
<1>7. ASSUME records = <<>>
      PROVE  jsonl' = jsonl
  <2>1. \A x \in Seq(Rec) : x \o SubSeq(<<>>, 1, 0) = x
    OBVIOUS
  <2>2. jsonl'.records = jsonl.records
    BY <1>1, <1>3, <1>4, <1>7, <2>1
  <2>3. jsonl' = [run |-> jsonl.run, records |-> jsonl.records]
    BY <1>1, <1>2, <2>2
  <2>4. QED
    BY <1>2, <2>3
<1>8. QED
  BY <1>4, <1>6, <1>7

-----------------------------------------------------------------------------

\* Every operation that is in the summary is on record, in the file or in
\* the buffer, as often as it was measured, and no other is.
BackedRows ==
    LET all == jsonl.records \o pending
    IN \A i \in DOMAIN Ops :
           /\ i <= Len(summary) =>
                  /\ Count(all, i) = Iterations /\ CountOk(all, i) = summary[i].ok
                  /\ summary[i].n = Iterations
                  /\ summary[i].ok + summary[i].errors = Iterations
           /\ i > Len(summary) => Count(all, i) = 0 /\ CountOk(all, i) = 0

\* An older summary is left whole until its records are gone and until the
\* new records are all in the file.
BenchInv ==
    /\ jsonl.run <= run /\ md.run <= run
    /\ phase = "seeding" => op = 1 /\ summary = <<>> /\ pending = <<>>
    /\ phase = "measuring" => Len(summary) = op - 1
    /\ phase \in {"flushing", "writing"} => Len(summary) = Len(Ops)
    /\ phase \in {"measuring", "flushing", "writing"} => jsonl.run = run /\ BackedRows
    /\ phase \in {"seeding", "measuring", "flushing"} => md.run < run
    /\ phase = "writing" => pending = <<>> /\ md.run = run /\ ~md.whole
    /\ SummaryHasItsRecords

\* What a summary of an operation adds to the summary and to the records.
LEMMA SummariseBacks ==
    ASSUME BenchTypeOK, BenchInv, Summarise
    PROVE  /\ BackedRows' /\ Len(summary') = op
<1> DEFINE new == [i \in DOMAIN samples |-> [op |-> op, ok |-> samples[i].ok]]
           old == jsonl.records \o pending
<1>1. /\ op \in DOMAIN Ops /\ op \in Nat /\ samples \in Seq([ns : Times, ok : BOOLEAN])
      /\ Len(samples) = Iterations
      /\ pending \in Records /\ jsonl.records \in Records
      /\ summary \in Rows /\ Len(summary) = op - 1 /\ BackedRows
  <2>1. phase = "measuring" /\ Len(samples) = Iterations
    BY DEF Summarise
  <2>2. Len(summary) = op - 1 /\ BackedRows
    BY <2>1 DEF BenchInv
  <2>3. /\ op \in DOMAIN Ops /\ samples \in Seq([ns : Times, ok : BOOLEAN])
        /\ pending \in Records /\ summary \in Rows
        /\ jsonl \in [run : 0 .. Runs, records : Records]
    BY Zenon DEF BenchTypeOK, Records, Rows
  <2>4. op \in Nat /\ jsonl.records \in Records
    BY <2>3, FiveOps
  <2>5. QED
    BY <2>1, <2>2, <2>3, <2>4
<1>2. /\ new \in Records
      /\ Count(new, op) = Iterations /\ CountOk(new, op) = OkIn(samples)
      /\ \A i : i # op => Count(new, i) = 0 /\ CountOk(new, i) = 0
  BY <1>1, RecordsOfSamples
<1>3. Buffered(pending \o new)
  BY DEF Summarise
<1> HIDE DEF new
<1>4. pending \o new \in Records /\ old \in Records
  BY <1>1, <1>2 DEF Records
<1>5. jsonl'.records \o pending' = jsonl.records \o (pending \o new)
  BY <1>3, <1>4, BufferKeeps
<1>6. jsonl.records \o (pending \o new) = old \o new
  <2>1. \A x, y, z \in Seq(Rec) : x \o (y \o z) = (x \o y) \o z
    OBVIOUS
  <2>2. QED
    BY <1>1, <1>2, <2>1 DEF Records, Rec
<1>7. \A i : /\ Count(old \o new, i) = Count(old, i) + Count(new, i)
             /\ CountOk(old \o new, i) = CountOk(old, i) + CountOk(new, i)
             /\ Count(old, i) \in Nat /\ CountOk(old, i) \in Nat
  BY <1>2, <1>4, CountsAdd, CountsArePositions
<1>8. summary' = Append(summary, Row(samples))
  BY DEF Summarise
<1>9. Row(samples) = [n |-> Iterations, ok |-> OkIn(samples), errors |-> Iterations - OkIn(samples)]
  BY <1>1 DEF Row
<1>10. OkIn(samples) \in Nat
  BY <1>2, CountsArePositions
<1>11. /\ Len(summary') = op /\ summary'[op] = Row(samples)
       /\ \A i \in 1 .. op - 1 : summary'[i] = summary[i]
  BY <1>1, <1>8 DEF Rows
<1>12. \A i \in DOMAIN Ops :
           /\ i < op => /\ Count(old, i) = Iterations /\ CountOk(old, i) = summary[i].ok
                        /\ summary[i].n = Iterations
                        /\ summary[i].ok + summary[i].errors = Iterations
           /\ i >= op => Count(old, i) = 0 /\ CountOk(old, i) = 0
  BY <1>1, FiveOps DEF BackedRows
<1> HIDE DEF old
<1>13. ASSUME NEW i \in DOMAIN Ops
       PROVE  /\ i <= op => /\ Count(old \o new, i) = Iterations
                            /\ CountOk(old \o new, i) = summary'[i].ok
                            /\ summary'[i].n = Iterations
                            /\ summary'[i].ok + summary'[i].errors = Iterations
              /\ i > op => Count(old \o new, i) = 0 /\ CountOk(old \o new, i) = 0
  <2>1. i \in Nat /\ i >= 1
    BY FiveOps
  <2>2. CASE i < op
    <3>1. summary'[i] = summary[i]
      BY <1>1, <1>11, <2>1, <2>2
    <3>2. Count(new, i) = 0 /\ CountOk(new, i) = 0
      BY <1>1, <1>2, <2>1, <2>2
    <3>3. /\ Count(old \o new, i) = Count(old, i) /\ CountOk(old \o new, i) = CountOk(old, i)
      BY <1>7, <3>2
    <3>4. QED
      BY <1>1, <1>12, <2>1, <2>2, <3>1, <3>3
  <2>3. CASE i = op
    <3>1. Count(old, i) = 0 /\ CountOk(old, i) = 0
      BY <1>1, <1>12, <2>3
    <3>2. Count(old \o new, i) = Iterations /\ CountOk(old \o new, i) = OkIn(samples)
      BY <1>2, <1>7, <1>10, <2>3, <3>1, BenchAssumption
    <3>3. QED
      BY <1>1, <1>9, <1>10, <1>11, <2>3, <3>2, BenchAssumption
  <2>4. CASE i > op
    <3>1. Count(new, i) = 0 /\ CountOk(new, i) = 0
      BY <1>1, <1>2, <2>1, <2>4
    <3>2. Count(old, i) = 0 /\ CountOk(old, i) = 0
      BY <1>1, <1>12, <2>1, <2>4
    <3>3. Count(old \o new, i) = 0 /\ CountOk(old \o new, i) = 0
      BY <1>7, <3>1, <3>2
    <3>4. ~(i <= op)
      BY <1>1, <2>1, <2>4
    <3>5. QED
      BY <3>3, <3>4, Zenon
  <2>5. QED
    BY <1>1, <2>1, <2>2, <2>3, <2>4
<1>14. QED
  <2>1. (jsonl.records \o pending)' = old \o new
    BY <1>5, <1>6 DEF old
  <2>2. QED
    BY <1>11, <1>13, <2>1, Zenon DEF BackedRows

LEMMA BenchInvInit == BenchInit => BenchInv
BY DEF BenchInit, BenchInv, SummaryHasItsRecords

LEMMA BenchInvNext == BenchTypeOK /\ BenchInv /\ [BenchNext]_benchVars => BenchInv'
<1> SUFFICES ASSUME BenchTypeOK, BenchInv, [BenchNext]_benchVars
             PROVE  BenchInv'
  OBVIOUS
<1>1. /\ run \in Int /\ op \in 1 .. 5 /\ jsonl.run \in Int /\ md.run \in Int
      /\ jsonl \in [run : 0 .. Runs, records : Records] /\ pending \in Records
      /\ jsonl.records \in Records /\ summary \in Rows
      /\ md \in [run : 0 .. Runs, rows : Rows, whole : BOOLEAN]
  BY BenchAssumption, FiveOps DEF BenchTypeOK, Records, Rows
<1>2. CASE Start
  BY <1>1, <1>2 DEF Start, BenchInv, SummaryHasItsRecords
<1>3. CASE Seed
  BY <1>1, <1>3 DEF Seed, BenchInv, SummaryHasItsRecords
<1>4. CASE CreateRecords
  <2>1. jsonl' = [run |-> run, records |-> <<>>] /\ md' = md /\ pending' = <<>>
        /\ summary' = <<>> /\ op' = 1 /\ run' = run /\ phase' = "measuring" /\ md.run < run
    BY <1>4 DEF CreateRecords, BenchInv
  <2>2. (jsonl.records \o pending)' = <<>>
    BY <2>1
  <2>3. BackedRows'
    <3>1. \A i \in DOMAIN Ops : i > 0
      BY FiveOps
    <3>2. Len(summary') = 0
      BY <2>1
    <3>3. QED
      BY <2>2, <3>1, <3>2, FiveOps, NoRecords DEF BackedRows
  <2>4. SummaryHasItsRecords'
    BY <1>1, <2>1 DEF SummaryHasItsRecords
  <2>5. QED
    BY <1>1, <2>1, <2>3, <2>4 DEF BenchInv
<1>5. CASE Call
  BY <1>1, <1>5 DEF Call, BenchInv, SummaryHasItsRecords, BackedRows
<1>6. CASE Summarise
  <2>1. BackedRows' /\ Len(summary') = op
    BY <1>6, SummariseBacks
  <2>2. /\ jsonl'.run = run /\ md.run < run /\ run' = run /\ md' = md
    <3>1. [i \in DOMAIN samples |-> [op |-> op, ok |-> samples[i].ok]] \in Records
      BY RecordsOfSamples DEF BenchTypeOK
    <3>2. pending \o [i \in DOMAIN samples |-> [op |-> op, ok |-> samples[i].ok]] \in Records
      BY <1>1, <3>1 DEF Records
    <3>3. jsonl'.run = jsonl.run
      BY <1>6, <3>2, BufferKeeps DEF Summarise
    <3>4. QED
      BY <1>6, <3>3 DEF Summarise, BenchInv
  <2>3. SummaryHasItsRecords'
    BY <1>1, <2>2 DEF SummaryHasItsRecords
  <2>4. \/ phase' = "measuring" /\ op' = op + 1
        \/ phase' = "flushing" /\ op = 5
    BY <1>1, <1>6, FiveOps DEF Summarise
  <2>5. QED
    BY <1>1, <2>1, <2>2, <2>3, <2>4, FiveOps DEF BenchInv
<1>7. CASE CreateSummary
  <2>1. /\ jsonl' = [jsonl EXCEPT !.records = jsonl.records \o pending] /\ pending' = <<>>
        /\ md' = [run |-> run, rows |-> <<>>, whole |-> FALSE]
        /\ phase = "flushing" /\ phase' = "writing"
        /\ run' = run /\ op' = op /\ summary' = summary
    BY <1>7 DEF CreateSummary, FlushRecords
  <2>2. /\ jsonl'.run = run /\ Len(summary') = Len(Ops)
        /\ jsonl'.records = jsonl.records \o pending
    BY <1>1, <2>1 DEF BenchInv
  <2>3. jsonl'.records \o pending' = jsonl.records \o pending
    BY <1>1, <2>1, <2>2 DEF Records
  <2>4. BackedRows'
    BY <2>1, <2>3, Zenon DEF BackedRows, BenchInv
  <2>5. QED
    BY <1>1, <2>1, <2>2, <2>4 DEF BenchInv, SummaryHasItsRecords
<1>8. CASE WriteSummary
  <2>1. /\ phase = "writing" /\ phase' = "done" /\ run' = run /\ jsonl' = jsonl
        /\ md' = [md EXCEPT !.rows = summary, !.whole = TRUE]
    BY <1>8 DEF WriteSummary
  <2>2. pending = <<>> /\ BackedRows /\ Len(summary) = Len(Ops)
    BY <2>1 DEF BenchInv
  <2>3. jsonl.records \o pending = jsonl.records
    BY <1>1, <2>2 DEF Records
  <2>4. md'.rows = summary /\ md'.run = md.run
    BY <1>1, <2>1
  <2>5. \A i \in DOMAIN Ops : i <= Len(summary)
    BY <2>2, FiveOps
  <2>6. SummaryHasItsRecords'
    <3>1. \A i \in DOMAIN Ops :
              /\ Count(jsonl.records, i) = Iterations
              /\ CountOk(jsonl.records, i) = summary[i].ok
              /\ summary[i].n = Iterations
              /\ summary[i].ok + summary[i].errors = Iterations
      BY <2>2, <2>3, <2>5 DEF BackedRows
    <3>2. QED
      BY <2>1, <2>2, <2>4, <3>1 DEF SummaryHasItsRecords
  <2>7. QED
    BY <2>1, <2>4, <2>6 DEF BenchInv
<1>9. CASE Stop
  <2>1. /\ phase' = "stopped" /\ run' = run /\ summary' = summary /\ op' = op
        /\ phase \in {"seeding", "measuring", "flushing", "writing"}
        /\ Buffered(pending)
    BY <1>9 DEF Stop, BenchTypeOK
  <2>2. md'.run = md.run /\ md'.whole = md.whole /\ (phase # "writing" => md' = md)
    BY <1>1, <1>9 DEF Stop
  <2>3. jsonl'.run = jsonl.run /\ (pending = <<>> => jsonl' = jsonl)
    BY <1>1, <2>1, BufferKeeps
  <2>4. SummaryHasItsRecords'
    <3>1. CASE phase = "seeding"
      BY <2>2, <2>3, <3>1 DEF BenchInv, SummaryHasItsRecords
    <3>2. CASE phase \in {"measuring", "flushing"}
      BY <1>1, <2>2, <2>3, <3>2 DEF BenchInv, SummaryHasItsRecords
    <3>3. CASE phase = "writing"
      BY <2>2, <3>3 DEF BenchInv, SummaryHasItsRecords
    <3>4. QED
      BY <2>1, <3>1, <3>2, <3>3
  <2>5. QED
    BY <2>1, <2>2, <2>3, <2>4 DEF BenchInv
<1>10. CASE UNCHANGED benchVars
  BY <1>10 DEF benchVars, BenchInv, BackedRows, SummaryHasItsRecords
<1>11. QED
  BY <1>2, <1>3, <1>4, <1>5, <1>6, <1>7, <1>8, <1>9, <1>10 DEF BenchNext

-----------------------------------------------------------------------------
(* Latencies.                                                              *)

\* The samples at or before the i-th one.
UpTo(s, i) == {j \in DOMAIN s : s[j] < s[i] \/ (s[j] = s[i] /\ j <= i)}

\* The ranks of the samples are the positions 1 .. Len(s), each of them once.
LEMMA RanksArePositions ==
    ASSUME NEW s \in Seq(Int)
    PROVE  /\ [i \in DOMAIN s |-> Rank(s, i)] \in Bijection(DOMAIN s, DOMAIN s)
           /\ \A i, j \in DOMAIN s : s[i] < s[j] => Rank(s, i) < Rank(s, j)
<1> DEFINE D == DOMAIN s
           rank == [i \in D |-> Rank(s, i)]
<1>1. D = 1 .. Len(s) /\ Len(s) \in Nat /\ \A i \in D : s[i] \in Int
  OBVIOUS
<1>2. IsFiniteSet(D) /\ Cardinality(D) = Len(s)
  BY <1>1, FS_Interval
<1>3. \A i \in D : /\ Rank(s, i) = Cardinality(UpTo(s, i)) /\ UpTo(s, i) \subseteq D
                   /\ i \in UpTo(s, i) /\ IsFiniteSet(UpTo(s, i))
  <2> TAKE i \in D
  <2>1. UpTo(s, i) \subseteq D /\ i \in UpTo(s, i)
    BY <1>1 DEF UpTo
  <2>2. Rank(s, i) = Cardinality(UpTo(s, i))
    BY DEF Rank, UpTo
  <2>3. QED
    BY <1>2, <2>1, <2>2, FS_Subset
<1>4. \A i, j \in D : s[i] < s[j] \/ (s[i] = s[j] /\ i < j) => Rank(s, i) < Rank(s, j)
  <2> SUFFICES ASSUME NEW i \in D, NEW j \in D, s[i] < s[j] \/ (s[i] = s[j] /\ i < j)
               PROVE  Rank(s, i) < Rank(s, j)
    OBVIOUS
  <2>1. UpTo(s, i) \subseteq UpTo(s, j) /\ j \notin UpTo(s, i)
    BY <1>1 DEF UpTo
  <2>2. /\ Cardinality(UpTo(s, i)) <= Cardinality(UpTo(s, j))
        /\ Cardinality(UpTo(s, i)) # Cardinality(UpTo(s, j))
    BY <1>3, <2>1, FS_Subset
  <2>3. Cardinality(UpTo(s, i)) \in Nat /\ Cardinality(UpTo(s, j)) \in Nat
    BY <1>3, FS_CardinalityType
  <2>4. QED
    BY <1>3, <2>2, <2>3
<1>5. rank \in [D -> D]
  <2> SUFFICES ASSUME NEW i \in D
               PROVE  Rank(s, i) \in D
    OBVIOUS
  <2>1. Cardinality(UpTo(s, i)) \in Nat /\ Cardinality(UpTo(s, i)) <= Len(s)
    BY <1>2, <1>3, FS_CardinalityType, FS_Subset
  <2>2. Cardinality(UpTo(s, i)) # 0
    BY <1>3, FS_EmptySet
  <2>3. QED
    BY <1>1, <1>3, <2>1, <2>2
<1>6. \A i, j \in D : rank[i] = rank[j] => i = j
  <2> SUFFICES ASSUME NEW i \in D, NEW j \in D, i # j
               PROVE  Rank(s, i) # Rank(s, j)
    OBVIOUS
  <2>1. Rank(s, i) \in Int /\ Rank(s, j) \in Int
    BY <1>1, <1>5
  <2>2. \/ s[i] < s[j] \/ (s[i] = s[j] /\ i < j)
        \/ s[j] < s[i] \/ (s[j] = s[i] /\ j < i)
    BY <1>1
  <2>3. QED
    BY <1>4, <2>1, <2>2
<1> HIDE DEF rank
<1>7. rank \in Injection(D, D)
  BY <1>5, <1>6, Fun_IsInj
<1>8. rank \in Surjection(D, D)
  BY <1>2, <1>7, FS_Injection
<1>9. QED
  BY <1>4, <1>7, <1>8 DEF rank, Bijection

Rising(t) == \A k, l \in DOMAIN t : k <= l => t[k] <= t[l]

\* Sorting permutes the samples into an order in which none is after a
\* longer one.
LEMMA AscendingSorts ==
    ASSUME NEW s \in Seq(Int)
    PROVE  /\ Ascending(s) \in Seq(Int) /\ Len(Ascending(s)) = Len(s)
           /\ \E p \in Bijection(DOMAIN s, DOMAIN s) :
                  \A k \in DOMAIN s : Ascending(s)[k] = s[p[k]]
           /\ Rising(Ascending(s))
<1> DEFINE D == DOMAIN s
           rank == [i \in D |-> Rank(s, i)]
           p == [k \in D |-> CHOOSE i \in D : Rank(s, i) = k]
<1>1. D = 1 .. Len(s) /\ Len(s) \in Nat /\ \A i \in D : s[i] \in Int
  OBVIOUS
<1>2. rank \in Bijection(D, D)
  BY RanksArePositions
<1>3. /\ rank \in [D -> D]
      /\ \A i, j \in D : rank[i] = rank[j] => i = j
      /\ \A k \in D : \E i \in D : rank[i] = k
  BY <1>2, Fun_BijectionProperties
<1>4. \A k \in D : p[k] \in D /\ Rank(s, p[k]) = k
  BY <1>3
<1>5. \A i \in D : Rank(s, i) \in D /\ p[Rank(s, i)] = i
  BY <1>3, <1>4
<1>6. p \in Bijection(D, D)
  <2>1. p \in [D -> D]
    BY <1>4
  <2>2. \A k, l \in D : p[k] = p[l] => k = l
    BY <1>4
  <2>3. \A i \in D : \E k \in D : p[k] = i
    BY <1>5
  <2> HIDE DEF p
  <2>4. QED
    BY <2>1, <2>2, <2>3, Fun_IsBij
<1>7. Ascending(s) = [k \in D |-> s[p[k]]]
  BY DEF Ascending
<1> HIDE DEF p, rank
<1>8. Ascending(s) \in [1 .. Len(s) -> Int]
  BY <1>1, <1>4, <1>7
<1>9. Ascending(s) \in Seq(Int) /\ Len(Ascending(s)) = Len(s)
  BY <1>1, <1>8
<1>10. ASSUME NEW k \in D, NEW l \in D, k <= l
       PROVE  s[p[k]] <= s[p[l]]
  <2>1. s[p[l]] < s[p[k]] => l < k
    BY <1>4, RanksArePositions
  <2>2. QED
    BY <1>1, <1>4, <1>10, <2>1
<1>11. Rising(Ascending(s))
  BY <1>1, <1>7, <1>10 DEF Rising
<1>12. QED
  BY <1>6, <1>7, <1>9, <1>11

LEMMA Multiples ==
    ASSUME NEW d \in Nat, NEW a \in Nat, NEW b \in Nat, a <= b
    PROVE  a * d \in Nat /\ b * d \in Nat /\ a * d <= b * d /\ d * a <= d * b
OBVIOUS

\* The two positions around x hundredths, and how far past the first x is.
Around(x, lo, hi, r) ==
    /\ lo = x \div 100 /\ hi = (x + 99) \div 100 /\ r = x % 100
    /\ x = 100 * lo + r
    /\ hi = IF r = 0 THEN lo ELSE lo + 1

LEMMA HundredthsOf ==
    ASSUME NEW n \in Nat, NEW x \in 0 .. 100 * n
    PROVE  \E lo \in 0 .. n, hi \in 0 .. n, r \in 0 .. 99 : Around(x, lo, hi, r)
<1> DEFINE lo == x \div 100  hi == (x + 99) \div 100  r == x % 100
<1>1. x \in Nat /\ x <= 100 * n
  OBVIOUS
<1>2. /\ lo \in Nat /\ hi \in Nat /\ r \in 0 .. 99
      /\ x = 100 * lo + r
      /\ hi = IF r = 0 THEN lo ELSE lo + 1
  BY <1>1
<1>3. lo <= n /\ hi <= n
  BY <1>1, <1>2
<1>4. Around(x, lo, hi, r)
  BY <1>2, Zenon DEF Around
<1>5. lo \in 0 .. n /\ hi \in 0 .. n
  BY <1>2, <1>3
<1> HIDE DEF lo, hi, r
<1>6. QED
  BY <1>2, <1>4, <1>5, Zenon

\* Between two neighbours, r hundredths of the way.
Between(t, lo, hi, r) == 100 * t[lo + 1] + (t[hi + 1] - t[lo + 1]) * r

LEMMA BetweenNeighbours ==
    ASSUME NEW t \in Seq(Int), Rising(t), NEW lo \in Nat, NEW hi \in Nat,
           lo <= hi, hi < Len(t), NEW r \in 0 .. 99
    PROVE  /\ t[lo + 1] \in Int /\ t[hi + 1] \in Int /\ Between(t, lo, hi, r) \in Int
           /\ 100 * t[lo + 1] <= Between(t, lo, hi, r)
           /\ Between(t, lo, hi, r) <= 100 * t[hi + 1]
           /\ \A q \in r .. 99 : Between(t, lo, hi, r) <= Between(t, lo, hi, q)
<1>1. lo + 1 \in DOMAIN t /\ hi + 1 \in DOMAIN t
  OBVIOUS
<1>2. PICK x \in Int, y \in Int : x = t[lo + 1] /\ y = t[hi + 1] /\ x <= y
  BY <1>1 DEF Rising
<1>3. PICK d \in Nat : d = y - x
  BY <1>2
<1>4. \A q \in 0 .. 99 : Between(t, lo, hi, q) = 100 * x + d * q
  BY <1>2, <1>3 DEF Between
<1>5. PICK u \in Nat : u = d * r /\ u <= d * 100
  BY Multiples
<1>6. d * 100 = 100 * y - 100 * x
  BY <1>3
<1>7. Between(t, lo, hi, r) = 100 * x + u
  BY <1>4, <1>5
<1>8. u <= 100 * y - 100 * x
  BY <1>5, <1>6
<1>9. ASSUME NEW q \in r .. 99
       PROVE  Between(t, lo, hi, r) <= Between(t, lo, hi, q)
  <2>1. PICK w \in Nat : w = d * q /\ u <= w
    BY <1>5, Multiples
  <2>2. q \in 0 .. 99
    OBVIOUS
  <2>3. Between(t, lo, hi, q) = 100 * x + w
    BY <1>4, <2>1, <2>2, Zenon
  <2>4. QED
    BY <1>7, <2>1, <2>3
<1>10. PICK c \in Int : c = Between(t, lo, hi, r) /\ 100 * x <= c /\ c <= 100 * y
  BY <1>7, <1>8
<1>11. QED
  BY <1>2, <1>9, <1>10, Zenon

LEMMA BetweenAtStart ==
    ASSUME NEW t \in Seq(Int), NEW lo \in Nat, NEW hi \in Nat, lo < Len(t), hi < Len(t)
    PROVE  Between(t, lo, hi, 0) = 100 * t[lo + 1]
<1>1. t[lo + 1] \in Int /\ t[hi + 1] \in Int
  OBVIOUS
<1>2. QED
  BY <1>1 DEF Between

LEMMA Squeeze ==
    ASSUME NEW x \in Int, NEW y \in Int, NEW p \in Int, NEW q \in Int,
           x <= 100 * p, p <= q, 100 * q <= y
    PROVE  x <= y
OBVIOUS

\* The percentiles of sorted times do not fall.
LEMMA PercentilesRise ==
    ASSUME NEW t \in Seq(Int), Len(t) >= 1, Rising(t),
           NEW a \in 0 .. 100, NEW b \in 0 .. 100, a <= b
    PROVE  Percentile(t, a) <= Percentile(t, b)
<1>1. PICK n \in Nat : n = Len(t) - 1
  OBVIOUS
<1>2. n * a \in Nat /\ n * b \in Nat /\ n * a <= n * b /\ n * b <= n * 100
  BY Multiples
<1>3. PICK k \in 0 .. 100 * n, l \in 0 .. 100 * n : k = n * a /\ l = n * b /\ k <= l
  BY <1>2
<1>4. PICK lo \in 0 .. n, hi \in 0 .. n, r \in 0 .. 99 : Around(k, lo, hi, r)
  BY HundredthsOf, Zenon
<1>5. PICK lo2 \in 0 .. n, hi2 \in 0 .. n, r2 \in 0 .. 99 : Around(l, lo2, hi2, r2)
  BY HundredthsOf, Zenon
<1>6. /\ Percentile(t, a) = Between(t, lo, hi, r)
      /\ Percentile(t, b) = Between(t, lo2, hi2, r2)
  BY <1>1, <1>3, <1>4, <1>5, Zenon DEF Percentile, Between, Around
<1>7. k <= l /\ k = 100 * lo + r /\ l = 100 * lo2 + r2
  BY <1>3, <1>4, <1>5, Zenon DEF Around
<1>8. /\ hi = IF r = 0 THEN lo ELSE lo + 1
      /\ hi2 = IF r2 = 0 THEN lo2 ELSE lo2 + 1
  BY <1>4, <1>5, Zenon DEF Around
<1>9. /\ lo \in Nat /\ hi \in Nat /\ lo <= hi /\ hi < Len(t)
      /\ lo2 \in Nat /\ hi2 \in Nat /\ lo2 <= hi2 /\ hi2 < Len(t)
  BY <1>1, <1>8
<1>10. CASE lo < lo2
  <2>1. hi <= lo2
    BY <1>8, <1>10
  <2>2. t[hi + 1] \in Int /\ t[lo2 + 1] \in Int /\ t[hi + 1] <= t[lo2 + 1]
    BY <1>9, <2>1 DEF Rising
  <2>3. /\ Between(t, lo, hi, r) \in Int /\ Between(t, lo2, hi2, r2) \in Int
        /\ Between(t, lo, hi, r) <= 100 * t[hi + 1]
        /\ 100 * t[lo2 + 1] <= Between(t, lo2, hi2, r2)
    BY <1>9, BetweenNeighbours, Zenon
  <2>4. Between(t, lo, hi, r) <= Between(t, lo2, hi2, r2)
    BY <2>2, <2>3, Squeeze, Zenon
  <2>5. QED
    BY <1>6, <2>4, Zenon
<1>11. CASE lo = lo2
  <2>1. r <= r2
    BY <1>7, <1>11
  <2>2. CASE r = 0
    <3>1. lo < Len(t)
      BY <1>9
    <3>2. Between(t, lo, hi, r) = 100 * t[lo + 1]
      BY <1>9, <2>2, <3>1, BetweenAtStart, Zenon
    <3>3. 100 * t[lo2 + 1] <= Between(t, lo2, hi2, r2)
      BY <1>9, BetweenNeighbours, Zenon
    <3>4. QED
      BY <1>6, <1>11, <3>2, <3>3, Zenon
  <2>3. CASE r # 0
    <3>1. hi = hi2 /\ r2 \in r .. 99
      BY <1>8, <1>11, <2>1, <2>3
    <3>2. Between(t, lo, hi, r) <= Between(t, lo, hi, r2)
      BY <1>9, <3>1, BetweenNeighbours, Zenon
    <3>3. QED
      BY <1>6, <1>11, <3>1, <3>2, Zenon
  <2>4. QED
    BY <2>2, <2>3
<1>12. lo <= lo2
  BY <1>7
<1>13. QED
  BY <1>10, <1>11, <1>12

LEMMA LatenciesOfSamples ==
    ASSUME NEW s \in Seq([ns : Times, ok : BOOLEAN]), Len(s) >= 1
    PROVE  LET l == Latencies(s)
           IN  /\ l.min <= l.p50 /\ l.p50 <= l.p95
               /\ l.p95 <= l.p99 /\ l.p99 <= l.max
<1> DEFINE times == [i \in DOMAIN s |-> s[i].ns]
           t     == Ascending(times)
<1>1. times \in Seq(Int) /\ Len(times) = Len(s) /\ Len(s) \in Nat
  <2>1. DOMAIN s = 1 .. Len(s) /\ Len(s) \in Nat
    OBVIOUS
  <2>2. \A i \in DOMAIN s : s[i].ns \in Int
    <3> DEFINE S == [ns : Times, ok : BOOLEAN]
    <3>9. s \in Seq(S)
      OBVIOUS
    <3> HIDE DEF S
    <3>1. \A i \in DOMAIN s : s[i] \in S
      BY <3>9
    <3>2. \A i \in DOMAIN s : s[i].ns \in Times
      BY <3>1, Zenon DEF S
    <3>3. Times \subseteq Int
      BY BenchAssumption
    <3>4. QED
      BY <3>2, <3>3, Zenon
  <2>3. QED
    BY <2>1, <2>2
<1> HIDE DEF times
<1>2. /\ t \in Seq(Int) /\ Len(t) = Len(s)
      /\ Rising(t)
  BY <1>1, AscendingSorts
<1>3. Latencies(s) = [min |-> 100 * t[1], max |-> 100 * t[Len(t)],
                      p50 |-> Percentile(t, 50), p95 |-> Percentile(t, 95),
                      p99 |-> Percentile(t, 99)]
  BY DEF Latencies, times
<1> HIDE DEF t
<1>4. Percentile(t, 0) = 100 * t[1]
  BY <1>1, <1>2 DEF Percentile
<1>5. Percentile(t, 100) = 100 * t[Len(t)]
  <2>1. (Len(t) - 1) * 100 = 100 * (Len(t) - 1) /\ Len(t) - 1 \in Nat
    BY <1>1, <1>2
  <2> DEFINE n == Len(t) - 1
  <2>2. (100 * n) \div 100 = n /\ (100 * n + 99) \div 100 = n /\ (100 * n) % 100 = 0
    BY <2>1
  <2>3. t[n + 1] \in Int /\ n + 1 = Len(t)
    BY <1>1, <1>2
  <2>4. QED
    BY <2>1, <2>2, <2>3 DEF Percentile
<1>6. \A a, b \in 0 .. 100 : a <= b => Percentile(t, a) <= Percentile(t, b)
  BY <1>1, <1>2, PercentilesRise
<1>7. /\ Percentile(t, 0) <= Percentile(t, 50) /\ Percentile(t, 50) <= Percentile(t, 95)
      /\ Percentile(t, 95) <= Percentile(t, 99) /\ Percentile(t, 99) <= Percentile(t, 100)
  BY <1>6
<1>8. QED
  BY <1>3, <1>4, <1>5, <1>7

LEMMA LatenciesInit == BenchInit => LatenciesAreOrdered
BY DEF BenchInit, LatenciesAreOrdered

LEMMA LatenciesNext ==
    BenchTypeOK /\ LatenciesAreOrdered /\ [BenchNext]_benchVars => LatenciesAreOrdered'
<1> SUFFICES ASSUME BenchTypeOK, LatenciesAreOrdered, [BenchNext]_benchVars
             PROVE  LatenciesAreOrdered'
  OBVIOUS
<1>1. CASE Summarise
  <2>1. samples \in Seq([ns : Times, ok : BOOLEAN]) /\ Len(samples) >= 1
    BY <1>1, BenchAssumption DEF Summarise, BenchTypeOK
  <2>2. stats' = Latencies(samples)
    BY <1>1 DEF Summarise
  <2>3. QED
    BY <2>1, <2>2, LatenciesOfSamples, Zenon DEF LatenciesAreOrdered
<1>2. CASE Start
  BY <1>2 DEF Start, LatenciesAreOrdered
<1>3. CASE UNCHANGED stats
  BY <1>3 DEF LatenciesAreOrdered
<1>4. QED
  BY <1>1, <1>2, <1>3
     DEF BenchNext, benchVars, Seed, CreateRecords, Call, CreateSummary, WriteSummary, Stop

-----------------------------------------------------------------------------

\* No operation is measured more often than asked, and every row of the
\* summary and every record is well formed.
THEOREM BenchTypeCorrect == BenchSpec => []BenchTypeOK
BY BenchTypeInit, BenchTypeNext, PTL DEF BenchSpec

\* What the reads are measured on does not depend on the run.
THEOREM ReadsAreOnTheSeed == BenchSpec => []ReadsSeeTheSeed
<1>1. BenchSpec => []BenchTypeOK
  BY BenchTypeInit, BenchTypeNext, PTL DEF BenchSpec
<1>2. BenchInit => OnSeed /\ (phase = "seeding" => op = 1)
  BY DEF BenchInit, OnSeed
<1>3. BenchSpec => [](OnSeed /\ (phase = "seeding" => op = 1))
  BY <1>1, <1>2, OnSeedNext, PTL DEF BenchSpec
<1>4. BenchTypeOK /\ OnSeed => ReadsSeeTheSeed
  BY FiveOps DEF OnSeed, ReadsSeeTheSeed, BenchTypeOK
<1>5. QED
  BY <1>1, <1>3, <1>4, PTL

\* benchmarks.md is whole only while its rows count what the file of records
\* holds, whichever run stopped where and whatever its buffer lost.
THEOREM SummariesAreBacked == BenchSpec => []SummaryHasItsRecords
<1>1. BenchSpec => []BenchTypeOK
  BY BenchTypeInit, BenchTypeNext, PTL DEF BenchSpec
<1>2. BenchSpec => []BenchInv
  BY <1>1, BenchInvInit, BenchInvNext, PTL DEF BenchSpec
<1>3. BenchInv => SummaryHasItsRecords
  BY DEF BenchInv
<1>4. QED
  BY <1>2, <1>3, PTL

\* Sorting and interpolation put the latencies of every row in order, for
\* any samples.
THEOREM LatenciesInOrder == BenchSpec => []LatenciesAreOrdered
<1>1. BenchSpec => []BenchTypeOK
  BY BenchTypeInit, BenchTypeNext, PTL DEF BenchSpec
<1>2. QED
  BY <1>1, LatenciesInit, LatenciesNext, PTL DEF BenchSpec

=============================================================================
