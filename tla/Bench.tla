-------------------------------- MODULE Bench -------------------------------
(***************************************************************************)
(* examples/bench.rs: a database is seeded, each operation is measured a   *)
(* fixed number of times, its samples go to a file of records and their    *)
(* summary to benchmarks.md.  The benchmark may be stopped at any point,   *)
(* by an error of the file system or by its user, and started again.       *)
(*                                                                         *)
(* The twelve operations stand in five groups that treat the table alike.  *)
(* Times are integers, and percentiles are in hundredths of their unit.    *)
(***************************************************************************)
EXTENDS Integers, Sequences, FiniteSets

CONSTANTS Runs,        \* how often the benchmark is started
          Iterations,  \* how often an operation is measured
          Seeds,       \* the rows of the seeded table
          Times        \* the times that a call may take

ASSUME BenchAssumption ==
    /\ Runs \in Nat /\ Iterations \in Nat \ {0} /\ Seeds \in Nat \ {0}
    /\ Times \subseteq Nat

VARIABLES run,      \* the number of the run
          phase,    \* where main() is
          table,    \* rows of the table bench
          op,       \* the operation being measured
          samples,  \* run_op's samples of it
          summary,  \* rows_md
          stats,    \* the latencies of the last row of the summary
          pending,  \* records in the buffer
          jsonl,    \* the file of records, and the run that made it
          md        \* benchmarks.md, and the run that made it

benchVars == <<run, phase, table, op, samples, summary, stats, pending, jsonl, md>>

\* Mutant: the inserts are measured first.
InsertsFirst == <<"health", "insert", "select", "error", "unknown">>

Ops == <<"health", "select", "insert", "error", "unknown">>

\* The statuses below 400 or not, of the calls of a group.
Outcomes(name) ==
    CASE name = "health" -> {TRUE}
      [] name \in {"select", "insert"} -> BOOLEAN
      [] OTHER -> {FALSE}

OkIn(s) == Cardinality({i \in DOMAIN s : s[i].ok})

-----------------------------------------------------------------------------
(* Summaries.                                                              *)

\* Mutant: the latencies are left in the order of the calls.
AsMeasured(s) == s

\* How many samples are at or before the i-th one, in the order of a
\* stable sort.
Rank(s, i) == Cardinality({j \in DOMAIN s : s[j] < s[i] \/ (s[j] = s[i] /\ j <= i)})

Ascending(s) == [k \in DOMAIN s |-> s[CHOOSE i \in DOMAIN s : Rank(s, i) = k]]

\* percentile: linear between the two samples next to the rank.
Percentile(sorted, pct) ==
    LET k  == (Len(sorted) - 1) * pct
        lo == k \div 100
        hi == (k + 99) \div 100
    IN 100 * sorted[lo + 1] + (sorted[hi + 1] - sorted[lo + 1]) * (k % 100)

Latencies(s) ==
    LET sorted == Ascending([i \in DOMAIN s |-> s[i].ns])
    IN [min |-> 100 * sorted[1], max |-> 100 * sorted[Len(sorted)],
        p50 |-> Percentile(sorted, 50), p95 |-> Percentile(sorted, 95),
        p99 |-> Percentile(sorted, 99)]

Row(s) == [n |-> Len(s), ok |-> OkIn(s), errors |-> Len(s) - OkIn(s)]

-----------------------------------------------------------------------------
(* The program.                                                            *)

BenchInit ==
    /\ run = 0 /\ phase = "stopped" /\ table = 0 /\ op = 1
    /\ samples = <<>> /\ summary = <<>> /\ stats = <<>> /\ pending = <<>>
    /\ jsonl = [run |-> 0, records |-> <<>>]
    /\ md = [run |-> 0, rows |-> <<>>, whole |-> FALSE]

\* The database is named for the process, and a new one is empty.
Start ==
    /\ phase \in {"stopped", "done"}
    /\ run < Runs
    /\ run' = run + 1 /\ phase' = "seeding" /\ table' = 0 /\ op' = 1
    /\ samples' = <<>> /\ summary' = <<>> /\ stats' = <<>> /\ pending' = <<>>
    /\ UNCHANGED <<jsonl, md>>

\* seed: a batch.
Seed ==
    /\ phase = "seeding"
    /\ table < Seeds
    /\ table' = table + 1
    /\ UNCHANGED <<run, phase, op, samples, summary, stats, pending, jsonl, md>>

\* The warm-up, and File::create.
CreateRecords ==
    /\ phase = "seeding"
    /\ table = Seeds
    /\ phase' = "measuring"
    /\ jsonl' = [run |-> run, records |-> <<>>]
    /\ UNCHANGED <<run, table, op, samples, summary, stats, pending, md>>

\* Mutant: one call too many.
UpToIterations == Len(samples) <= Iterations

MoreCalls == Len(samples) < Iterations

\* run_op: a call, timed and awaited.
Call ==
    /\ phase = "measuring"
    /\ MoreCalls
    /\ \E ns \in Times, ok \in Outcomes(Ops[op]) :
           /\ samples' = Append(samples, [ns |-> ns, ok |-> ok])
           /\ table' = IF Ops[op] = "insert" /\ ok THEN table + 1 ELSE table
    /\ UNCHANGED <<run, phase, op, summary, stats, pending, jsonl, md>>

\* BufWriter: the buffer goes to the file when it is full.
Buffered(records) ==
    \E spilled \in {0, Len(records)} :
        /\ jsonl' = [jsonl EXCEPT !.records = @ \o SubSeq(records, 1, spilled)]
        /\ pending' = SubSeq(records, spilled + 1, Len(records))

\* The samples of an operation become records and a row.
Summarise ==
    /\ phase = "measuring"
    /\ Len(samples) = Iterations
    /\ Buffered(pending \o [i \in DOMAIN samples |-> [op |-> op, ok |-> samples[i].ok]])
    /\ summary' = Append(summary, Row(samples))
    /\ stats' = Latencies(samples)
    /\ samples' = <<>>
    /\ IF op < Len(Ops) THEN op' = op + 1 /\ UNCHANGED phase
                        ELSE phase' = "flushing" /\ UNCHANGED op
    /\ UNCHANGED <<run, table, md>>

\* Mutant: the records are left to the end of main().
LeftInBuffer == pending' = pending /\ jsonl' = jsonl

FlushRecords ==
    /\ pending' = <<>>
    /\ jsonl' = [jsonl EXCEPT !.records = @ \o pending]

\* The records are flushed before benchmarks.md is created.
CreateSummary ==
    /\ phase = "flushing"
    /\ FlushRecords
    /\ phase' = "writing"
    /\ md' = [run |-> run, rows |-> <<>>, whole |-> FALSE]
    /\ UNCHANGED <<run, table, op, samples, summary, stats>>

WriteSummary ==
    /\ phase = "writing"
    /\ md' = [md EXCEPT !.rows = summary, !.whole = TRUE]
    /\ phase' = "done"
    /\ UNCHANGED <<run, table, op, samples, summary, stats, pending, jsonl>>

\* An error or the user ends the run; what the buffer holds may be lost.
Stop ==
    /\ phase \notin {"stopped", "done"}
    /\ phase' = "stopped"
    /\ Buffered(pending)
    /\ \E k \in {0, Len(summary)} :
           md' = IF phase = "writing" THEN [md EXCEPT !.rows = SubSeq(summary, 1, k)] ELSE md
    /\ UNCHANGED <<run, table, op, samples, summary, stats>>

BenchNext == Start \/ Seed \/ CreateRecords \/ Call \/ Summarise
             \/ CreateSummary \/ WriteSummary \/ Stop

BenchSpec == BenchInit /\ [][BenchNext]_benchVars

-----------------------------------------------------------------------------
(* Properties.                                                             *)

BenchTypeOK ==
    /\ run \in 0 .. Runs
    /\ phase \in {"stopped", "seeding", "measuring", "flushing", "writing", "done"}
    /\ table \in Nat
    /\ op \in DOMAIN Ops
    /\ samples \in Seq([ns : Times, ok : BOOLEAN]) /\ Len(samples) <= Iterations
    /\ summary \in Seq([n : Nat, ok : Nat, errors : Nat])
    /\ pending \in Seq([op : DOMAIN Ops, ok : BOOLEAN])
    /\ jsonl \in [run : 0 .. Runs, records : Seq([op : DOMAIN Ops, ok : BOOLEAN])]
    /\ md \in [run : 0 .. Runs, rows : Seq([n : Nat, ok : Nat, errors : Nat]), whole : BOOLEAN]

\* How many records of an operation there are, and how many with a status
\* below 400.
Count(records, i) == Cardinality({k \in DOMAIN records : records[k].op = i})
CountOk(records, i) == Cardinality({k \in DOMAIN records : records[k].op = i /\ records[k].ok})

\* A whole summary stands beside the records that it is made of, all of
\* them, until a later run begins its own: its row of an operation counts
\* what the file has of it (bench.rs:253-255, 260).
SummaryHasItsRecords ==
    md.whole /\ jsonl.run = md.run =>
        /\ Len(md.rows) = Len(Ops)
        /\ \A i \in DOMAIN Ops :
               /\ md.rows[i].n = Count(jsonl.records, i)
               /\ md.rows[i].n = Iterations
               /\ md.rows[i].ok = CountOk(jsonl.records, i)
               /\ md.rows[i].ok + md.rows[i].errors = md.rows[i].n

\* Reads are measured on the seeded table and nothing else (bench.rs:270-271).
ReadsSeeTheSeed ==
    phase = "measuring" /\ Ops[op] = "select" => table = Seeds

\* The latencies of a row are in the order of their names (bench.rs:89-103).
LatenciesAreOrdered ==
    stats # <<>> => /\ stats.min <= stats.p50 /\ stats.p50 <= stats.p95
                    /\ stats.p95 <= stats.p99 /\ stats.p99 <= stats.max

=============================================================================
