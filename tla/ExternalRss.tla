----------------------------- MODULE ExternalRss -----------------------------
(***************************************************************************)
(* The delimited-text adapter and its reduction: analyze_rss               *)
(* (scripts/analyze-external-rss.py) and its copy load_external_rss        *)
(* (scripts/compare-results.py).  Both read an external RSS log line by    *)
(* line, keep the third comma-separated field of every line that parses    *)
(* as an integer, and reduce the kept values to min / max / avg, or return *)
(* None when no value was kept.                                            *)
(*                                                                         *)
(* A line of the file is abstracted to what the loop body observes of it:  *)
(* whether it is blank after strip(), whether it starts with "timestamp",  *)
(* whether its first field is exactly "timestamp" (what the spec calls a   *)
(* header), how many comma-separated fields it has (3 stands for "3 or     *)
(* more"), and what int(parts[2]) gives: an integer or NotInt (ValueError).*)
(* Each iteration of the for loop is one step, so that the loop's          *)
(* skip-and-continue behaviour is visible to the properties.               *)
(***************************************************************************)
EXTENDS Integers, Sequences, SequencesExt, FiniteSets

CONSTANTS
    LineSet,    \* the abstract lines a log file may contain
    MaxLines,   \* bound on the number of lines of one file
    NotInt      \* outcome of int(parts[2]) raising ValueError

ASSUME LinesAssumption ==
    /\ MaxLines \in Nat
    /\ NotInt \notin Int
    /\ LineSet \subseteq [blank : BOOLEAN, startsTs : BOOLEAN, firstTs : BOOLEAN,
                          nfields : 1..3, third : Int \cup {NotInt}]

\* The two callers of the loop: analyze_rss opens the file unconditionally,
\* load_external_rss first checks os.path.exists.
Readers == {"analyze_rss", "load_external_rss"}

\* None, the "no data" result of both functions: a value with none of the
\* fields of a summary.
None == [absent |-> TRUE]

\* The fields of the dict analyze_rss returns.
SummaryFields == {"sample_count", "min_rss_kb", "max_rss_kb", "avg_rss_kb",
                  "min_rss_mb", "max_rss_mb", "avg_rss_mb"}

\* An exact rational, standing for the float that a true division yields.
Q(n, d) == [num |-> n, den |-> d]
LeqQ(a, b) == a.num * b.den <= b.num * a.den

VARIABLES
    reader,     \* which of the two functions runs
    exists,     \* whether the file exists
    lines,      \* the content of the file
    pc,         \* "open", "loop", "reduce", "done" or "crashed"
    i,          \* index of the next line the for loop reads
    rss_values, \* the list of kept values, in file order
    result      \* the returned value: None or a summary record

vars == <<reader, exists, lines, pc, i, rss_values, result>>

(***************************************************************************)
(* The loop body's filter: the line is kept when it is not blank, does not *)
(* start with "timestamp", has at least 3 fields and int(parts[2])         *)
(* succeeds.                                                               *)
(***************************************************************************)
IsSample(l) ==
    /\ ~l.blank
    /\ ~l.startsTs
    /\ l.nfields >= 3
    /\ l.third /= NotInt

\* min(), max(), sum() and len() over the list of kept values.
MinOf(s) == Min(ToSet(s))
MaxOf(s) == Max(ToSet(s))
SumOf(s) == FoldLeft(LAMBDA a, b : a + b, 0, s)

\* Mutant: min taken as the first kept value (rss_values[0]).
SummaryFirstIsMin(s) ==
    [sample_count |-> Len(s),
     min_rss_kb   |-> s[1],
     max_rss_kb   |-> MaxOf(s),
     avg_rss_kb   |-> Q(SumOf(s), Len(s)),
     min_rss_mb   |-> Q(s[1], 1024),
     max_rss_mb   |-> Q(MaxOf(s), 1024),
     avg_rss_mb   |-> Q(SumOf(s), Len(s) * 1024)]

(***************************************************************************)
(* The summary both functions return for a non-empty list (KB values, and  *)
(* the MB values divided by 1024; load_external_rss returns the MB part).  *)
(***************************************************************************)
Summary(s) ==
    [sample_count |-> Len(s),
     min_rss_kb   |-> MinOf(s),
     max_rss_kb   |-> MaxOf(s),
     avg_rss_kb   |-> Q(SumOf(s), Len(s)),
     min_rss_mb   |-> Q(MinOf(s), 1024),
     max_rss_mb   |-> Q(MaxOf(s), 1024),
     avg_rss_mb   |-> Q(SumOf(s), Len(s) * 1024)]

Init ==
    /\ reader \in Readers
    /\ exists \in BOOLEAN
    /\ lines \in BoundedSeq(LineSet, MaxLines)
    /\ pc = "open"
    /\ i = 1
    /\ rss_values = <<>>
    /\ result = None

\* os.path.exists (load_external_rss only) and open(): a missing file is
\* None for load_external_rss and an uncaught FileNotFoundError for
\* analyze_rss.
Open ==
    /\ pc = "open"
    /\ \/ /\ exists
          /\ pc' = "loop"
       \/ /\ ~exists
          /\ reader = "load_external_rss"
          /\ pc' = "done"
       \/ /\ ~exists
          /\ reader = "analyze_rss"
          /\ pc' = "crashed"
    /\ UNCHANGED <<reader, exists, lines, i, rss_values, result>>

\* One iteration of "for line in f" that appends int(parts[2]).
KeepSample ==
    /\ pc = "loop"
    /\ i <= Len(lines)
    /\ IsSample(lines[i])
    /\ rss_values' = Append(rss_values, lines[i].third)
    /\ i' = i + 1
    /\ UNCHANGED <<reader, exists, lines, pc, result>>

\* Mutant: "except ValueError: break" instead of continue.
SkipLineBreakOnError ==
    /\ pc = "loop"
    /\ i <= Len(lines)
    /\ ~IsSample(lines[i])
    /\ IF ~lines[i].blank /\ ~lines[i].startsTs /\ lines[i].nfields >= 3
         THEN /\ pc' = "reduce" /\ i' = i
         ELSE /\ pc' = pc /\ i' = i + 1
    /\ UNCHANGED <<reader, exists, lines, rss_values, result>>

\* One iteration that "continue"s: a blank or "timestamp..." line, fewer
\* than 3 fields, or a ValueError from int(parts[2]).
SkipLine ==
    /\ pc = "loop"
    /\ i <= Len(lines)
    /\ ~IsSample(lines[i])
    /\ i' = i + 1
    /\ UNCHANGED <<reader, exists, lines, pc, rss_values, result>>

\* The loop ends at end of file.
EndOfFile ==
    /\ pc = "loop"
    /\ i > Len(lines)
    /\ pc' = "reduce"
    /\ UNCHANGED <<reader, exists, lines, i, rss_values, result>>

\* Mutant: sample_count counts the lines read, not the values kept.
ReduceCountingLines ==
    /\ pc = "reduce"
    /\ result' = IF rss_values = <<>> THEN None
                  ELSE [Summary(rss_values) EXCEPT !.sample_count = i - 1]
    /\ pc' = "done"
    /\ UNCHANGED <<reader, exists, lines, i, rss_values>>

\* "if not rss_values: return None", else the summary.
Reduce ==
    /\ pc = "reduce"
    /\ result' = IF rss_values = <<>> THEN None ELSE Summary(rss_values)
    /\ pc' = "done"
    /\ UNCHANGED <<reader, exists, lines, i, rss_values>>

Next == Open \/ KeepSample \/ SkipLine \/ EndOfFile \/ Reduce

Spec == Init /\ [][Next]_vars

-----------------------------------------------------------------------------
(***************************************************************************)
(* Properties.                                                             *)
(***************************************************************************)

TypeOK ==
    /\ reader \in Readers
    /\ exists \in BOOLEAN
    /\ lines \in Seq(LineSet)
    /\ pc \in {"open", "loop", "reduce", "done", "crashed"}
    /\ i \in 1..(Len(lines) + 1)
    /\ rss_values \in Seq(Int)
    /\ \/ result = None
       \/ /\ DOMAIN result = SummaryFields
          /\ result.sample_count \in Nat \ {0}
          /\ result.min_rss_kb \in Int
          /\ result.max_rss_kb \in Int

\* Indices of the lines the loop body keeps.
SampleIndices == {k \in 1..Len(lines) : IsSample(lines[k])}

\* The list vals holds, in file order, the third fields of the lines ls at
\* the indices in S: an increasing map from the positions of vals onto S
\* gives the line of each value (what SelectSeq(ls, IsSample) gives).
ReadOff(ls, vals, S) ==
    \E idx \in [1..Len(vals) -> S] :
        /\ \A j, k \in 1..Len(vals) : j < k => idx[j] < idx[k]
        /\ \A k \in S : \E j \in 1..Len(vals) : idx[j] = k
        /\ \A j \in 1..Len(vals) : vals[j] = ls[idx[j]].third

(***************************************************************************)
(* Skip-and-continue (spec section 7, MalformedRecord): when the for loop  *)
(* of analyze_rss / load_external_rss is over, rss_values holds exactly    *)
(* the int(parts[2]) values of the valid lines of the whole file, one per  *)
(* line and in file order: a malformed line never stops the lines after it *)
(* being read.                                                             *)
(***************************************************************************)
SamplesFromValidLines ==
    (pc \in {"reduce", "done"} /\ exists) => ReadOff(lines, rss_values, SampleIndices)

(***************************************************************************)
(* EmptyResult (spec section 7): once analyze_rss / load_external_rss has  *)
(* returned for an existing file, the result is None exactly when no line  *)
(* of the file is a sample, and otherwise its sample_count is the number   *)
(* of sample lines of the file.                                            *)
(***************************************************************************)
EmptyResultIffNoSample ==
    (pc = "done" /\ exists) =>
        /\ result = None <=> SampleIndices = {}
        /\ result /= None => result.sample_count = Cardinality(SampleIndices)

\* The int(parts[2]) values of the sample lines of the file.
SampleValues == {lines[k].third : k \in SampleIndices}

(***************************************************************************)
(* Reduction, min and max (spec section 8, first property): the returned   *)
(* min_rss_kb and max_rss_kb are values of sample lines of the file, and   *)
(* bracket the value of every sample line.                                 *)
(***************************************************************************)
MinMaxBracketSamples ==
    result /= None =>
        /\ result.min_rss_kb \in SampleValues
        /\ result.max_rss_kb \in SampleValues
        /\ \A v \in SampleValues : result.min_rss_kb <= v /\ v <= result.max_rss_kb

(***************************************************************************)
(* Reduction (spec section 8, first property): the returned min and max    *)
(* are values of sample lines of the file, and in MB min <= avg <= max,    *)
(* the average being the exact mean sum / len.                             *)
(***************************************************************************)
MinAvgMaxOrdered ==
    /\ MinMaxBracketSamples
    /\ result /= None =>
          /\ LeqQ(result.min_rss_mb, result.avg_rss_mb)
          /\ LeqQ(result.avg_rss_mb, result.max_rss_mb)

(***************************************************************************)
(* The spec (section 3, ExternalSample) skips as a header only the line    *)
(* whose first field is literally "timestamp"; the code skips every line   *)
(* that starts with "timestamp" (line.startswith).  Stated as the spec     *)
(* says it: the returned sample_count counts every non-blank line whose   *)
(* first field is not "timestamp", with >= 3 fields and an integer third.  *)
(***************************************************************************)
SpecSampleIndices ==
    {k \in 1..Len(lines) : /\ ~lines[k].blank
                           /\ ~lines[k].firstTs
                           /\ lines[k].nfields >= 3
                           /\ lines[k].third /= NotInt}
HeaderIsFirstFieldOnly ==
    (pc = "done" /\ exists) =>
        /\ result = None <=> SpecSampleIndices = {}
        /\ result /= None => result.sample_count = Cardinality(SpecSampleIndices)

(***************************************************************************)
(* ExternalSample (spec section 3): rss_kb is an integer >= 0.  Stated as  *)
(* the spec says it: every value analyze_rss / load_external_rss keeps     *)
(* from int(parts[2]) is non-negative.                                     *)
(***************************************************************************)
SamplesNonNegative ==
    \A k \in 1..Len(rss_values) : rss_values[k] >= 0

-----------------------------------------------------------------------------
(***************************************************************************)
(* The loop implements the contract of RssSummarySpec.  The script runs    *)
(* in one thread that always executes its next statement, so the loop is   *)
(* weakly fair.  Until the function returns, the abstract call is still    *)
(* running; KeepSample, SkipLine, EndOfFile and an Open that finds the     *)
(* file are stuttering steps of it, and Reduce or an Open that fails is    *)
(* its Return step.                                                        *)
(***************************************************************************)
FairSpec == Spec /\ WF_vars(Next)

Adapter == INSTANCE RssSummarySpec
               WITH status <- IF pc \in {"done", "crashed"} THEN pc ELSE "running"

(***************************************************************************)
(* Refinement: every behaviour of the line-by-line loop of analyze_rss /   *)
(* load_external_rss is a behaviour of the atomic contract, and, the       *)
(* contract being weakly fair, each call returns or raises.                *)
(***************************************************************************)
RssAdapter == Adapter!ASpec

=============================================================================
