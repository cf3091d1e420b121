---------------------------- MODULE AnalyzeResults ----------------------------
(***************************************************************************)
(* scripts/analyze_results.py: the timeline-JSON adapter analyze_file, the *)
(* loop of main over the stats_*.json files glob() finds (each file        *)
(* analysed inside try/except), and the ranking of the results by         *)
(* heap_ratio (best = min, worst = max, improvement = worst / best).       *)
(*                                                                         *)
(* A file's JSON content is abstracted to: Falsy (null, [], {}: "if not    *)
(* stats: return None"), Malformed (invalid JSON or the pre-reduced        *)
(* {"summary": ...} object, on which analyze_file raises), or a non-empty   *)
(* list of samples.  A sample keeps heap_alloc and message_bytes, the      *)
(* fields the ranking depends on, and whether it has every key analyze_file*)
(* reads (a missing key raises KeyError).  glob() returns the files in an  *)
(* order the filesystem chooses: the loop visits them in any order.        *)
(***************************************************************************)
EXTENDS Integers, Sequences, SequencesExt, FiniteSets

CONSTANTS
    Files,      \* the stats_*.json files that may exist
    Contents,   \* the contents a file may have
    Falsy,      \* JSON null, [] or {}
    Malformed   \* content on which json.load or analyze_file raises

Sample == [heap_alloc : Nat, message_bytes : Nat, complete : BOOLEAN]

ASSUME ContentsAssumption ==
    /\ IsFiniteSet(Files)
    /\ Falsy /= Malformed
    /\ Contents \subseteq {Falsy, Malformed} \cup (Seq(Sample) \ {<<>>})

\* An exact rational standing for a float quotient, compared exactly.
Q(n, d) == [num |-> n, den |-> d]
LeqQ(a, b) == a.num * b.den <= b.num * a.den

VARIABLES
    found,      \* the files glob('stats_*.json') returned
    content,    \* content[f]: what json.load reads from f
    pending,    \* files the for loop has not visited yet
    results,    \* the list results, in the order the loop appended
    pc,         \* "start", "loop", "report" or "done"
    outcome,    \* "running", "ok", "no_data" or "crashed" (ZeroDivisionError)
    ranking     \* <<>> or <<best, worst>>: indices into results

vars == <<found, content, pending, results, pc, outcome, ranking>>

(***************************************************************************)
(* analyze_file on a list of samples that all have their keys: the peak    *)
(* heap, the final message_bytes, and heap_ratio = max_heap /              *)
(* message_bytes, or 0 when message_bytes is 0.                            *)
(***************************************************************************)
MaxHeap(stats) == Max({stats[k].heap_alloc : k \in DOMAIN stats})
AnalyzeFile(f, stats) ==
    LET mb == stats[Len(stats)].message_bytes
    IN  [file          |-> f,
         max_heap      |-> MaxHeap(stats),
         message_bytes |-> mb,
         heap_ratio    |-> IF mb > 0 THEN Q(MaxHeap(stats), mb) ELSE Q(0, 1)]

\* The content makes analyze_file raise (caught and printed by main).
Raises(c) ==
    \/ c = Malformed
    \/ c /= Falsy /\ \E k \in DOMAIN c : ~c[k].complete

\* The content yields a result that main appends.
Usable(c) == c \notin {Falsy, Malformed} /\ ~Raises(c)

(***************************************************************************)
(* min(results, key=heap_ratio) and max(...): the first result, in list    *)
(* order, whose ratio is least (resp. greatest).                           *)
(***************************************************************************)
FirstMin(rs) ==
    CHOOSE j \in 1..Len(rs) :
        /\ \A k \in 1..Len(rs) : LeqQ(rs[j].heap_ratio, rs[k].heap_ratio)
        /\ \A k \in 1..(j - 1) : ~LeqQ(rs[k].heap_ratio, rs[j].heap_ratio)
\* Mutant: max(results, key=lambda x: x['max_heap']), the wrong key.
FirstMaxByHeap(rs) ==
    CHOOSE j \in 1..Len(rs) :
        /\ \A k \in 1..Len(rs) : rs[k].max_heap <= rs[j].max_heap
        /\ \A k \in 1..(j - 1) : rs[k].max_heap < rs[j].max_heap
FirstMax(rs) ==
    CHOOSE j \in 1..Len(rs) :
        /\ \A k \in 1..Len(rs) : LeqQ(rs[k].heap_ratio, rs[j].heap_ratio)
        /\ \A k \in 1..(j - 1) : ~LeqQ(rs[j].heap_ratio, rs[k].heap_ratio)

IsZero(q) == q.num = 0

Init ==
    /\ found \in SUBSET Files
    /\ content \in [Files -> Contents]
    /\ pending = {}
    /\ results = <<>>
    /\ pc = "start"
    /\ outcome = "running"
    /\ ranking = <<>>

\* "if not results_dir.exists()" and "if not stat_files": exit 1 (a missing
\* directory is a run where glob() finds nothing); else start the loop.
Start ==
    /\ pc = "start"
    /\ \/ /\ found = {}
          /\ pc' = "done"
          /\ outcome' = "no_data"
          /\ UNCHANGED pending
       \/ /\ found /= {}
          /\ pc' = "loop"
          /\ pending' = found
          /\ UNCHANGED outcome
    /\ UNCHANGED <<found, content, results, ranking>>

\* Mutant: the try/except wraps the whole for loop, so the first file that
\* raises ends the loop.
AnalyzeOneAbortOnError ==
    /\ pc = "loop"
    /\ \E f \in pending :
         /\ pending' = IF Raises(content[f]) THEN {} ELSE pending \ {f}
         /\ results' = IF Usable(content[f])
                         THEN Append(results, AnalyzeFile(f, content[f]))
                         ELSE results
    /\ UNCHANGED <<found, content, pc, outcome, ranking>>

\* One iteration: r = analyze_file(f); "if r: results.append(r)"; an
\* exception is printed and the loop goes on.
AnalyzeOne ==
    /\ pc = "loop"
    /\ \E f \in pending :
         /\ pending' = pending \ {f}
         /\ results' = IF Usable(content[f])
                         THEN Append(results, AnalyzeFile(f, content[f]))
                         ELSE results
    /\ UNCHANGED <<found, content, pc, outcome, ranking>>

\* After the loop: "if not results: print('No valid results'); sys.exit(1)".
EndLoop ==
    /\ pc = "loop"
    /\ pending = {}
    /\ \/ /\ results = <<>>
          /\ pc' = "done"
          /\ outcome' = "no_data"
       \/ /\ results /= <<>>
          /\ pc' = "report"
          /\ UNCHANGED outcome
    /\ UNCHANGED <<found, content, pending, results, ranking>>

(***************************************************************************)
(* The report: with more than one result, best and worst by heap_ratio and *)
(* worst / best, which raises ZeroDivisionError (uncaught: traceback, exit *)
(* status 1) when the best ratio is 0.                                     *)
(***************************************************************************)
Report ==
    /\ pc = "report"
    /\ pc' = "done"
    /\ \/ /\ Len(results) = 1
          /\ outcome' = "ok"
          /\ UNCHANGED ranking
       \/ /\ Len(results) > 1
          /\ ranking' = <<FirstMin(results), FirstMax(results)>>
          /\ outcome' = IF IsZero(results[FirstMin(results)].heap_ratio)
                          THEN "crashed" ELSE "ok"
    /\ UNCHANGED <<found, content, pending, results>>

Next == Start \/ AnalyzeOne \/ EndLoop \/ Report

Spec == Init /\ [][Next]_vars

-----------------------------------------------------------------------------
(***************************************************************************)
(* Properties.                                                             *)
(***************************************************************************)

ResultRec == [file : Files, max_heap : Nat, message_bytes : Nat,
              heap_ratio : [num : Nat, den : Nat \ {0}]]

TypeOK ==
    /\ found \subseteq Files
    /\ content \in [Files -> Contents]
    /\ pending \subseteq found
    /\ results \in Seq(ResultRec)
    /\ pc \in {"start", "loop", "report", "done"}
    /\ outcome \in {"running", "ok", "no_data", "crashed"}
    /\ ranking \in {<<>>} \cup ((1..Len(results)) \X (1..Len(results)))

\* The found files whose content analyze_file turns into a result.
UsableFiles == {f \in found : Usable(content[f])}

(***************************************************************************)
(* EmptyResult and MalformedRecord (spec section 7): whatever order glob() *)
(* returns the files in, once the loop is over the results are exactly one *)
(* analyze_file summary per usable file: falsy files are left out, a file   *)
(* that raises is skipped without stopping the loop, no file counts twice. *)
(***************************************************************************)
ResultsAreUsableFiles ==
    /\ \A j, k \in 1..Len(results) : results[j].file = results[k].file => j = k
    /\ \A j \in 1..Len(results) :
          /\ results[j].file \in UsableFiles \ pending
          /\ results[j] = AnalyzeFile(results[j].file, content[results[j].file])
    /\ pc \in {"report", "done"} =>
          {results[j].file : j \in 1..Len(results)} = UsableFiles

(***************************************************************************)
(* Ranking (spec section 4.4): the file reported as best has a heap_ratio  *)
(* no greater than that of any usable file, the worst one no smaller, so   *)
(* improvement = worst / best is at least 1, whatever the glob() order.    *)
(***************************************************************************)
RatioOf(f) == AnalyzeFile(f, content[f]).heap_ratio
RankingBracketsAllFiles ==
    ranking /= <<>> =>
        \A f \in UsableFiles :
            /\ LeqQ(results[ranking[1]].heap_ratio, RatioOf(f))
            /\ LeqQ(RatioOf(f), results[ranking[2]].heap_ratio)

(***************************************************************************)
(* Exit decision (spec section 7, NoDataAvailable): the step on which main *)
(* leaves the running state ("No valid results" / exit 1 after the loop,  *)
(* or the report) takes the no-data exit exactly when no found file has a  *)
(* usable content: a file that raises inside the loop's try/except never   *)
(* hides a usable file visited after it, whatever the glob() order.        *)
(***************************************************************************)
ExitStep == outcome = "running" /\ outcome' /= "running"
NoDataExitIffNoUsableFile ==
    [][ExitStep => (outcome' = "no_data" <=> UsableFiles = {})]_vars

(***************************************************************************)
(* Spec section 7: NoDataAvailable is the only condition for a non-zero    *)
(* exit; a degenerate comparison must be signalled, not crash.  Stated as  *)
(* the spec says it: when main ends with exit status 1, no found file      *)
(* yielded a usable result.                                                *)
(***************************************************************************)
OnlyNoDataExitsNonZero ==
    outcome \in {"no_data", "crashed"} => UsableFiles = {}

=============================================================================
