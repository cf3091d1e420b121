---------------------------- MODULE CompareReport ----------------------------
(***************************************************************************)
(* scripts/compare-results.py and scripts/compare-queue.py: main loads a   *)
(* baseline and a variant stats file (no-release / with-release, resp.     *)
(* queue-1000 / queue-100) with load_stats, compare-results also the two   *)
(* external RSS files with load_external_rss; it exits 1 when neither      *)
(* stats file has data, else print_comparison prints the tables and, when  *)
(* both stats files have data, the savings and the memory amplification.   *)
(*                                                                         *)
(* A stats file is abstracted to: Missing (os.path.exists is false),       *)
(* Falsy (null, {} or []), Malformed (json.load raises), NoSummary (a      *)
(* truthy value without a "summary" object, e.g. the flat timeline list    *)
(* analyze_results.py reads: s['summary'] raises), or the "summary" record *)
(* itself, reduced to the fields the savings and ratios read.  The         *)
(* external RSS result is what load_external_rss returns (see module       *)
(* ExternalRss): None or its max in KB.  Tables and wording are printing   *)
(* only and are left out; the division by 1024 * 1024 is kept where it     *)
(* changes a reported number.                                              *)
(***************************************************************************)
EXTENDS Integers

CONSTANTS
    Stats,      \* the "summary" records a stats file may hold
    ExtMax,     \* the max_rss_kb values an external RSS file may give
    Missing, Falsy, Malformed, NoSummary

Summary == [max_heap_alloc : Nat, avg_heap_alloc : Nat, max_rss : Nat,
            message_bytes : Nat]

None == [absent |-> TRUE]

ASSUME StatsAssumption ==
    /\ Stats \subseteq Summary
    /\ ExtMax \subseteq Nat
    /\ Missing /= Falsy /\ Missing /= Malformed /\ Missing /= NoSummary
    /\ Falsy /= Malformed /\ Falsy /= NoSummary /\ Malformed /= NoSummary

Artifacts == {Missing, Falsy, Malformed, NoSummary} \cup Stats

Scripts == {"compare-results", "compare-queue"}

\* An exact rational standing for a float quotient.
Q(n, d) == [num |-> n, den |-> d]
MiB == 1024 * 1024

VARIABLES
    script,     \* which of the two scripts runs
    base,       \* content of the baseline stats file
    variant,    \* content of the variant stats file
    extBase,    \* load_external_rss of the baseline external file
    extVariant, \* load_external_rss of the variant external file
    pc,         \* "load", "check", "print" or "done"
    outcome,    \* "running", "ok", "no_data" or "crashed"
    report      \* the numbers print_comparison derives, or None

vars == <<script, base, variant, extBase, extVariant, pc, outcome, report>>

\* load_stats: None for a missing file, else what json.load returns.
Truthy(a) == a \notin {Missing, Falsy}

\* The savings block of print_comparison for one metric (values in bytes):
\* saved = base/2^20 - variant/2^20 in MB, pct = saved / base * 100, or 0.
\* Mutant: the percentage taken against the variant.
SavingsAgainstVariant(b, v) ==
    [saved |-> Q(b - v, MiB),
     pct   |-> IF v > 0 THEN Q((b - v) * 100, v) ELSE Q(0, 1)]
Savings(b, v) ==
    [saved |-> Q(b - v, MiB),
     pct   |-> IF b > 0 THEN Q((b - v) * 100, b) ELSE Q(0, 1)]

\* The external block: the max values are already in MB (kb / 1024).
ExtSavings(b, v) ==
    [saved |-> Q(b - v, 1024),
     pct   |-> IF b > 0 THEN Q((b - v) * 100, b) ELSE Q(0, 1)]

SavedMetrics == {"max_heap_alloc", "avg_heap_alloc", "max_rss"}

\* Memory amplification: both variants' peaks over data_bytes, which is the
\* baseline's message_bytes; the block is skipped when that is 0.
Amplification(b, v) ==
    LET d == b.message_bytes
    IN  IF d > 0
          THEN [heap |-> <<Q(b.max_heap_alloc, d), Q(v.max_heap_alloc, d)>>,
                rss  |-> <<Q(b.max_rss, d), Q(v.max_rss, d)>>]
          ELSE None

\* The numbers print_comparison reports when both stats files have data.
Comparison(b, v, eb, ev) ==
    [savings  |-> [m \in SavedMetrics |-> Savings(b[m], v[m])],
     external |-> IF eb /= None /\ ev /= None
                    THEN ExtSavings(eb.max, ev.max) ELSE None,
     amplification |-> Amplification(b, v)]

Init ==
    /\ script \in Scripts
    /\ base \in Artifacts
    /\ variant \in Artifacts
    /\ extBase \in {None} \cup
                   (IF script = "compare-results" THEN [max : ExtMax] ELSE {})
    /\ extVariant \in {None} \cup
                   (IF script = "compare-results" THEN [max : ExtMax] ELSE {})
    /\ pc = "load"
    /\ outcome = "running"
    /\ report = None

\* main's load_stats calls: json.load raising on a malformed file is not
\* caught anywhere.
Load ==
    /\ pc = "load"
    /\ \/ /\ Malformed \in {base, variant}
          /\ pc' = "done"
          /\ outcome' = "crashed"
       \/ /\ Malformed \notin {base, variant}
          /\ pc' = "check"
          /\ UNCHANGED outcome
    /\ UNCHANGED <<script, base, variant, extBase, extVariant, report>>

\* "if not no_release and not with_release: ... sys.exit(1)".
\* Mutant: "or" in place of "and".
CheckEitherMissing ==
    /\ pc = "check"
    /\ \/ /\ ~Truthy(base) \/ ~Truthy(variant)
          /\ pc' = "done"
          /\ outcome' = "no_data"
       \/ /\ Truthy(base) /\ Truthy(variant)
          /\ pc' = "print"
          /\ UNCHANGED outcome
    /\ UNCHANGED <<script, base, variant, extBase, extVariant, report>>
Check ==
    /\ pc = "check"
    /\ \/ /\ ~Truthy(base) /\ ~Truthy(variant)
          /\ pc' = "done"
          /\ outcome' = "no_data"
       \/ /\ Truthy(base) \/ Truthy(variant)
          /\ pc' = "print"
          /\ UNCHANGED outcome
    /\ UNCHANGED <<script, base, variant, extBase, extVariant, report>>

(***************************************************************************)
(* print_comparison: every truthy stats value is indexed with ['summary']  *)
(* by the first table, so a NoSummary value raises there; otherwise the    *)
(* savings and amplification are derived when both files have data.       *)
(***************************************************************************)
PrintComparison ==
    /\ pc = "print"
    /\ pc' = "done"
    /\ \/ /\ NoSummary \in {base, variant}
          /\ outcome' = "crashed"
          /\ UNCHANGED report
       \/ /\ NoSummary \notin {base, variant}
          /\ outcome' = "ok"
          /\ report' = IF Truthy(base) /\ Truthy(variant)
                         THEN Comparison(base, variant, extBase, extVariant)
                         ELSE None
    /\ UNCHANGED <<script, base, variant, extBase, extVariant>>

Next == Load \/ Check \/ PrintComparison

Spec == Init /\ [][Next]_vars

-----------------------------------------------------------------------------
(***************************************************************************)
(* Properties.                                                             *)
(***************************************************************************)

\* Equality of two exact quotients.
EqQ(a, b) == a.num * b.den = b.num * a.den

TypeOK ==
    /\ script \in Scripts
    /\ base \in Artifacts /\ variant \in Artifacts
    /\ extBase \in {None} \cup [max : ExtMax]
    /\ extVariant \in {None} \cup [max : ExtMax]
    /\ pc \in {"load", "check", "print", "done"}
    /\ outcome \in {"running", "ok", "no_data", "crashed"}
    /\ report = None \/ DOMAIN report = {"savings", "external", "amplification"}

(***************************************************************************)
(* MissingArtifact (spec section 7): a missing or empty stats file only    *)
(* drops that run; main exits with "No stats files found" only when        *)
(* neither the baseline nor the variant file has data, and the savings    *)
(* are reported exactly when both have.                                    *)
(***************************************************************************)
MissingArtifactNotFatal ==
    pc = "done" /\ outcome /= "crashed" =>
        /\ (outcome = "no_data") <=> (~Truthy(base) /\ ~Truthy(variant))
        /\ (report /= None) <=> (Truthy(base) /\ Truthy(variant))

(***************************************************************************)
(* savings(baseline, variant) (spec section 4.3), for the max heap, the    *)
(* average heap and the max RSS: the saved amount is baseline - variant in *)
(* MB and the percentage is that amount over the baseline, so that taking  *)
(* pct % off the baseline gives the variant; 0 % for a zero baseline, and  *)
(* no saving at all when the two runs are equal.                           *)
(***************************************************************************)
SavingsRelativeToBaseline ==
    report /= None =>
        \A m \in SavedMetrics :
            LET s == report.savings[m]
                b == base[m]
                v == variant[m]
            IN  /\ EqQ(s.saved, Q(b - v, MiB))
                /\ b > 0 => b * 100 * s.pct.den - b * s.pct.num = v * 100 * s.pct.den
                /\ b = 0 => s.pct.num = 0
                /\ b = v => s.saved.num = 0 /\ s.pct.num = 0

(***************************************************************************)
(* ComparisonReport (spec section 3): the amplification of each run is its *)
(* own peak over its own message_bytes, 0 when that is 0.  Checked for the *)
(* variant's heap ratio as print_comparison computes it.                   *)
(***************************************************************************)
AmplificationPerRun ==
    report /= None /\ report.amplification /= None =>
        EqQ(report.amplification.heap[2],
            IF variant.message_bytes > 0
              THEN Q(variant.max_heap_alloc, variant.message_bytes)
              ELSE Q(0, 1))

(***************************************************************************)
(* Format adapters and error policy (spec sections 4.1 and 7): reading an  *)
(* artifact never raises past the adapter; a file that cannot be used is   *)
(* no data, and no run of main ends in an uncaught exception.              *)
(***************************************************************************)
NoUncaughtException == outcome /= "crashed"

=============================================================================
