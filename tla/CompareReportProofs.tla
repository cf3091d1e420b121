-------------------------- MODULE CompareReportProofs --------------------------
(***************************************************************************)
(* Proofs about compare-results.py and compare-queue.py: for every set of  *)
(* summaries and external values, main exits 1 only without stats data,    *)
(* and the savings it reports are taken against the baseline.              *)
(***************************************************************************)
EXTENDS CompareReport, TLAPS

(***************************************************************************)
(* The inductive invariant: report is None until print_comparison ran, and *)
(* then either None or the comparison of two summary records; each exit    *)
(* status records the condition on the stats files that led to it.         *)
(***************************************************************************)
IInv ==
    /\ base \in Artifacts /\ variant \in Artifacts
    /\ pc \in {"load", "check", "print", "done"}
    /\ outcome \in {"running", "ok", "no_data", "crashed"}
    /\ pc \in {"check", "print"} => Malformed \notin {base, variant}
    /\ (outcome = "running") <=> (pc /= "done")
    /\ pc /= "done" => report = None
    /\ pc = "print" => Truthy(base) \/ Truthy(variant)
    /\ outcome = "no_data" => ~Truthy(base) /\ ~Truthy(variant) /\ report = None
    /\ outcome = "ok" =>
          /\ Truthy(base) \/ Truthy(variant)
          /\ (report /= None) <=> (Truthy(base) /\ Truthy(variant))
    /\ report /= None =>
          /\ base \in Stats /\ variant \in Stats
          /\ report = Comparison(base, variant, extBase, extVariant)

\* The comparison record is never the None value.
LEMMA ComparisonNotNone ==
    ASSUME NEW b, NEW v, NEW eb, NEW ev
    PROVE  Comparison(b, v, eb, ev) /= None
<1>1. DOMAIN Comparison(b, v, eb, ev) = {"savings", "external", "amplification"}
    BY DEF Comparison
<1>2. DOMAIN None = {"absent"}
    BY DEF None
<1> QED
    BY <1>1, <1>2

\* savings(baseline, variant) on byte counts: the saved amount is
\* (b - v) / 2^20, and pct % off the baseline leaves the variant.
LEMMA SavingsLemma ==
    ASSUME NEW b \in Nat, NEW v \in Nat
    PROVE  /\ EqQ(Savings(b, v).saved, Q(b - v, MiB))
           /\ b > 0 => b * 100 * Savings(b, v).pct.den - b * Savings(b, v).pct.num
                        = v * 100 * Savings(b, v).pct.den
           /\ b = 0 => Savings(b, v).pct.num = 0
           /\ b = v => Savings(b, v).saved.num = 0 /\ Savings(b, v).pct.num = 0
<1>1. Savings(b, v).saved = Q(b - v, MiB)
    BY DEF Savings
<1>2. EqQ(Q(b - v, MiB), Q(b - v, MiB))
    BY DEF EqQ, Q, MiB
<1>3. b > 0 => Savings(b, v).pct = Q((b - v) * 100, b)
    BY DEF Savings
<1>4. b > 0 => b * 100 * b - b * ((b - v) * 100) = v * 100 * b
    OBVIOUS
<1>5. b = 0 => Savings(b, v).pct = Q(0, 1)
    BY DEF Savings
<1> QED
    BY <1>1, <1>2, <1>3, <1>4, <1>5 DEF Q

LEMMA InitIInv == Init => IInv
BY DEF Init, IInv, Artifacts

LEMMA NextIInv == IInv /\ [Next]_vars => IInv'
<1> SUFFICES ASSUME IInv, [Next]_vars PROVE IInv'
    OBVIOUS
<1>1. CASE Load
    BY <1>1 DEF Load, IInv, Truthy
<1>2. CASE Check
    BY <1>2 DEF Check, IInv
<1>3. CASE PrintComparison
    <2>1. pc = "print" /\ pc' = "done"
        BY <1>3 DEF PrintComparison
    <2>2. UNCHANGED <<base, variant, extBase, extVariant>>
        BY <1>3 DEF PrintComparison
    <2>3. CASE NoSummary \in {base, variant}
        BY <1>3, <2>1, <2>2, <2>3 DEF PrintComparison, IInv
    <2>4. CASE NoSummary \notin {base, variant} /\ Truthy(base) /\ Truthy(variant)
        <3>1. report' = Comparison(base, variant, extBase, extVariant)
            BY <1>3, <2>4 DEF PrintComparison
        <3>2. report' /= None
            BY <3>1, ComparisonNotNone
        <3>3. base \in Stats /\ variant \in Stats
            BY <2>1, <2>4 DEF IInv, Artifacts, Truthy
        <3>4. outcome' = "ok"
            BY <1>3, <2>4 DEF PrintComparison
        <3> QED
            BY <2>1, <2>2, <2>4, <3>1, <3>2, <3>3, <3>4 DEF IInv
    <2>5. CASE NoSummary \notin {base, variant} /\ ~(Truthy(base) /\ Truthy(variant))
        <3>1. report' = None /\ outcome' = "ok"
            BY <1>3, <2>5 DEF PrintComparison
        <3> QED
            BY <2>1, <2>2, <2>5, <3>1 DEF IInv
    <2> QED
        BY <2>3, <2>4, <2>5
<1>4. CASE UNCHANGED vars
    BY <1>4 DEF vars, IInv, Truthy, Comparison
<1> QED
    BY <1>1, <1>2, <1>3, <1>4 DEF Next

(***************************************************************************)
(* MissingArtifact for both comparison scripts: whenever main ends without *)
(* an exception, it exited 1 exactly when neither stats file had data, and *)
(* it reported savings exactly when both had.                              *)
(***************************************************************************)
THEOREM MissingArtifactTheorem == Spec => []MissingArtifactNotFatal
<1>1. IInv => MissingArtifactNotFatal
    BY DEF IInv, MissingArtifactNotFatal
<1> QED
    BY <1>1, InitIInv, NextIInv, PTL DEF Spec

(***************************************************************************)
(* savings(baseline, variant) as print_comparison computes it: for the max *)
(* heap, average heap and max RSS of every pair of summaries, the saved    *)
(* amount is baseline - variant and the percentage is relative to the      *)
(* baseline, 0 for a zero baseline and for equal runs.                     *)
(***************************************************************************)
THEOREM SavingsTheorem == Spec => []SavingsRelativeToBaseline
<1>1. IInv => SavingsRelativeToBaseline
    <2> SUFFICES ASSUME IInv, report /= None, NEW m \in SavedMetrics
                 PROVE  LET s == report.savings[m]
                            b == base[m]
                            v == variant[m]
                        IN  /\ EqQ(s.saved, Q(b - v, MiB))
                            /\ b > 0 => b * 100 * s.pct.den - b * s.pct.num = v * 100 * s.pct.den
                            /\ b = 0 => s.pct.num = 0
                            /\ b = v => s.saved.num = 0 /\ s.pct.num = 0
        BY DEF SavingsRelativeToBaseline
    <2>1. base \in Summary /\ variant \in Summary
        BY StatsAssumption DEF IInv
    <2>2. base[m] \in Nat /\ variant[m] \in Nat
        BY <2>1 DEF Summary, SavedMetrics
    <2>3. report.savings[m] = Savings(base[m], variant[m])
        BY DEF IInv, Comparison
    <2>4. /\ EqQ(Savings(base[m], variant[m]).saved, Q(base[m] - variant[m], MiB))
          /\ base[m] > 0 =>
                base[m] * 100 * Savings(base[m], variant[m]).pct.den
                  - base[m] * Savings(base[m], variant[m]).pct.num
                = variant[m] * 100 * Savings(base[m], variant[m]).pct.den
          /\ base[m] = 0 => Savings(base[m], variant[m]).pct.num = 0
          /\ base[m] = variant[m] =>
                Savings(base[m], variant[m]).saved.num = 0
                /\ Savings(base[m], variant[m]).pct.num = 0
        BY <2>2, SavingsLemma
    <2> QED
        BY <2>3, <2>4
<1> QED
    BY <1>1, InitIInv, NextIInv, PTL DEF Spec

=============================================================================
