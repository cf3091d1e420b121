------------------------ MODULE RssRefinementProofs ------------------------
(***************************************************************************)
(* The line-by-line loop of analyze_rss / load_external_rss implements the *)
(* safety part of the atomic contract RssSummarySpec under the mapping     *)
(* Adapter of ExternalRss: every step of the loop is a Return of the       *)
(* contract or leaves the contract's state alone.  The only step that      *)
(* needs more than unfolding is Reduce, where the list the loop built must *)
(* equal the contract's Values(lines); SamplesTheorem's invariant gives    *)
(* the list as read off the valid lines, and the lemmas below show that    *)
(* such a list is Values(lines).                                           *)
(***************************************************************************)
EXTENDS ExternalRssProofs, FiniteSetTheorems, TLAPS

USE LinesAssumption

\* idx is strictly increasing on 1..n and maps onto S.
IncreasingOnto(idx, n, S) ==
    /\ idx \in [1..n -> S]
    /\ \A j, k \in 1..n : j < k => idx[j] < idx[k]
    /\ \A k \in S : \E j \in 1..n : idx[j] = k

\* An increasing map onto S numbers S: S has n elements.
LEMMA IncreasingOntoCard ==
    ASSUME NEW n \in Nat, NEW S \in SUBSET Nat, NEW idx,
           IncreasingOnto(idx, n, S)
    PROVE  Cardinality(S) = n
<1>1. \A j, k \in 1..n : idx[j] = idx[k] => j = k
    <2> SUFFICES ASSUME NEW j \in 1..n, NEW k \in 1..n, j /= k
                 PROVE  idx[j] /= idx[k]
        OBVIOUS
    <2>1. /\ j < k => idx[j] < idx[k]
          /\ k < j => idx[k] < idx[j]
        BY DEF IncreasingOnto
    <2>2. idx[j] \in Nat /\ idx[k] \in Nat
        BY DEF IncreasingOnto
    <2> QED
        BY <2>1, <2>2
<1>2. idx \in Bijection(1..n, S)
    BY <1>1 DEF IncreasingOnto, Bijection, Injection, Surjection, IsInjective
<1> QED
    BY <1>2, FS_CountingElements DEF ExistsBijection

\* The elements of S up to x.
UpTo(S, x) == {m \in S : m <= x}

\* The element of S at position l has exactly l elements of S up to it.
LEMMA IncreasingOntoRank ==
    ASSUME NEW n \in Nat, NEW S \in SUBSET Nat, NEW idx,
           IncreasingOnto(idx, n, S), NEW l \in 1..n
    PROVE  Cardinality(UpTo(S, idx[l])) = l
<1> DEFINE T == UpTo(S, idx[l])
           g == [t \in 1..l |-> idx[t]]
<1> USE DEF UpTo
<1>1. \A t \in 1..l : idx[t] \in T
    <2> SUFFICES ASSUME NEW t \in 1..l PROVE idx[t] \in T
        OBVIOUS
    <2>1. t \in 1..n /\ idx[t] \in S /\ idx[l] \in S
        BY DEF IncreasingOnto
    <2>2. t < l => idx[t] < idx[l]
        BY <2>1 DEF IncreasingOnto
    <2>3. idx[t] <= idx[l]
        <3>1. idx[t] \in Nat /\ idx[l] \in Nat
            BY <2>1
        <3>4. t = l \/ t < l
            OBVIOUS
        <3>2. t = l => idx[t] = idx[l]
            OBVIOUS
        <3> QED
            BY <2>2, <3>1, <3>2, <3>4
    <2> QED
        BY <2>1, <2>3
<1>2. \A m \in T : \E t \in 1..l : idx[t] = m
    <2> SUFFICES ASSUME NEW m \in T PROVE \E t \in 1..l : idx[t] = m
        OBVIOUS
    <2>1. PICK t \in 1..n : idx[t] = m
        BY DEF IncreasingOnto
    <2>2. m \in Nat /\ m <= idx[l] /\ idx[l] \in Nat
        BY DEF IncreasingOnto
    <2>3. l < t => idx[l] < idx[t]
        BY DEF IncreasingOnto
    <2>4. ~(l < t)
        BY <2>1, <2>2, <2>3
    <2> QED
        BY <2>1, <2>4
<1>3. IncreasingOnto(g, l, T)
    BY <1>1, <1>2 DEF IncreasingOnto
<1> QED
    BY <1>3, IncreasingOntoCard

\* Two increasing maps onto the same set of naturals are equal.
LEMMA IncreasingOntoUnique ==
    ASSUME NEW n \in Nat, NEW m \in Nat, NEW S \in SUBSET Nat, NEW e, NEW d,
           IncreasingOnto(e, n, S), IncreasingOnto(d, m, S)
    PROVE  e = d
<1>1. n = m
    BY IncreasingOntoCard
<1>2. \A j \in 1..n : e[j] = d[j]
    <2> SUFFICES ASSUME NEW j \in 1..n PROVE e[j] = d[j]
        OBVIOUS
    <2>1. PICK t \in 1..m : d[t] = e[j]
        BY DEF IncreasingOnto
    <2>2. Cardinality(UpTo(S, e[j])) = j
        BY IncreasingOntoRank
    <2>3. Cardinality(UpTo(S, d[t])) = t
        BY IncreasingOntoRank
    <2>4. t = j
        BY <2>1, <2>2, <2>3
    <2> QED
        BY <2>1, <2>4
<1>3. e \in [1..n -> S] /\ d \in [1..n -> S]
    BY <1>1 DEF IncreasingOnto
<1> QED
    BY <1>2, <1>3

\* A list read off all the valid lines, in order, is the contract's Values.
LEMMA ReadOffIsValues ==
    ASSUME NEW ls \in Seq(LineSet), NEW vals \in Seq(Int),
           ReadOff(ls, vals, Adapter!ValidIdx(ls))
    PROVE  vals = Adapter!Values(ls)
<1> DEFINE S == Adapter!ValidIdx(ls)
           n == Len(vals)
           E == UNION {[1..k -> S] : k \in 0..Len(ls)}
           Incr(e) == /\ \A j, k \in DOMAIN e : j < k => e[j] < e[k]
                      /\ \A k \in S : \E j \in DOMAIN e : e[j] = k
<1>1. S \in SUBSET Nat /\ S \subseteq 1..Len(ls) /\ n \in Nat
    BY DEF Adapter!ValidIdx
<1>2. PICK idx : IncreasingOnto(idx, n, S) /\ \A j \in 1..n : vals[j] = ls[idx[j]].third
    BY DEF ReadOff, IncreasingOnto
<1>3. n <= Len(ls)
    <2>1. Cardinality(S) = n
        BY <1>1, <1>2, IncreasingOntoCard
    <2>2. IsFiniteSet(1..Len(ls)) /\ Cardinality(1..Len(ls)) = Len(ls)
        <3>1. Len(ls) \in Nat /\ Len(ls) \in Int /\ 1 \in Int
            OBVIOUS
        <3>2. /\ IsFiniteSet(1..Len(ls))
              /\ Cardinality(1..Len(ls)) = IF 1 > Len(ls) THEN 0 ELSE Len(ls) - 1 + 1
            BY <3>1, FS_Interval, Zenon
        <3> QED
            BY <3>1, <3>2
    <2> QED
        BY <1>1, <2>1, <2>2, FS_Subset
<1>4. idx \in E /\ Incr(idx)
    <2>1. idx \in [1..n -> S] /\ DOMAIN idx = 1..n
        BY <1>2 DEF IncreasingOnto
    <2>2. n \in 0..Len(ls)
        BY <1>1, <1>3
    <2> QED
        BY <1>2, <2>1, <2>2 DEF IncreasingOnto
<1> DEFINE e == CHOOSE f \in E : Incr(f)
<1>5. e \in E /\ Incr(e)
    BY <1>4
<1>6. Adapter!Numbering(ls) = e
    BY DEF Adapter!Numbering
<1>7. e = idx
    <2>1. PICK k \in 0..Len(ls) : e \in [1..k -> S]
        BY <1>5
    <2>2. IncreasingOnto(e, k, S)
        BY <1>5, <2>1 DEF IncreasingOnto
    <2>3. k \in Nat /\ IncreasingOnto(idx, n, S)
        BY <1>2, <2>1
    <2> QED
        BY <1>1, <2>2, <2>3, IncreasingOntoUnique
<1>8. Adapter!Values(ls) = [j \in 1..n |-> ls[idx[j]].third]
    <2>1. DOMAIN idx = 1..n
        BY <1>2 DEF IncreasingOnto
    <2> QED
        BY <1>6, <1>7, <2>1 DEF Adapter!Values
<1>9. vals = [j \in 1..n |-> vals[j]]
    OBVIOUS
<1>10. [j \in 1..n |-> vals[j]] = [j \in 1..n |-> ls[idx[j]].third]
    BY <1>2
<1> QED
    BY <1>8, <1>9, <1>10

\* The loop's summary is the contract's Reduced: the same min(), max(),
\* sum() and len() of the list.
LEMMA SummaryIsReduced ==
    ASSUME NEW s
    PROVE  Summary(s) = Adapter!Reduced(s)
BY DEF Summary, Adapter!Reduced, MinOf, MaxOf, SumOf, Q, Min, Adapter!Min,
       Max, Adapter!Max, ToSet, Adapter!ToSet, FoldLeft, Adapter!FoldLeft,
       MapThenFoldSet, Adapter!MapThenFoldSet

LEMMA RefineInit == Init => Adapter!AInit
BY DEF Init, Adapter!AInit, None, Adapter!NoResult, Readers, BoundedSeq,
       Adapter!BoundedSeq, SeqOf, Adapter!SeqOf

\* Every step of the loop, from a state of MInv, is a Return of the
\* contract or leaves the contract's variables unchanged.
LEMMA RefineStep == MInv /\ [Next]_vars => [Adapter!Return]_(Adapter!avars)
<1> SUFFICES ASSUME MInv, [Next]_vars
             PROVE  [Adapter!Return]_(Adapter!avars)
    OBVIOUS
<1>1. CASE Open
    <2>1. CASE exists
        <3>1. pc' = "loop" /\ UNCHANGED <<reader, exists, lines, result>>
            BY <1>1, <2>1 DEF Open
        <3> QED
            BY <1>1, <3>1 DEF Open, Adapter!avars
    <2>2. CASE ~exists
        <3>1. /\ pc = "open" /\ UNCHANGED <<reader, exists, lines, result>>
              /\ \/ reader = "load_external_rss" /\ pc' = "done"
                 \/ reader = "analyze_rss" /\ pc' = "crashed"
            BY <1>1, <2>2 DEF Open
        <3> QED
            BY <2>2, <3>1 DEF Adapter!Return
    <2> QED
        BY <2>1, <2>2
<1>2. CASE KeepSample \/ SkipLine \/ EndOfFile
    <2>1. pc = "loop" /\ pc' \in {"loop", "reduce"}
          /\ UNCHANGED <<reader, exists, lines, result>>
        BY <1>2 DEF KeepSample, SkipLine, EndOfFile
    <2> QED
        BY <2>1 DEF Adapter!avars
<1>3. CASE Reduce
    <2>1. /\ pc = "reduce" /\ pc' = "done" /\ exists
          /\ result' = IF rss_values = <<>> THEN None ELSE Summary(rss_values)
          /\ UNCHANGED <<reader, exists, lines>>
        BY <1>3 DEF Reduce, MInv
    <2>2. /\ lines \in Seq(LineSet) /\ rss_values \in Seq(Int)
          /\ ReadOff(lines, rss_values, SampleIndices)
        BY <2>1, SInvSamples DEF MInv, SInv, IInv, TypeOK, SamplesFromValidLines
    <2>3. SampleIndices = Adapter!ValidIdx(lines)
        BY DEF SampleIndices, Adapter!ValidIdx, IsSample, Adapter!ValidLine
    <2>4. rss_values = Adapter!Values(lines)
        BY <2>2, <2>3, ReadOffIsValues
    <2>5. result' = IF Adapter!Values(lines) = <<>> THEN Adapter!NoResult
                                                   ELSE Adapter!Reduced(Adapter!Values(lines))
        BY <2>1, <2>4, SummaryIsReduced DEF None, Adapter!NoResult
    <2> QED
        BY <2>1, <2>5 DEF Adapter!Return
<1>4. CASE UNCHANGED vars
    BY <1>4 DEF vars, Adapter!avars
<1> QED
    BY <1>1, <1>2, <1>3, <1>4 DEF Next

(***************************************************************************)
(* Refinement (safety): for every file, every behaviour of the line-by-    *)
(* line loop of analyze_rss / load_external_rss, seen through the mapping  *)
(* Adapter, is a behaviour of the contract RssSummarySpec without its      *)
(* fairness: the call returns None or the summary of the values of the     *)
(* valid lines in file order, or raises FileNotFoundError, in one step.    *)
(***************************************************************************)
THEOREM RefinementTheorem == Spec => Adapter!ASafeSpec
BY InitMInv, NextMInv, RefineInit, RefineStep, PTL DEF Spec, Adapter!ASafeSpec

=============================================================================
