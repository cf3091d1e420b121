-------------------------- MODULE ExternalRssProofs --------------------------
(***************************************************************************)
(* Proofs about ExternalRss, for every file length and every set of lines: *)
(* type correctness, and that the returned value of analyze_rss /          *)
(* load_external_rss is None exactly when the file has no sample line and  *)
(* otherwise counts the sample lines (EmptyResultIffNoSample), that the    *)
(* loop keeps the values of all sample lines in file order                 *)
(* (SamplesFromValidLines), and that min and max bracket them.             *)
(***************************************************************************)
EXTENDS ExternalRss, MinMaxTheorems, FiniteSetTheorems, TLAPS

USE LinesAssumption

\* The indices of the sample lines among the first n lines of ln.
SampleIdxIn(ln, n) == {k \in 1..n : IsSample(ln[k])}
SampleIdxUpTo(n) == SampleIdxIn(lines, n)

(***************************************************************************)
(* The inductive invariant: the list holds one value per sample line read  *)
(* so far; the result stays None until Reduce; after the loop every line   *)
(* has been read; and Reduce returns None exactly for the empty list.      *)
(***************************************************************************)
IInv ==
    /\ TypeOK
    /\ Len(rss_values) = Cardinality(SampleIdxUpTo(i - 1))
    /\ pc = "open" => rss_values = <<>>
    /\ pc \in {"open", "loop", "reduce"} => result = None
    /\ (pc \in {"reduce", "done"} /\ exists) => i = Len(lines) + 1
    /\ pc = "done" =>
          /\ result = None <=> rss_values = <<>>
          /\ result /= None => result.sample_count = Len(rss_values)

\* The sample indices among a prefix form a finite set.
LEMMA SampleIdxFinite ==
    ASSUME NEW n \in Nat
    PROVE  IsFiniteSet(SampleIdxUpTo(n))
<1>1. IsFiniteSet(1..n)
    BY FS_Interval
<1>2. SampleIdxUpTo(n) \subseteq 1..n
    BY DEF SampleIdxUpTo, SampleIdxIn
<1>. QED
    BY <1>1, <1>2, FS_Subset

\* None is not a summary: their domains differ.
LEMMA SummaryNotNone ==
    ASSUME NEW s
    PROVE  Summary(s) /= None
<1>1. DOMAIN Summary(s) = SummaryFields
    BY DEF Summary, SummaryFields
<1>2. DOMAIN None = {"absent"}
    BY DEF None
<1>. QED
    BY <1>1, <1>2 DEF SummaryFields

\* The summary of a non-empty list of integers has the type TypeOK asks for.
LEMMA SummaryType ==
    ASSUME NEW s \in Seq(Int), s /= <<>>
    PROVE  /\ DOMAIN Summary(s) = SummaryFields
           /\ Summary(s).sample_count = Len(s)
           /\ Summary(s).sample_count \in Nat \ {0}
           /\ Summary(s).min_rss_kb \in Int
           /\ Summary(s).max_rss_kb \in Int
<1>1. Min(ToSet(s)) \in Int /\ Max(ToSet(s)) \in Int
    BY MinMaxOfList, ToSetFinite
<1>. QED
    BY <1>1 DEF Summary, SummaryFields, MinOf, MaxOf

\* The third field of a sample line is an integer.
LEMMA SampleThirdIsInt ==
    ASSUME NEW l \in LineSet, IsSample(l)
    PROVE  l.third \in Int
BY DEF IsSample

-----------------------------------------------------------------------------
(***************************************************************************)
(* Type correctness.                                                       *)
(***************************************************************************)
LEMMA TypeInit == Init => TypeOK
    <2>. SUFFICES ASSUME Init PROVE TypeOK
        OBVIOUS
    <2>1. lines \in Seq(LineSet)
        BY DEF Init, BoundedSeq, SeqOf
    <2>. QED
        BY <2>1 DEF Init, TypeOK, Readers

LEMMA TypeStep == TypeOK /\ [Next]_vars => TypeOK'
    <2>. SUFFICES ASSUME TypeOK, [Next]_vars PROVE TypeOK'
        OBVIOUS
    <2>1. CASE Open
        BY <2>1 DEF Open, TypeOK
    <2>2. CASE KeepSample
        <3>1. lines[i] \in LineSet /\ IsSample(lines[i])
            BY <2>2 DEF KeepSample, TypeOK
        <3>2. lines[i].third \in Int
            BY <3>1, SampleThirdIsInt
        <3>. QED
            BY <2>2, <3>2 DEF KeepSample, TypeOK
    <2>3. CASE SkipLine
        BY <2>3 DEF SkipLine, TypeOK
    <2>4. CASE EndOfFile
        BY <2>4 DEF EndOfFile, TypeOK
    <2>5. CASE Reduce
        <3>1. CASE rss_values = <<>>
            BY <2>5, <3>1 DEF Reduce, TypeOK
        <3>2. CASE rss_values /= <<>>
            <4>1. result' = Summary(rss_values)
                BY <2>5, <3>2 DEF Reduce
            <4>. QED
                BY <2>5, <3>2, <4>1, SummaryType DEF Reduce, TypeOK
        <3>. QED
            BY <3>1, <3>2
    <2>6. CASE UNCHANGED vars
        BY <2>6 DEF vars, TypeOK
    <2>. QED
        BY <2>1, <2>2, <2>3, <2>4, <2>5, <2>6 DEF Next

THEOREM TypeCorrect == Spec => []TypeOK
BY TypeInit, TypeStep, PTL DEF Spec

-----------------------------------------------------------------------------
(***************************************************************************)
(* The list grows by one value exactly at a sample line.                   *)
(***************************************************************************)
LEMMA SampleIdxStep ==
    ASSUME NEW ln \in Seq(LineSet), NEW m \in 1..Len(ln)
    PROVE  /\ IsFiniteSet(SampleIdxIn(ln, m - 1))
           /\ IsSample(ln[m]) =>
                 Cardinality(SampleIdxIn(ln, m)) = Cardinality(SampleIdxIn(ln, m - 1)) + 1
           /\ ~IsSample(ln[m]) =>
                 Cardinality(SampleIdxIn(ln, m)) = Cardinality(SampleIdxIn(ln, m - 1))
<1>1. IsFiniteSet(SampleIdxIn(ln, m - 1))
    <2>1. SampleIdxIn(ln, m - 1) \subseteq 1..(m - 1)
        BY DEF SampleIdxIn
    <2>2. IsFiniteSet(1..(m - 1))
        BY FS_Interval
    <2>. QED
        BY <2>1, <2>2, FS_Subset
<1>2. \A k \in 1..m : k \in 1..(m - 1) \/ k = m
    OBVIOUS
<1>3. m \notin SampleIdxIn(ln, m - 1)
    BY DEF SampleIdxIn
<1>4. ASSUME IsSample(ln[m])
      PROVE  Cardinality(SampleIdxIn(ln, m)) = Cardinality(SampleIdxIn(ln, m - 1)) + 1
    <2>1. SampleIdxIn(ln, m) = SampleIdxIn(ln, m - 1) \cup {m}
        BY <1>2, <1>4 DEF SampleIdxIn
    <2>. QED
        BY <1>1, <1>3, <2>1, FS_AddElement
<1>5. ASSUME ~IsSample(ln[m])
      PROVE  Cardinality(SampleIdxIn(ln, m)) = Cardinality(SampleIdxIn(ln, m - 1))
    <2>1. SampleIdxIn(ln, m) = SampleIdxIn(ln, m - 1)
        BY <1>2, <1>5 DEF SampleIdxIn
    <2>. QED
        BY <2>1
<1>. QED
    BY <1>1, <1>4, <1>5

\* The inductive invariant holds initially.
LEMMA IInvInit == Init => IInv
    <2>. SUFFICES ASSUME Init PROVE IInv
        OBVIOUS
    <2>1. TypeOK
        BY TypeInit
    <2>2. SampleIdxUpTo(0) = {}
        BY DEF SampleIdxUpTo, SampleIdxIn
    <2>. QED
        BY <2>1, <2>2, FS_EmptySet DEF Init, IInv

\* Every step, and every stuttering step, keeps the inductive invariant.
LEMMA IInvStep == IInv /\ [Next]_vars => IInv'
    <2>. SUFFICES ASSUME IInv, [Next]_vars PROVE IInv'
        OBVIOUS
    <2>0. TypeOK'
        BY TypeStep DEF IInv
    <2>1. CASE Open
        BY <2>0, <2>1 DEF Open, IInv, SampleIdxUpTo
    <2>2. CASE KeepSample
        <3>1. /\ i \in 1..Len(lines) /\ i - 1 \in Nat /\ lines \in Seq(LineSet)
              /\ IsSample(lines[i])
            BY <2>2 DEF KeepSample, IInv, TypeOK
        <3>2. Cardinality(SampleIdxUpTo(i)) = Cardinality(SampleIdxUpTo(i - 1)) + 1
            BY <3>1, SampleIdxStep DEF SampleIdxUpTo, SampleIdxIn
        <3>3. Len(rss_values') = Len(rss_values) + 1
            BY <2>2 DEF KeepSample, IInv, TypeOK
        <3>4. lines' = lines /\ i' - 1 = i
            BY <2>2, <3>1 DEF KeepSample
        <3>5. (Len(rss_values) = Cardinality(SampleIdxUpTo(i - 1)))'
            BY <2>2, <3>2, <3>3, <3>4 DEF IInv, SampleIdxUpTo
        <3>. QED
            BY <2>0, <2>2, <3>5 DEF KeepSample, IInv
    <2>3. CASE SkipLine
        <3>1. /\ i \in 1..Len(lines) /\ i - 1 \in Nat /\ lines \in Seq(LineSet)
              /\ ~IsSample(lines[i])
            BY <2>3 DEF SkipLine, IInv, TypeOK
        <3>2. Cardinality(SampleIdxUpTo(i)) = Cardinality(SampleIdxUpTo(i - 1))
            BY <3>1, SampleIdxStep DEF SampleIdxUpTo, SampleIdxIn
        <3>3. lines' = lines /\ i' - 1 = i /\ rss_values' = rss_values
            BY <2>3, <3>1 DEF SkipLine
        <3>4. (Len(rss_values) = Cardinality(SampleIdxUpTo(i - 1)))'
            BY <2>3, <3>2, <3>3 DEF IInv, SampleIdxUpTo
        <3>. QED
            BY <2>0, <2>3, <3>4 DEF SkipLine, IInv
    <2>4. CASE EndOfFile
        BY <2>0, <2>4 DEF EndOfFile, IInv, TypeOK, SampleIdxUpTo
    <2>5. CASE Reduce
        <3>1. CASE rss_values = <<>>
            BY <2>0, <2>5, <3>1 DEF Reduce, IInv, SampleIdxUpTo
        <3>2. CASE rss_values /= <<>>
            <4>1. result' = Summary(rss_values) /\ rss_values \in Seq(Int)
                BY <2>5, <3>2 DEF Reduce, IInv, TypeOK
            <4>2. result' /= None /\ result'.sample_count = Len(rss_values)
                BY <3>2, <4>1, SummaryNotNone, SummaryType
            <4>. QED
                BY <2>0, <2>5, <3>2, <4>2 DEF Reduce, IInv, SampleIdxUpTo
        <3>. QED
            BY <3>1, <3>2
    <2>6. CASE UNCHANGED vars
        BY <2>0, <2>6 DEF vars, IInv, SampleIdxUpTo
    <2>. QED
        BY <2>1, <2>2, <2>3, <2>4, <2>5, <2>6 DEF Next

LEMMA IInvInductive == Spec => []IInv
BY IInvInit, IInvStep, PTL DEF Spec

\* In every state of the invariant the returned value is as EmptyResult says.
LEMMA IInvEmptyResult == IInv => EmptyResultIffNoSample
<2>. SUFFICES ASSUME IInv, pc = "done", exists
              PROVE  /\ result = None <=> SampleIndices = {}
                     /\ result /= None =>
                           result.sample_count = Cardinality(SampleIndices)
    BY DEF EmptyResultIffNoSample
<2>1. SampleIndices = SampleIdxUpTo(i - 1) /\ i - 1 \in Nat
    BY DEF IInv, TypeOK, SampleIndices, SampleIdxUpTo, SampleIdxIn
<2>2. IsFiniteSet(SampleIndices)
    BY <2>1, SampleIdxFinite
<2>3. Len(rss_values) = Cardinality(SampleIndices)
    BY <2>1 DEF IInv
<2>4. rss_values = <<>> <=> Cardinality(SampleIndices) = 0
    BY <2>3 DEF IInv, TypeOK
<2>. QED
    BY <2>2, <2>3, <2>4, FS_EmptySet DEF IInv

(***************************************************************************)
(* EmptyResult: for every file, analyze_rss / load_external_rss returns    *)
(* None exactly when no line of an existing file is a sample line, and     *)
(* otherwise a summary whose sample_count is the number of sample lines.   *)
(***************************************************************************)
THEOREM EmptyResultTheorem == Spec => []EmptyResultIffNoSample
BY IInvEmptyResult, IInvInductive, PTL

-----------------------------------------------------------------------------
(***************************************************************************)
(* Skip-and-continue.  The invariant adds to IInv that at every step the   *)
(* list holds the values of the sample lines read so far, in order.        *)
(***************************************************************************)
SInv ==
    /\ IInv
    /\ ReadOff(lines, rss_values, SampleIdxIn(lines, i - 1))

\* Reading one more line adds its index to the sample indices exactly when
\* it is a sample line.
LEMMA SampleIdxExtend ==
    ASSUME NEW ln, NEW m \in Nat \ {0}
    PROVE  /\ IsSample(ln[m]) => SampleIdxIn(ln, m) = SampleIdxIn(ln, m - 1) \cup {m}
           /\ ~IsSample(ln[m]) => SampleIdxIn(ln, m) = SampleIdxIn(ln, m - 1)
BY DEF SampleIdxIn

\* A map with the three properties of ReadOff witnesses it.
LEMMA ReadOffIntro ==
    ASSUME NEW ls, NEW vals, NEW S, NEW idx \in [1..Len(vals) -> S],
           \A j, k \in 1..Len(vals) : j < k => idx[j] < idx[k],
           \A k \in S : \E j \in 1..Len(vals) : idx[j] = k,
           \A j \in 1..Len(vals) : vals[j] = ls[idx[j]].third
    PROVE  ReadOff(ls, vals, S)
BY Zenon DEF ReadOff

LEMMA InitSInv == Init => SInv
<1> SUFFICES ASSUME Init PROVE SInv
    OBVIOUS
<1>1. IInv
    BY IInvInit
<1>2. rss_values = <<>> /\ i = 1
    BY DEF Init
<1>3. SampleIdxIn(lines, i - 1) = {}
    BY <1>2 DEF SampleIdxIn
<1>4. ReadOff(lines, rss_values, SampleIdxIn(lines, i - 1))
    <2>1. Len(rss_values) = 0
        BY <1>2
    <2>2. [j \in {} |-> 0] \in [1..Len(rss_values) -> SampleIdxIn(lines, i - 1)]
        BY <2>1
    <2> QED
        BY <1>3, <2>1, <2>2, ReadOffIntro
<1> QED
    BY <1>1, <1>4 DEF SInv

LEMMA NextSInv == SInv /\ [Next]_vars => SInv'
<1> SUFFICES ASSUME SInv, [Next]_vars PROVE SInv'
    OBVIOUS
<1>1. IInv'
    BY IInvStep DEF SInv
<1>2. /\ lines \in Seq(LineSet) /\ i \in 1..(Len(lines) + 1)
      /\ rss_values \in Seq(Int)
    BY DEF SInv, IInv, TypeOK
<1> DEFINE n == Len(rss_values)
           S == SampleIdxIn(lines, i - 1)
<1>3. PICK idx \in [1..n -> S] :
          /\ \A j, k \in 1..n : j < k => idx[j] < idx[k]
          /\ \A k \in S : \E j \in 1..n : idx[j] = k
          /\ \A j \in 1..n : rss_values[j] = lines[idx[j]].third
    BY DEF SInv, ReadOff
<1>4. n \in Nat /\ \A j \in 1..n : idx[j] \in 1..(i - 1)
    BY <1>2, <1>3 DEF SampleIdxIn
<1>5. CASE KeepSample
    <2>1. /\ i \in 1..Len(lines) /\ IsSample(lines[i])
          /\ rss_values' = Append(rss_values, lines[i].third)
          /\ i' = i + 1 /\ lines' = lines
        BY <1>2, <1>5 DEF KeepSample
    <2>2. SampleIdxIn(lines, i) = S \cup {i}
        BY <2>1, SampleIdxExtend
    <2>3. Len(rss_values') = n + 1
        BY <1>2, <2>1
    <2>4. /\ \A j \in 1..n : rss_values'[j] = rss_values[j]
          /\ rss_values'[n + 1] = lines[i].third
        BY <1>2, <2>1
    <2> DEFINE idx2 == [j \in 1..n + 1 |-> IF j <= n THEN idx[j] ELSE i]
    <2>5. idx2 \in [1..Len(rss_values') -> SampleIdxIn(lines, i)]
        BY <1>3, <1>4, <2>2, <2>3
    <2>6. \A j, k \in 1..Len(rss_values') : j < k => idx2[j] < idx2[k]
        <3> SUFFICES ASSUME NEW j \in 1..n + 1, NEW k \in 1..n + 1, j < k
                     PROVE  idx2[j] < idx2[k]
            BY <2>3
        <3>1. CASE k <= n
            BY <1>3, <1>4, <3>1
        <3>2. CASE k = n + 1
            <4>1. j \in 1..n /\ idx2[k] = i
                BY <1>4, <3>2
            <4>2. idx2[j] = idx[j] /\ idx[j] \in 1..(i - 1)
                BY <1>4, <4>1
            <4> QED
                BY <1>2, <4>1, <4>2
        <3> QED
            BY <1>4, <3>1, <3>2
    <2>7. \A k \in SampleIdxIn(lines, i) : \E j \in 1..Len(rss_values') : idx2[j] = k
        BY <1>3, <1>4, <2>2, <2>3
    <2>8. \A j \in 1..Len(rss_values') : rss_values'[j] = lines[idx2[j]].third
        BY <1>3, <1>4, <2>3, <2>4
    <2>9. ReadOff(lines, rss_values', SampleIdxIn(lines, i))
        BY <2>5, <2>6, <2>7, <2>8, ReadOffIntro
    <2> QED
        BY <1>1, <2>1, <2>9 DEF SInv
<1>6. CASE SkipLine
    <2>1. /\ i \in 1..Len(lines) /\ ~IsSample(lines[i])
          /\ rss_values' = rss_values /\ i' = i + 1 /\ lines' = lines
        BY <1>2, <1>6 DEF SkipLine
    <2>2. SampleIdxIn(lines, i) = S
        BY <2>1, SampleIdxExtend
    <2>3. ReadOff(lines, rss_values, S)
        BY DEF SInv
    <2> QED
        BY <1>1, <2>1, <2>2, <2>3 DEF SInv
<1>7. CASE Open \/ EndOfFile \/ Reduce \/ UNCHANGED vars
    <2>1. lines' = lines /\ i' = i /\ rss_values' = rss_values
        BY <1>7 DEF Open, EndOfFile, Reduce, vars
    <2> QED
        BY <1>1, <2>1 DEF SInv
<1> QED
    BY <1>5, <1>6, <1>7 DEF Next

\* In every state of the invariant the list is as SamplesFromValidLines says.
LEMMA SInvSamples == SInv => SamplesFromValidLines
<1> SUFFICES ASSUME SInv, pc \in {"reduce", "done"}, exists
             PROVE  ReadOff(lines, rss_values, SampleIndices)
    BY DEF SamplesFromValidLines
<1>1. SampleIdxIn(lines, i - 1) = SampleIndices
    BY DEF SInv, IInv, SampleIdxIn, SampleIndices
<1> QED
    BY <1>1 DEF SInv

(***************************************************************************)
(* MalformedRecord: for every file, once the loop of analyze_rss /         *)
(* load_external_rss is over, rss_values holds the int(parts[2]) values of *)
(* all the valid lines of the file, one per line and in file order.        *)
(***************************************************************************)
THEOREM SamplesTheorem == Spec => []SamplesFromValidLines
BY InitSInv, NextSInv, SInvSamples, PTL DEF Spec


-----------------------------------------------------------------------------
(***************************************************************************)
(* Min and max of the reduction.  MInv adds to SInv that the loop runs     *)
(* only on an existing file and that a result other than None is the      *)
(* summary Reduce computed from the (non-empty) list, which no later step  *)
(* changes.                                                                *)
(***************************************************************************)
MInv ==
    /\ SInv
    /\ pc \in {"loop", "reduce"} => exists
    /\ result /= None =>
          /\ pc = "done" /\ exists /\ rss_values /= <<>>
          /\ result = Summary(rss_values)

\* A list read off the lines at the indices S holds exactly their values.
LEMMA ReadOffToSet ==
    ASSUME NEW ls, NEW vals \in Seq(Int), NEW S, ReadOff(ls, vals, S)
    PROVE  ToSet(vals) = {ls[k].third : k \in S}
<1>1. PICK idx \in [1..Len(vals) -> S] :
          /\ \A k \in S : \E j \in 1..Len(vals) : idx[j] = k
          /\ \A j \in 1..Len(vals) : vals[j] = ls[idx[j]].third
    BY DEF ReadOff
<1>2. ToSet(vals) = {vals[j] : j \in 1..Len(vals)}
    BY DEF ToSet
<1>3. \A j \in 1..Len(vals) : vals[j] \in {ls[k].third : k \in S}
    BY <1>1
<1>4. \A k \in S : ls[k].third \in {vals[j] : j \in 1..Len(vals)}
    BY <1>1
<1> QED
    BY <1>2, <1>3, <1>4

LEMMA InitMInv == Init => MInv
BY InitSInv DEF Init, MInv

LEMMA NextMInv == MInv /\ [Next]_vars => MInv'
<1> SUFFICES ASSUME MInv, [Next]_vars PROVE MInv'
    OBVIOUS
<1>1. SInv'
    BY NextSInv DEF MInv
<1>2. IInv
    BY DEF MInv, SInv
<1>3. CASE Open
    <2>1. pc' = "loop" => exists
        BY <1>3 DEF Open
    <2>2. result' = None /\ exists' = exists
        BY <1>2, <1>3 DEF Open, IInv
    <2> QED
        BY <1>1, <1>3, <2>1, <2>2 DEF Open, MInv
<1>4. CASE KeepSample \/ SkipLine \/ EndOfFile
    <2>1. pc = "loop" /\ pc' \in {"loop", "reduce"} /\ exists' = exists
        BY <1>4 DEF KeepSample, SkipLine, EndOfFile
    <2>2. result' = None
        BY <1>2, <1>4, <2>1 DEF KeepSample, SkipLine, EndOfFile, IInv
    <2> QED
        BY <1>1, <2>1, <2>2 DEF MInv
<1>5. CASE Reduce
    <2>1. /\ pc = "reduce" /\ pc' = "done" /\ exists
          /\ result' = IF rss_values = <<>> THEN None ELSE Summary(rss_values)
          /\ UNCHANGED <<exists, rss_values>>
        BY <1>5 DEF Reduce, MInv
    <2>2. Summary(rss_values) /= None
        BY SummaryNotNone
    <2> QED
        BY <1>1, <2>1, <2>2 DEF MInv
<1>6. CASE UNCHANGED vars
    BY <1>1, <1>6 DEF vars, MInv
<1> QED
    BY <1>3, <1>4, <1>5, <1>6 DEF Next

\* In every state of the invariant, min and max bracket the sample values.
LEMMA MInvBracket == MInv => MinMaxBracketSamples
<1> SUFFICES ASSUME MInv, result /= None
             PROVE  /\ result.min_rss_kb \in SampleValues
                    /\ result.max_rss_kb \in SampleValues
                    /\ \A v \in SampleValues :
                          result.min_rss_kb <= v /\ v <= result.max_rss_kb
    BY DEF MinMaxBracketSamples
<1>1. /\ pc = "done" /\ exists /\ rss_values /= <<>>
      /\ result = Summary(rss_values)
    BY DEF MInv
<1>2. rss_values \in Seq(Int)
    BY DEF MInv, SInv, IInv, TypeOK
<1>3. ReadOff(lines, rss_values, SampleIndices)
    BY <1>1, SInvSamples DEF MInv, SamplesFromValidLines
<1>4. ToSet(rss_values) = SampleValues
    BY <1>2, <1>3, ReadOffToSet DEF SampleValues
<1>5. result.min_rss_kb = Min(ToSet(rss_values))
      /\ result.max_rss_kb = Max(ToSet(rss_values))
    BY <1>1 DEF Summary, MinOf, MaxOf
<1> QED
    BY <1>1, <1>2, <1>4, <1>5, MinMaxOfList

(***************************************************************************)
(* Reduction of analyze_rss / load_external_rss, for every file: a         *)
(* returned min_rss_kb and max_rss_kb are values of sample lines of the    *)
(* file, and no sample line's value lies outside them.                     *)
(***************************************************************************)
THEOREM MinMaxTheorem == Spec => []MinMaxBracketSamples
BY InitMInv, NextMInv, MInvBracket, PTL DEF Spec

=============================================================================
