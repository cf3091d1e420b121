------------------------- MODULE AnalyzeResultsProofs -------------------------
(***************************************************************************)
(* Proofs about the loop of analyze_results.py main: for every set of      *)
(* files and every content they may have, and whatever order glob()       *)
(* returns them in, the results list holds one analyze_file summary per    *)
(* usable file visited so far, and one per usable file once the loop is    *)
(* over.                                                                   *)
(***************************************************************************)
EXTENDS AnalyzeResults, MinMaxTheorems, FiniteSetTheorems, TLAPS

\* The summaries analyze_file can return for the files of this run.
Results == {AnalyzeFile(f, content[f]) : f \in {g \in Files : Usable(content[g])}}

\* The files that have a summary in results.
FilesOf(rs) == {rs[j].file : j \in 1..Len(rs)}

(***************************************************************************)
(* The inductive invariant.  ResultsAreUsableFiles says what results holds *)
(* only at the end of the loop; during the loop, results covers exactly    *)
(* the usable files already visited, i.e. the usable files not pending,    *)
(* and nothing is pending before the loop starts or after it ends.         *)
(***************************************************************************)
IInv ==
    /\ found \subseteq Files
    /\ content \in [Files -> Contents]
    /\ pending \subseteq found
    /\ results \in Seq(Results)
    /\ pc \in {"start", "loop", "report", "done"}
    /\ pc = "start" => results = <<>> /\ pending = {}
    /\ pc \in {"report", "done"} => pending = {}
    /\ pc /= "start" => FilesOf(results) = UsableFiles \ pending
    /\ \A j, k \in 1..Len(results) : results[j].file = results[k].file => j = k
    /\ \A j \in 1..Len(results) :
          /\ results[j].file \in UsableFiles \ pending
          /\ results[j] = AnalyzeFile(results[j].file, content[results[j].file])

\* analyze_file keeps the file it was given.
LEMMA AnalyzeFileFile ==
    ASSUME NEW f, NEW c
    PROVE  AnalyzeFile(f, c).file = f
BY DEF AnalyzeFile

\* A step that changes neither the files, their content, pending nor results,
\* and moves pc forward without reaching the loop's end with files pending,
\* keeps the invariant.
LEMMA FrameIInv ==
    ASSUME IInv,
           UNCHANGED <<found, content, pending, results>>,
           pc' \in {"start", "loop", "report", "done"},
           pc' = pc \/ (pc /= "start" /\ pc' /= "start"),
           pc' \in {"report", "done"} => pending = {}
    PROVE  IInv'
<1>1. Results' = Results
    BY DEF Results, Usable, Raises
<1>2. UsableFiles' = UsableFiles
    BY DEF UsableFiles, Usable, Raises
<1>3. \A j \in 1..Len(results) :
         results[j] = AnalyzeFile(results[j].file, content[results[j].file])
    BY DEF IInv
<1> QED
    BY <1>1, <1>2, <1>3 DEF IInv, FilesOf

LEMMA InitIInv == Init => IInv
<1> SUFFICES ASSUME Init PROVE IInv
    OBVIOUS
<1>1. results = <<>> /\ pending = {} /\ pc = "start"
    BY DEF Init
<1>2. results \in Seq(Results)
    BY <1>1
<1> QED
    BY <1>1, <1>2 DEF Init, IInv

LEMMA NextIInv == IInv /\ [Next]_vars => IInv'
<1> SUFFICES ASSUME IInv, [Next]_vars PROVE IInv'
    OBVIOUS
<1>1. CASE Start
    <2>1. results' = <<>> /\ content' = content /\ found' = found
        BY <1>1 DEF Start, IInv
    <2>2. CASE found = {}
        <3>1. pending' = {} /\ pc' = "done"
            BY <1>1, <2>2 DEF Start, IInv
        <3>2. UsableFiles' = {}
            BY <2>1, <2>2 DEF UsableFiles
        <3>3. FilesOf(results') = {}
            BY <2>1 DEF FilesOf
        <3> QED
            BY <2>1, <3>1, <3>2, <3>3 DEF IInv
    <2>3. CASE found /= {}
        <3>1. pending' = found /\ pc' = "loop"
            BY <1>1, <2>3 DEF Start
        <3>2. UsableFiles' \ pending' = {}
            BY <2>1, <3>1 DEF UsableFiles
        <3>3. FilesOf(results') = {}
            BY <2>1 DEF FilesOf
        <3> QED
            BY <2>1, <3>1, <3>2, <3>3 DEF IInv
    <2> QED
        BY <2>2, <2>3
<1>2. CASE AnalyzeOne
    <2>1. PICK f \in pending :
             /\ pending' = pending \ {f}
             /\ results' = IF Usable(content[f])
                             THEN Append(results, AnalyzeFile(f, content[f]))
                             ELSE results
        BY <1>2 DEF AnalyzeOne
    <2>2. pc = "loop" /\ pc' = "loop" /\ found' = found /\ content' = content
        BY <1>2 DEF AnalyzeOne
    <2>3. UsableFiles' = UsableFiles /\ Results' = Results
        BY <2>2 DEF UsableFiles, Results, Usable, Raises
    <2>4. f \in found /\ f \in Files
        BY <2>1 DEF IInv
    <2>5. CASE Usable(content[f])
        <3> DEFINE r == AnalyzeFile(f, content[f])
        <3>1. results' = Append(results, r)
            BY <2>1, <2>5
        <3>2. r \in Results /\ r.file = f
            BY <2>4, <2>5, AnalyzeFileFile DEF Results
        <3>3. f \in UsableFiles
            BY <2>4, <2>5 DEF UsableFiles
        <3>4. results' \in Seq(Results) /\ Len(results') = Len(results) + 1
            BY <3>1, <3>2 DEF IInv
        <3>5. \A j \in 1..Len(results) : results'[j] = results[j]
            BY <3>1 DEF IInv
        <3>6. results'[Len(results) + 1] = r
            BY <3>1 DEF IInv
        <3>7. \A j \in 1..Len(results) : results[j].file \in UsableFiles \ pending
            BY DEF IInv
        <3>8. FilesOf(results') = FilesOf(results) \cup {f}
            BY <3>2, <3>4, <3>5, <3>6 DEF FilesOf
        <3>9. (FilesOf(results) = UsableFiles \ pending)'
            BY <3>8, <3>3, <2>1, <2>2, <2>3 DEF IInv
        <3>10. \A j, k \in 1..Len(results') :
                  results'[j].file = results'[k].file => j = k
            BY <3>2, <3>4, <3>5, <3>6, <3>7, <2>1 DEF IInv
        <3>11. \A j \in 1..Len(results') :
                  /\ results'[j].file \in UsableFiles' \ pending'
                  /\ results'[j] = AnalyzeFile(results'[j].file,
                                                content'[results'[j].file])
            BY <3>2, <3>3, <3>4, <3>5, <3>6, <3>7, <2>1, <2>2, <2>3 DEF IInv
        <3> QED
            BY <3>4, <3>9, <3>10, <3>11, <2>1, <2>2, <2>3 DEF IInv
    <2>6. CASE ~Usable(content[f])
        <3>1. results' = results
            BY <2>1, <2>6
        <3>2. f \notin UsableFiles
            BY <2>6 DEF UsableFiles
        <3>3. (FilesOf(results) = UsableFiles \ pending)'
            BY <3>1, <3>2, <2>1, <2>2, <2>3 DEF IInv
        <3>4. \A j \in 1..Len(results) : results[j].file \in UsableFiles \ pending'
            BY <3>2, <2>1 DEF IInv
        <3> QED
            BY <3>1, <3>3, <3>4, <2>1, <2>2, <2>3 DEF IInv
    <2> QED
        BY <2>5, <2>6
<1>3. CASE EndLoop
    <2>1. pending = {} /\ pc = "loop" /\ pc' \in {"report", "done"}
        BY <1>3 DEF EndLoop
    <2>2. UNCHANGED <<found, content, pending, results>>
        BY <1>3 DEF EndLoop
    <2> QED
        BY <2>1, <2>2, FrameIInv
<1>4. CASE Report
    <2>1. pc = "report" /\ pc' = "done" /\ pending = {}
        BY <1>4 DEF Report, IInv
    <2>2. UNCHANGED <<found, content, pending, results>>
        BY <1>4 DEF Report
    <2> QED
        BY <2>1, <2>2, FrameIInv
<1>5. CASE UNCHANGED vars
    BY <1>5, FrameIInv DEF vars, IInv
<1> QED
    BY <1>1, <1>2, <1>3, <1>4, <1>5 DEF Next

LEMMA IInvResults == IInv => ResultsAreUsableFiles
BY DEF IInv, ResultsAreUsableFiles, FilesOf

(***************************************************************************)
(* EmptyResult and MalformedRecord for analyze_results.py main: in every   *)
(* reachable state results holds one analyze_file summary per usable file *)
(* already visited, no file twice, and once the loop is over one per       *)
(* usable file found by glob(), whatever order the files came in.          *)
(***************************************************************************)
THEOREM ResultsTheorem == Spec => []ResultsAreUsableFiles
<1>1. Init => IInv
    BY InitIInv
<1>2. IInv /\ [Next]_vars => IInv'
    BY NextIInv
<1>3. IInv => ResultsAreUsableFiles
    BY IInvResults
<1> QED
    BY <1>1, <1>2, <1>3, PTL DEF Spec

-----------------------------------------------------------------------------
\* The exact quotients a heap_ratio can be.
RatQ == [num : Int, den : Nat \ {0}]

\* LeqQ is reflexive and total on quotients with a positive denominator.
LEMMA LeqQTotal ==
    ASSUME NEW a \in RatQ, NEW b \in RatQ
    PROVE  LeqQ(a, a) /\ (LeqQ(a, b) \/ LeqQ(b, a))
BY DEF LeqQ, RatQ

\* LeqQ is transitive there.
LEMMA LeqQTrans ==
    ASSUME NEW a \in RatQ, NEW b \in RatQ, NEW c \in RatQ,
           LeqQ(a, b), LeqQ(b, c)
    PROVE  LeqQ(a, c)
<1>1. a.num \in Int /\ b.num \in Int /\ c.num \in Int
      /\ a.den \in Nat \ {0} /\ b.den \in Nat \ {0} /\ c.den \in Nat \ {0}
    BY DEF RatQ
<1>2. a.num * b.den * c.den <= b.num * a.den * c.den
    BY <1>1 DEF LeqQ
<1>3. b.num * c.den * a.den <= c.num * b.den * a.den
    BY <1>1 DEF LeqQ
<1>4. (a.num * c.den) * b.den <= (c.num * a.den) * b.den
    BY <1>1, <1>2, <1>3
<1> QED
    BY <1>1, <1>4 DEF LeqQ

\* The indices whose ratio is strictly below that of j.
StrictlyBelow(rs, j) == {k \in 1..Len(rs) : ~LeqQ(rs[j].heap_ratio, rs[k].heap_ratio)}

\* min(results, key=heap_ratio) is defined on a non-empty list: its index
\* is in range and its ratio is no greater than any other.
LEMMA FirstMinSpec ==
    ASSUME NEW rs \in Seq(ResultRec), rs /= <<>>
    PROVE  /\ FirstMin(rs) \in 1..Len(rs)
           /\ \A k \in 1..Len(rs) : LeqQ(rs[FirstMin(rs)].heap_ratio, rs[k].heap_ratio)
<1> DEFINE n == Len(rs)
           r(j) == rs[j].heap_ratio
           M == {j \in 1..n : \A k \in 1..n : LeqQ(r(j), r(k))}
<1>1. n \in Nat \ {0} /\ \A j \in 1..n : r(j) \in RatQ
    <2>1. n \in Nat /\ n /= 0
        OBVIOUS
    <2>2. ASSUME NEW j \in 1..n PROVE r(j) \in RatQ
        <3>1. rs[j] \in ResultRec
            OBVIOUS
        <3> QED
            BY <3>1 DEF ResultRec, RatQ
    <2> QED
        BY <2>1, <2>2
<1>2. ASSUME NEW j \in 1..n
      PROVE  /\ IsFiniteSet(StrictlyBelow(rs, j))
             /\ Cardinality(StrictlyBelow(rs, j)) \in Nat
    <2>1. StrictlyBelow(rs, j) \subseteq 1..n
        BY DEF StrictlyBelow
    <2>2. IsFiniteSet(1..n)
        BY FS_Interval
    <2>3. IsFiniteSet(StrictlyBelow(rs, j))
        BY <2>1, <2>2, FS_Subset
    <2> QED
        BY <2>3, FS_CardinalityType
<1>3. PICK j0 \in 1..n : \A j \in 1..n :
          ~(Cardinality(StrictlyBelow(rs, j)) < Cardinality(StrictlyBelow(rs, j0)))
    <2>1. /\ {Cardinality(StrictlyBelow(rs, j)) : j \in 1..n} \subseteq Nat
          /\ {Cardinality(StrictlyBelow(rs, j)) : j \in 1..n} /= {}
        BY <1>1, <1>2
    <2> QED
        BY <2>1, LeastNat
<1>4. j0 \in M
    <2> SUFFICES ASSUME NEW k \in 1..n, ~LeqQ(r(j0), r(k)) PROVE FALSE
        OBVIOUS
    <2>1. LeqQ(r(k), r(j0))
        BY <1>1, LeqQTotal
    <2>2. StrictlyBelow(rs, k) \subseteq StrictlyBelow(rs, j0)
        <3> SUFFICES ASSUME NEW m \in 1..n, ~LeqQ(r(k), r(m)), LeqQ(r(j0), r(m))
                     PROVE  FALSE
            BY DEF StrictlyBelow
        <3> QED
            BY <1>1, <2>1, LeqQTrans
    <2>3. k \in StrictlyBelow(rs, j0) /\ k \notin StrictlyBelow(rs, k)
        BY <1>1, LeqQTotal DEF StrictlyBelow
    <2>4. Cardinality(StrictlyBelow(rs, k)) < Cardinality(StrictlyBelow(rs, j0))
        BY <1>2, <2>2, <2>3, FS_Subset
    <2> QED
        BY <1>3, <2>4
<1>5. PICK jm \in M : \A j \in M : ~(j < jm)
    <2>1. M \subseteq Nat /\ M /= {}
        BY <1>4
    <2> QED
        BY <2>1, LeastNat
<1>6. /\ \A k \in 1..n : LeqQ(r(jm), r(k))
      /\ \A k \in 1..(jm - 1) : ~LeqQ(r(k), r(jm))
    <2>1. \A k \in 1..n : LeqQ(r(jm), r(k))
        OBVIOUS
    <2>2. ASSUME NEW k \in 1..(jm - 1), LeqQ(r(k), r(jm)) PROVE FALSE
        <3>1. k \in 1..n
            OBVIOUS
        <3>2. k \in M
            BY <1>1, <2>1, <2>2, <3>1, LeqQTrans
        <3> QED
            BY <3>2, <1>5
    <2> QED
        BY <2>1, <2>2
<1> QED
    BY <1>5, <1>6 DEF FirstMin
\* The indices whose ratio is strictly above that of j.
StrictlyAbove(rs, j) == {k \in 1..Len(rs) : ~LeqQ(rs[k].heap_ratio, rs[j].heap_ratio)}

\* max(results, key=heap_ratio) is defined on a non-empty list: its index
\* is in range and its ratio is no smaller than any other.
LEMMA FirstMaxSpec ==
    ASSUME NEW rs \in Seq(ResultRec), rs /= <<>>
    PROVE  /\ FirstMax(rs) \in 1..Len(rs)
           /\ \A k \in 1..Len(rs) : LeqQ(rs[k].heap_ratio, rs[FirstMax(rs)].heap_ratio)
<1> DEFINE n == Len(rs)
           r(j) == rs[j].heap_ratio
           M == {j \in 1..n : \A k \in 1..n : LeqQ(r(k), r(j))}
<1>1. n \in Nat \ {0} /\ \A j \in 1..n : r(j) \in RatQ
    <2>1. n \in Nat /\ n /= 0
        OBVIOUS
    <2>2. ASSUME NEW j \in 1..n PROVE r(j) \in RatQ
        <3>1. rs[j] \in ResultRec
            OBVIOUS
        <3> QED
            BY <3>1 DEF ResultRec, RatQ
    <2> QED
        BY <2>1, <2>2
<1>2. ASSUME NEW j \in 1..n
      PROVE  /\ IsFiniteSet(StrictlyAbove(rs, j))
             /\ Cardinality(StrictlyAbove(rs, j)) \in Nat
    <2>1. StrictlyAbove(rs, j) \subseteq 1..n
        BY DEF StrictlyAbove
    <2>2. IsFiniteSet(1..n)
        BY FS_Interval
    <2>3. IsFiniteSet(StrictlyAbove(rs, j))
        BY <2>1, <2>2, FS_Subset
    <2> QED
        BY <2>3, FS_CardinalityType
<1>3. PICK j0 \in 1..n : \A j \in 1..n :
          ~(Cardinality(StrictlyAbove(rs, j)) < Cardinality(StrictlyAbove(rs, j0)))
    <2>1. /\ {Cardinality(StrictlyAbove(rs, j)) : j \in 1..n} \subseteq Nat
          /\ {Cardinality(StrictlyAbove(rs, j)) : j \in 1..n} /= {}
        BY <1>1, <1>2
    <2> QED
        BY <2>1, LeastNat
<1>4. j0 \in M
    <2> SUFFICES ASSUME NEW k \in 1..n, ~LeqQ(r(k), r(j0)) PROVE FALSE
        OBVIOUS
    <2>1. LeqQ(r(j0), r(k))
        BY <1>1, LeqQTotal
    <2>2. StrictlyAbove(rs, k) \subseteq StrictlyAbove(rs, j0)
        <3> SUFFICES ASSUME NEW m \in 1..n, ~LeqQ(r(m), r(k)), LeqQ(r(m), r(j0))
                     PROVE  FALSE
            BY DEF StrictlyAbove
        <3> QED
            BY <1>1, <2>1, LeqQTrans
    <2>3. k \in StrictlyAbove(rs, j0) /\ k \notin StrictlyAbove(rs, k)
        BY <1>1, LeqQTotal DEF StrictlyAbove
    <2>4. Cardinality(StrictlyAbove(rs, k)) < Cardinality(StrictlyAbove(rs, j0))
        BY <1>2, <2>2, <2>3, FS_Subset
    <2> QED
        BY <1>3, <2>4
<1>5. PICK jm \in M : \A j \in M : ~(j < jm)
    <2>1. M \subseteq Nat /\ M /= {}
        BY <1>4
    <2> QED
        BY <2>1, LeastNat
<1>6. /\ \A k \in 1..n : LeqQ(r(k), r(jm))
      /\ \A k \in 1..(jm - 1) : ~LeqQ(r(jm), r(k))
    <2>1. \A k \in 1..n : LeqQ(r(k), r(jm))
        OBVIOUS
    <2>2. ASSUME NEW k \in 1..(jm - 1), LeqQ(r(jm), r(k)) PROVE FALSE
        <3>1. k \in 1..n
            OBVIOUS
        <3>2. k \in M
            BY <1>1, <2>1, <2>2, <3>1, LeqQTrans
        <3> QED
            BY <3>2, <1>5
    <2> QED
        BY <2>1, <2>2
<1> QED
    BY <1>5, <1>6 DEF FirstMax

USE ContentsAssumption

\* analyze_file's summary of a usable file is a result record: the peak of
\* a non-empty list of natural numbers is a natural number.
LEMMA AnalyzeFileType ==
    ASSUME NEW f \in Files, NEW c \in Contents, Usable(c)
    PROVE  AnalyzeFile(f, c) \in ResultRec
<1>1. c \in Seq(Sample) /\ c /= <<>>
    BY DEF Usable
<1> DEFINE hs == [k \in 1..Len(c) |-> c[k].heap_alloc]
<1>2. hs \in Seq(Int) /\ hs /= <<>> /\ \A k \in 1..Len(c) : hs[k] \in Nat
    <2>1. Len(c) \in Nat \ {0}
        BY <1>1
    <2>2. \A k \in 1..Len(c) : c[k] \in Sample
        BY <1>1
    <2>3. \A k \in 1..Len(c) : hs[k] \in Nat
        BY <2>2 DEF Sample
    <2>4. hs \in [1..Len(c) -> Int] /\ Len(hs) = Len(c)
        BY <2>3
    <2> QED
        BY <2>1, <2>3, <2>4
<1>3. ToSet(hs) = {c[k].heap_alloc : k \in DOMAIN c}
    BY <1>1 DEF ToSet
<1>4. MaxHeap(c) \in Nat
    <2>1. Max(ToSet(hs)) \in ToSet(hs)
        BY <1>2, MinMaxOfList
    <2>2. ToSet(hs) \subseteq Nat
        BY <1>2 DEF ToSet
    <2> QED
        BY <1>3, <2>1, <2>2 DEF MaxHeap
<1>5. c[Len(c)].message_bytes \in Nat
    <2>1. Len(c) \in 1..Len(c)
        BY <1>1
    <2>2. c[Len(c)] \in Sample
        BY <1>1, <2>1
    <2> QED
        BY <2>2 DEF Sample
<1>6. AnalyzeFile(f, c).heap_ratio \in [num : Nat, den : Nat \ {0}]
    BY <1>4, <1>5 DEF AnalyzeFile, Q
<1> QED
    BY <1>4, <1>5, <1>6 DEF AnalyzeFile, ResultRec

\* Every list that satisfies IInv is a list of result records.
LEMMA IInvResultRec == IInv => results \in Seq(ResultRec)
<1> SUFFICES ASSUME IInv PROVE results \in Seq(ResultRec)
    OBVIOUS
<1>1. Results \subseteq ResultRec
    <2> SUFFICES ASSUME NEW f \in Files, Usable(content[f])
                 PROVE  AnalyzeFile(f, content[f]) \in ResultRec
        BY DEF Results
    <2>1. content[f] \in Contents
        BY DEF IInv
    <2> QED
        BY <2>1, AnalyzeFileType
<1> QED
    BY <1>1 DEF IInv

-----------------------------------------------------------------------------
(***************************************************************************)
(* The ranking.  The invariant adds to IInv that a ranking exists only     *)
(* after Report, with at least two results, and that it is the pair        *)
(* min / max of results by heap_ratio.                                     *)
(***************************************************************************)
RInv ==
    /\ IInv
    /\ ranking /= <<>> =>
          /\ pc = "done"
          /\ Len(results) > 1
          /\ ranking = <<FirstMin(results), FirstMax(results)>>

LEMMA InitRInv == Init => RInv
BY InitIInv DEF Init, RInv

LEMMA NextRInv == RInv /\ [Next]_vars => RInv'
<1> SUFFICES ASSUME RInv, [Next]_vars PROVE RInv'
    OBVIOUS
<1>1. IInv'
    BY NextIInv DEF RInv
<1>2. CASE Report
    <2>1. pc = "report" /\ pc' = "done" /\ results' = results
        BY <1>2 DEF Report
    <2>2. CASE Len(results) = 1
        BY <1>1, <1>2, <2>1, <2>2 DEF Report, RInv
    <2>3. CASE Len(results) > 1
        <3>0. Len(results) /= 1
            <4>1. results \in Seq(ResultRec)
                BY IInvResultRec DEF RInv
            <4>2. Len(results) \in Nat /\ Len(results) >= 2
                BY <2>3, <4>1
            <4>3. \A m \in Nat : m >= 2 => m /= 1
                OBVIOUS
            <4> QED
                BY <4>2, <4>3, Zenon
        <3>1. ranking' = <<FirstMin(results), FirstMax(results)>>
            <4>1. \/ Len(results) = 1 /\ UNCHANGED ranking
                  \/ Len(results) > 1 /\ ranking' = <<FirstMin(results), FirstMax(results)>>
                BY <1>2 DEF Report
            <4> QED
                BY <3>0, <4>1, Zenon
        <3>2. ranking' /= <<>>
            BY <3>1
        <3> QED
            BY <1>1, <2>1, <2>3, <3>1, <3>2 DEF RInv
    <2> QED
        BY <1>2, <2>2, <2>3 DEF Report
<1>3. CASE Start \/ AnalyzeOne \/ EndLoop
    <2>1. pc /= "done" /\ ranking' = ranking
        BY <1>3 DEF Start, AnalyzeOne, EndLoop
    <2> QED
        BY <1>1, <2>1 DEF RInv
<1>4. CASE UNCHANGED vars
    BY <1>1, <1>4 DEF vars, RInv
<1> QED
    BY <1>2, <1>3, <1>4 DEF Next

\* In every state of the invariant, the ranking brackets every usable file.
LEMMA RInvRanking == RInv => RankingBracketsAllFiles
<1> SUFFICES ASSUME RInv, ranking /= <<>>, NEW f \in UsableFiles
             PROVE  /\ LeqQ(results[ranking[1]].heap_ratio, RatioOf(f))
                    /\ LeqQ(RatioOf(f), results[ranking[2]].heap_ratio)
    BY DEF RankingBracketsAllFiles
<1>1. pc = "done" /\ Len(results) > 1 /\ ranking = <<FirstMin(results), FirstMax(results)>>
    BY DEF RInv
<1>2. results \in Seq(ResultRec) /\ results /= <<>>
    BY <1>1, IInvResultRec DEF RInv
<1>3. PICK j \in 1..Len(results) : results[j].file = f
    <2>1. FilesOf(results) = UsableFiles
        BY <1>1 DEF RInv, IInv
    <2> QED
        BY <2>1 DEF FilesOf
<1>4. results[j].heap_ratio = RatioOf(f)
    BY <1>3 DEF RInv, IInv, RatioOf
<1>5. LeqQ(results[FirstMin(results)].heap_ratio, results[j].heap_ratio)
    BY <1>2, FirstMinSpec
<1>6. LeqQ(results[j].heap_ratio, results[FirstMax(results)].heap_ratio)
    BY <1>2, FirstMaxSpec
<1> QED
    BY <1>1, <1>4, <1>5, <1>6

(***************************************************************************)
(* Ranking for analyze_results.py main: for every set of files and         *)
(* contents and every glob() order, the file reported as best has a        *)
(* heap_ratio no greater than that of any usable file, and the worst one   *)
(* no smaller.                                                             *)
(***************************************************************************)
THEOREM RankingTheorem == Spec => []RankingBracketsAllFiles
BY InitRInv, NextRInv, RInvRanking, PTL DEF Spec


\* Every step from a state of the invariant that ends main takes the no-data
\* exit exactly when no found file is usable.
LEMMA NextExitStep ==
    IInv /\ [Next]_vars =>
        [ExitStep => (outcome' = "no_data" <=> UsableFiles = {})]_vars
<1> SUFFICES ASSUME IInv, [Next]_vars, ExitStep
             PROVE  outcome' = "no_data" <=> UsableFiles = {}
    OBVIOUS
<1>1. UsableFiles \subseteq found
    BY DEF UsableFiles
<1>2. CASE Start
    <2>1. found = {} /\ outcome' = "no_data"
        BY <1>2 DEF Start, ExitStep
    <2> QED
        BY <1>1, <2>1
<1>3. CASE EndLoop
    <2>1. pc = "loop" /\ pending = {} /\ results = <<>> /\ outcome' = "no_data"
        BY <1>3 DEF EndLoop, ExitStep
    <2>2. FilesOf(results) = UsableFiles \ pending
        BY <2>1 DEF IInv
    <2>3. FilesOf(results) = {}
        BY <2>1 DEF FilesOf
    <2> QED
        BY <2>1, <2>2, <2>3
<1>4. CASE Report
    <2>1. outcome' \in {"ok", "crashed"} /\ Len(results) >= 1
        BY <1>4 DEF Report
    <2>2. results[1].file \in UsableFiles
        BY <2>1 DEF IInv
    <2> QED
        BY <2>1, <2>2
<1>5. CASE AnalyzeOne \/ UNCHANGED vars
    BY <1>5 DEF AnalyzeOne, vars, ExitStep
<1> QED
    BY <1>2, <1>3, <1>4, <1>5 DEF Next

(***************************************************************************)
(* Exit decision of analyze_results.py main: for every set of files and    *)
(* contents and every glob() order, the step that ends main takes the      *)
(* "No valid results" exit exactly when no found file has a usable         *)
(* content, so a file that raises in the loop never hides another.         *)
(***************************************************************************)
THEOREM NoDataExitTheorem == Spec => NoDataExitIffNoUsableFile
BY InitIInv, NextIInv, NextExitStep, PTL DEF Spec, NoDataExitIffNoUsableFile

=============================================================================
