---------------------------- MODULE RssSummarySpec ----------------------------
(***************************************************************************)
(* What analyze_rss and load_external_rss promise their callers, as one    *)
(* atomic step: for an existing file, None when no line yields a value,    *)
(* else the min / max / avg summary of the values of the valid lines in    *)
(* file order; for a missing file, None from load_external_rss and an      *)
(* uncaught FileNotFoundError from analyze_rss.  The call returns.         *)
(*                                                                         *)
(* Lines are abstracted as in ExternalRss, whose loop implements this      *)
(* specification (see ExternalRss, RssAdapter).                            *)
(***************************************************************************)
EXTENDS Integers, Sequences, SequencesExt, FiniteSets

CONSTANTS LineSet, MaxLines, NotInt

VARIABLES
    reader,     \* analyze_rss or load_external_rss
    exists,     \* whether the file exists
    lines,      \* the content of the file
    status,     \* "running", "done" or "crashed"
    result      \* None or the summary returned

avars == <<reader, exists, lines, status, result>>

NoResult == [absent |-> TRUE]

\* A line the loop keeps: not blank, not starting with "timestamp", at
\* least 3 fields and an integer third field.
ValidLine(l) ==
    ~l.blank /\ ~l.startsTs /\ l.nfields >= 3 /\ l.third /= NotInt

\* The indices of the valid lines of ls.
ValidIdx(ls) == {k \in 1..Len(ls) : ValidLine(ls[k])}

\* The numbering of the valid lines: the increasing map from 1..n onto
\* their indices.
Numbering(ls) ==
    CHOOSE e \in UNION {[1..n -> ValidIdx(ls)] : n \in 0..Len(ls)} :
        /\ \A j, k \in DOMAIN e : j < k => e[j] < e[k]
        /\ \A k \in ValidIdx(ls) : \E j \in DOMAIN e : e[j] = k

\* The int(parts[2]) values of the valid lines, in file order.
Values(ls) == [j \in DOMAIN Numbering(ls) |-> ls[Numbering(ls)[j]].third]

\* The returned dict for a non-empty list s of values.
Reduced(s) ==
    LET lo == Min(ToSet(s))
        hi == Max(ToSet(s))
        total == FoldLeft(LAMBDA a, b : a + b, 0, s)
    IN  [sample_count |-> Len(s),
         min_rss_kb   |-> lo,
         max_rss_kb   |-> hi,
         avg_rss_kb   |-> [num |-> total, den |-> Len(s)],
         min_rss_mb   |-> [num |-> lo, den |-> 1024],
         max_rss_mb   |-> [num |-> hi, den |-> 1024],
         avg_rss_mb   |-> [num |-> total, den |-> Len(s) * 1024]]

AInit ==
    /\ reader \in {"analyze_rss", "load_external_rss"}
    /\ exists \in BOOLEAN
    /\ lines \in BoundedSeq(LineSet, MaxLines)
    /\ status = "running"
    /\ result = NoResult

\* The call, from opening the file to its return statement.
Return ==
    /\ status = "running"
    /\ \/ /\ exists
          /\ status' = "done"
          /\ result' = IF Values(lines) = <<>> THEN NoResult
                                                ELSE Reduced(Values(lines))
       \/ /\ ~exists
          /\ reader = "load_external_rss"
          /\ status' = "done"
          /\ UNCHANGED result
       \/ /\ ~exists
          /\ reader = "analyze_rss"
          /\ status' = "crashed"
          /\ UNCHANGED result
    /\ UNCHANGED <<reader, exists, lines>>

\* What the call may do: return the summary, None, or raise.
ASafeSpec == AInit /\ [][Return]_avars

\* The call is made by a running single-threaded script: it completes.
ASpec == ASafeSpec /\ WF_avars(Return)

=============================================================================
