--------------------------- MODULE MCAnalyzeResults ---------------------------
(***************************************************************************)
(* Model of AnalyzeResults for TLC: three stats files, each falsy,         *)
(* malformed, or a list of one or two samples.                             *)
(***************************************************************************)
EXTENDS AnalyzeResults, TLC

CONSTANTS f1, f2, f3

MCFiles == {f1, f2, f3}

MCSample(h, mb, ok) == [heap_alloc |-> h, message_bytes |-> mb, complete |-> ok]

\* Samples giving ratios 0 (message_bytes = 0), 1/2, 2 and a sample with a
\* missing key.
MCSamples == {MCSample(1, 0, TRUE), MCSample(1, 2, TRUE), MCSample(2, 1, TRUE),
              MCSample(1, 1, FALSE)}

MCContents == {Falsy, Malformed} \cup (BoundedSeq(MCSamples, 2) \ {<<>>})

\* Nothing depends on the names of the files.
MCSymmetry == Permutations(MCFiles)

=============================================================================
