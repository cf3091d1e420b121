# TLA+ models of the benchmark telemetry scripts

This directory holds a model-checked and partly machine-proved TLA+ development
of the four Python scripts under `src/scripts/`. The scripts read the memory
telemetry of messaging-client benchmark runs, reduce it to summaries, and
compare and rank the runs.

## The system and its parts

| Part | Source | Module | Status |
|---|---|---|---|
| Delimited-text adapter and reducer: `analyze_rss` and its copy `load_external_rss` | `analyze-external-rss.py:6-38`, `compare-results.py:14-40` | `ExternalRss` (loop), `RssSummarySpec` (contract) | modelled |
| `analyze-external-rss.py` command line (`main`) | `analyze-external-rss.py:40-63` | `ExternalRssMain` (composed with `ExternalRss`) | modelled (printing left out) |
| Timeline adapter and ranker: `analyze_file` and `main` | `analyze_results.py:19-113` | `AnalyzeResults` | modelled |
| Two-run comparison: `load_stats`, `print_comparison`, `main` | `compare-results.py`, `compare-queue.py` | `CompareReport` | modelled |
| Formatting: `format_bytes`, `format_mb`, table layout | all | none | not modelled (pure string output) |

How the parts interact:
- `compare-results.py` calls its own copy of the delimited-text loop (`load_external_rss`). `ExternalRss` models both copies, with the caller as the constant-like variable `reader`.
- `CompareReport` takes as input what `load_external_rss` returns: None or a value whose `max` it reads.
- `analyze_results.py` and the comparison scripts both read `stats_*.json` from `results/`, but they expect different schemas:
  - `analyze_results.py` expects a flat list of samples.
  - the comparison scripts expect an object with a `summary` entry.

  Each model therefore has a content value for "the other schema":
  - `Malformed` in `AnalyzeResults`: `analyze_file` raises on it and the file is skipped.
  - `NoSummary` in `CompareReport`: `['summary']` raises on it and `main` dies.

The scripts are single-threaded, with no callbacks and no persistence. What can go wrong lies in these places:
- the order in which things are met: lines of a file, files from `glob()`;
- skip-and-continue paths;
- numeric edge cases;
- exceptions that escape.

Each model therefore takes one loop iteration as one step, so that every prefix of a loop is a state the properties see.

## Modules

- **`ExternalRss`**: the line loop of `analyze_rss` / `load_external_rss`.
  - A line is abstracted to what the loop body tests:
    - whether it is blank after `strip()`;
    - whether it starts with `timestamp`;
    - whether its first field *is* `timestamp` (the spec's header);
    - the field count, capped at 3;
    - the result of `int(parts[2])`: an integer or `NotInt`.
  - Actions:
    - `Open`: a missing file gives None from `load_external_rss` and an uncaught exception from `analyze_rss`.
    - `KeepSample`, `SkipLine`: one iteration each.
    - `EndOfFile`.
    - `Reduce`: `if not rss_values: return None`, else the summary.
  - Float divisions are exact rationals `Q(num, den)`, so `avg` is exact.
  - `min` and `max` come from `FiniteSetsExt`, and `sum` is a `FoldLeft`.
- **`AnalyzeResults`**: `analyze_file` and `main` of `analyze_results.py`.
  - A file's content is one of:
    - `Falsy`;
    - `Malformed` (invalid JSON, or the summary schema);
    - a non-empty list of samples, each with `heap_alloc`, `message_bytes` and whether every key is present.
  - Actions:
    - `Start`: the directory and `glob` exits.
    - `AnalyzeOne`: one iteration of the loop, over any remaining file. This is the nondeterministic `glob()` order.
    - `EndLoop`: "No valid results".
    - `Report`: `min`/`max` by `heap_ratio` with first-seen tie-breaks, then `worst / best`, which crashes when `best` is 0.
- **`CompareReport`**: both comparison scripts, with `script` choosing which one.
  - A stats file is `Missing`, `Falsy`, `Malformed`, `NoSummary`, or a summary reduced to `max_heap_alloc`, `avg_heap_alloc`, `max_rss` and `message_bytes`.
  - Actions:
    - `Load`: `json.load` may raise.
    - `Check`: `main`'s `not a and not b` exit.
    - `PrintComparison`: `['summary']` may raise; otherwise savings, external savings and amplification exactly as the code computes them, the `/1024/1024` kept.
- **`RssSummarySpec`**: the abstract contract of `analyze_rss` / `load_external_rss`: one atomic `Return` step from `running` to `done` (None or the summary of the valid lines' values) or `crashed` (a missing file read by `analyze_rss`), weakly fair. Its `Values(ls)` numbers the valid lines by the increasing map `Numbering(ls)` from `1..n` onto their indices, and takes their third fields in that order: the list the loop builds, stated without `SelectSeq` or `Cardinality` so that the refinement proof can unfold it. The safety part is `ASafeSpec`, and `ASpec` adds fairness. `ExternalRss` is shown to implement it (`RssAdapter`, below).
- **`ExternalRssMain`**: `main` of `analyze-external-rss.py` composed with the `analyze_rss` call. `argc` is `len(sys.argv)`, `mpc` where `main` is.
  - `CheckArgs`: the usage exit for fewer than two arguments.
  - `CallStep`: one step of `ExternalRss` (reader fixed to `analyze_rss`) while `main` waits for the call.
  - `Return`: a traceback for the uncaught `FileNotFoundError`, the "No valid RSS data found" exit for None, or the printed summary.
- **`MinMaxTheorems`**: lemmas that `Min`/`Max` of a finite non-empty set of integers exist, are members of the set and bound it.
- **`ExternalRssProofs`, `ExternalRssMainProofs`, `AnalyzeResultsProofs`, `CompareReportProofs`**: the TLAPS proofs about each component; **`RssRefinementProofs`**: the proof that the loop implements the safety part of `RssSummarySpec`.
- **`MC*.tla` / `*.cfg`**: the model-checking instances.

## Runs

| Run | Module / cfg | Expect | Checks |
|---|---|---|---|
| `external_rss` | `MCExternalRss` / `MCExternalRss.cfg` | pass | `SamplesFromValidLines`, `EmptyResultIffNoSample`, `MinAvgMaxOrdered` |
| `external_rss_header` | `MCExternalRss` / `MCExternalRssHeader.cfg` | violation | `HeaderIsFirstFieldOnly` |
| `analyze_results` | `MCAnalyzeResults` / `MCAnalyzeResults.cfg` | pass | `ResultsAreUsableFiles`, `RankingBracketsAllFiles`, `NoDataExitIffNoUsableFile` (action) |
| `analyze_zero_ratio` | `MCAnalyzeResults` / `MCAnalyzeResultsZeroRatio.cfg` | violation | `OnlyNoDataExitsNonZero` |
| `compare_report` | `MCCompareReport` / `MCCompareReport.cfg` | pass | `MissingArtifactNotFatal`, `SavingsRelativeToBaseline` |
| `compare_amplification` | `MCCompareReport` / `MCCompareReportAmplification.cfg` | violation | `AmplificationPerRun` |
| `compare_crash` | `MCCompareReport` / `MCCompareReportCrash.cfg` | violation | `NoUncaughtException` |
| `external_rss_negative` | `MCExternalRss` / `MCExternalRssNegative.cfg` | violation | `SamplesNonNegative` |
| `external_rss_refinement` | `MCExternalRss` / `MCExternalRssRefinement.cfg` | pass | `RssAdapter` (temporal) |
| `external_rss_main` | `MCExternalRssMain` / `MCExternalRssMain.cfg` | pass | `ExitStatusByData` |

What the passing runs show:
- **`external_rss`**:
  - At the end of the loop, the kept values are exactly the third fields of the valid lines, in file order.
  - The result is None exactly when there is no valid line, and otherwise `sample_count` is their number.
  - `min` and `max` are kept values that bound all of them, and `min <= avg <= max` holds in MB.
  - This holds for both readers, for a file that exists or not, and for every file of up to `MaxLines = 3` lines built from:
    - a blank line;
    - a header;
    - garbage;
    - a short line;
    - a bad integer;
    - data values 0, 1 and 3.

  Three lines let a valid line sit before, between and after invalid ones. Three values give distinct minimum, maximum and non-integer average.
- **`analyze_results`**:
  - Whatever order `glob()` yields three files in, the results hold exactly one summary per usable file.
  - Files that are falsy or raise are skipped without ending the loop.
  - The reported best and worst bracket the heap ratio of every usable file.
  - The step that ends `main` takes the "No valid results" exit exactly when no found file is usable (an action property over the exit step). A file that raises never hides a usable file visited after it: the mutant whose `try` wraps the whole loop breaks this.
  - The sample set has these heap ratios:
    - 0 (message_bytes 0);
    - 1/2;
    - 2;
    - 1 (a list whose peak is not its final sample);
    - an incomplete sample.

  With these, ties, a peak that differs from the final sample, and the zero ratio all occur. Symmetry over the file names is sound because nothing but the printed table depends on them.
- **`compare_report`**:
  - `main` exits 1 exactly when neither stats file has data.
  - Savings are reported exactly when both have data.
  - Each saving is `baseline - variant` in MB, with a percentage that takes the baseline to the variant, 0 for a zero baseline and 0 for equal runs.

- **`external_rss_refinement`**: under `FairSpec` (`Spec /\ WF_vars(Next)`), every behaviour of the line loop is a behaviour of `RssSummarySpec!ASpec` under the mapping `status = IF pc \in {"done", "crashed"} THEN pc ELSE "running"` (the other variables map to themselves). The loop's `Open` on an existing file, `KeepSample`, `SkipLine` and `EndOfFile` are stutters of the contract; `Reduce`, and an `Open` of a missing file, are its `Return`. The check covers both the safety part (the loop returns exactly the contract's value) and the contract's fairness (every call returns or raises). Without `WF_vars(Next)` the temporal part fails, as it should: a stopped process never returns.
- **`external_rss_main`**: `analyze-external-rss.py` exits 0 exactly when it was given a file (`argc >= 2`) that exists and has a valid sample line, for 1 to 3 arguments and every file of up to 3 lines.

Fairness. Each script is one thread that runs its next statement unless it has ended; no step waits on another process, a lock or input. Weak fairness of the whole next-state relation (`WF_vars(Next)`) says exactly that, and nothing stronger is assumed. It is used only by `external_rss_refinement`, for the contract's promise that a call returns. That `main` of `analyze_results.py` ends is not checked: its loop is a `for` over the finite list `glob()` returned, with no retry, so it ends by its shape.

The violation runs are the findings below.

Each passing property has a mutant in `PROJECT.json`: a plausible bug in the mapped code that TLC catches with the property. Each mutant's operator is defined just before the definition it replaces.
- `SummaryFirstIsMin`: `min` taken as the first value.
- `SkipLineBreakOnError`: `break` in place of `continue`.
- `ReduceCountingLines`: lines counted in place of samples.
- `AnalyzeOneAbortOnError`: `try` around the whole loop.
- `FirstMaxByHeap`: the wrong sort key.
- `CheckEitherMissing`: `or` in place of `and`.
- `SavingsAgainstVariant`: the wrong denominator.
- `SkipLineBreakOnError` also breaks `RssAdapter`: the loop then returns a value the contract does not.
- `ReturnNoNoneCheck`: `main` without its `if result is None` exit, printing `null` with status 0.

## Findings

1. **Header is a prefix test.** At `analyze-external-rss.py:13` and `compare-results.py:23`, `line.startswith('timestamp')` also drops data rows whose first field merely begins with `timestamp`. The spec skips only a first field equal to `timestamp`. Run: `external_rss_header`.
2. **ZeroDivisionError in the ranking.** At `analyze_results.py:113`, if a usable file ends with `message_bytes == 0`, line 37 gives it ratio 0. When there are at least two files it becomes `best`, and `worst / best` crashes. The spec requires a DegenerateComparison signal and allows a non-zero exit only for NoDataAvailable. Run: `analyze_zero_ratio`.
3. **Amplification against the wrong volume.** At `compare-results.py:189-194` and `compare-queue.py:130-135`, the variant's peak is divided by the baseline's `message_bytes`. The spec defines amplification per run, and 0 for a zero volume, where the code omits it. Run: `compare_amplification`.
4. **Uncaught exceptions in the comparison scripts.** Invalid JSON raises at `json.load` (line 12). A flat timeline list, or an object without `summary`, raises at `['summary']` (line 56 or 76). The spec says adapters never raise. Run: `compare_crash`.
5. **Negative RSS values are accepted.** At `analyze-external-rss.py:18` (and `compare-results.py:28`) `int(parts[2])` parses `-1`, so a negative `rss_kb` is kept and can become `min_rss_kb`. The spec's data model says `rss_kb >= 0`, but its line-validity rule does not reject negatives: a gap in the spec more than a code bug. Run: `external_rss_negative`.

## Proofs (TLAPS)

`ExternalRssProofs` proves, for every `LineSet`, `MaxLines` and `NotInt` allowed by `LinesAssumption`:
- `TypeCorrect`: `Spec => []TypeOK`;
- `EmptyResultTheorem`: `Spec => []EmptyResultIffNoSample`.

`EmptyResultIffNoSample` is not inductive on its own. It is proved from the inductive invariant `IInv`, which adds:
- `Len(rss_values)` equals the number of valid lines among the first `i - 1`;
- `rss_values` is empty before the file is opened;
- `result` stays None until `Reduce`;
- `i = Len(lines) + 1` once the loop has ended with an existing file;
- at `done`, `result` is None exactly when `rss_values` is empty.

`IInv` was checked with TLC before it was proved.

The proof has one step per action of `Next`. The counting step rests on the lemma `SampleIdxStep`: extending the prefix by one line adds one element to the set of valid indices exactly when that line is valid. It uses `FS_AddElement` and `FS_Subset`.

The type proof needs `Summary` to have integer `min`/`max` and a positive count. This rests on the `MinMaxTheorems` lemmas:
- `MinMaxOfList`;
- `MinExists` and `MaxExists`, proved without induction: the element with the fewest smaller elements, obtained by well-founded minimality of `<` on `Nat`, is the minimum.

`ExternalRssMainProofs` proves `ExitStatusTheorem`: `MainSpec => []ExitStatusByData`. Its invariant `MIInv` is the loop's `IInv` (every `main` step is a step or a stutter of the loop: lemma `MainStepIsLoopStep`), plus: `reader` stays `analyze_rss`; a running loop or a returned call means the file exists, a raised one that it does not; and once `main` has exited, its outcome records how the argument check and the call ended. The link from the outcome to the file's samples is `IInvEmptyResult`, the step of `EmptyResultTheorem` stated as a lemma of `ExternalRssProofs`.

`AnalyzeResultsProofs` proves `ResultsTheorem`: `Spec => []ResultsAreUsableFiles`, for every finite set of files and every content allowed by `ContentsAssumption`. The property speaks only of the end of the loop. The inductive invariant states what holds at every step:
- `results` covers exactly the usable files that are no longer pending;
- nothing is pending before the loop or after it;
- every entry of `results` is `AnalyzeFile` of its own file, and no file appears twice.

The `AnalyzeOne` step is split on whether the visited file is usable, and uses that the visited file was pending. The steps that leave `results` alone share the lemma `FrameIInv`.

`CompareReportProofs` proves, for every `Stats` and `ExtMax` allowed by `StatsAssumption`:
- `MissingArtifactTheorem`: `Spec => []MissingArtifactNotFatal`;
- `SavingsTheorem`: `Spec => []SavingsRelativeToBaseline`.

Their invariant links each exit status to the condition on the two stats files that led to it. It also shows that a non-None report is exactly `Comparison(base, variant, ...)` of two summary records. A malformed file cannot reach `print`, which is why this holds. The arithmetic is the lemma `SavingsLemma`, proved by SMT: `b*100*b - b*((b-v)*100) = v*100*b`.

`ExternalRssProofs` also proves:
- `SamplesTheorem`: `Spec => []SamplesFromValidLines`;
- `MinMaxTheorem`: `Spec => []MinMaxBracketSamples`, the min/max half of `MinAvgMaxOrdered`.

`SamplesFromValidLines` says that `rss_values` is read off the valid lines in file order. It is stated with `ReadOff(ls, vals, S)`: there is an increasing map from the positions of `vals` onto the index set `S` that gives each value's line. This says what `SelectSeq(lines, IsSample)` gives, and TLC checks it the same way. The prover cannot unfold `SelectSeq`, which is a recursive function definition: its fixpoint equation comes from a library theorem with an operator parameter.

The inductive invariant `SInv` is `IInv` plus `ReadOff` over the valid lines among the first `i - 1`. The proof handles the loop steps as follows:
- `KeepSample` extends the map by the new index `i`, using `SampleIdxExtend` for the index sets;
- `SkipLine` keeps the map;
- the lemma `ReadOffIntro` turns an explicit map into `ReadOff`.

`MInv` adds to `SInv`:
- the loop runs only on an existing file;
- a result other than None is `Summary(rss_values)` of a non-empty list.

`ReadOffToSet` turns `ReadOff` into `ToSet(rss_values) = SampleValues`, and `MinMaxOfList` finishes the proof. `SInv` and `MInv` were checked with TLC on the `external_rss` instance before they were proved.

`AnalyzeResultsProofs` also proves:
- `RankingTheorem`: `Spec => []RankingBracketsAllFiles`;
- `NoDataExitTheorem`: `Spec => NoDataExitIffNoUsableFile`, an action property.

`RankingTheorem` rests on the following:
- `LeqQ` is total and transitive on rationals with a positive denominator (`LeqQTotal`, `LeqQTrans`);
- the `CHOOSE` in `FirstMin` / `FirstMax` is satisfiable, and the chosen index bounds every ratio (`FirstMinSpec`, `FirstMaxSpec`). The argument takes the indices of minimal ratio, obtained by counting the strictly smaller ones and taking the least count with `LeastNat`, and then the least such index;
- every result is a `ResultRec` (`AnalyzeFileType`).

Its invariant `RInv` adds to `IInv` that a non-empty ranking is set only at `done`, over more than one result, to `<<FirstMin(results), FirstMax(results)>>`.

`NoDataExitTheorem` follows from `IInv` alone, with one case per action:
- `Start` exits only when `glob()` found nothing;
- `EndLoop` exits only with an empty `results`, which covers every usable file once nothing is pending;
- `Report` has at least one result, whose file is usable.

`RssRefinementProofs` proves `RefinementTheorem`: `Spec => Adapter!ASafeSpec`. This is the safety part of the refinement that `external_rss_refinement` checks, for every `LineSet`, `MaxLines` and `NotInt`. It follows the usual layout: `RefineInit` shows that the initial states map to `AInit`, and `RefineStep` shows that, from a state of `MInv`, every step is a `Return` or a stutter of `avars`:
- `Open` on an existing file, `KeepSample`, `SkipLine` and `EndOfFile` leave `status` at `running` and `result` at None;
- `Open` of a missing file is the second or third disjunct of `Return`;
- `Reduce` is its first disjunct.

The `Reduce` case needs the loop's list to be the contract's `Values(lines)`. `MInv` gives it as `ReadOff(lines, rss_values, SampleIndices)`, and `ReadOffIsValues` turns that into `Values(lines)`. It rests on three lemmas about increasing maps onto a set of naturals:
- such a map numbers the set, so the set has as many elements as the map's domain (`IncreasingOntoCard`, through `FS_CountingElements`);
- the element at position `l` has exactly `l` elements up to it (`IncreasingOntoRank`);
- two such maps are equal (`IncreasingOntoUnique`).

The contract's `Reduced` is the loop's `Summary` once the folds are unfolded on both sides (`SummaryIsReduced`). The contract avoids `Cardinality`, because the prover does not identify the instantiated `Adapter!Cardinality` with the built-in one.

Only model-checked, and why:
- **The avg half of `MinAvgMaxOrdered`.** The avg fields are a `FoldLeft` sum. To show `min <= avg <= max` one needs what the fold computes for every input, which takes induction over the sequence. The installed provers cannot instantiate the library's induction theorems, which take an operator parameter. `TypeOK` therefore types `min`, `max` and the count, but not the avg fields.
- **Liveness.** The fairness half of `RssAdapter` (every call returns or raises) is checked by TLC only. They rest on fairness and `ENABLED`, which TLAPS cannot handle. The safety half of `RssAdapter` is `RefinementTheorem`.

## Not modelled

- Printing, table layout and number formatting (`format_bytes`, `format_mb`, f-strings).
- Argument parsing beyond the argument count, and the `json` / `text` output choice of `analyze-external-rss.py`.
- The `rss`, `message_count`, `batch_count`, `num_gc` and `gc_pause_ms` fields. No decision depends on them.
- Float rounding. Quotients are exact rationals, so a property that fails only through float rounding is not seen. No such failure is expected here: `min`, `max` and `avg` of integers are ordered under IEEE rounding too, as a monotone division keeps the order, so `MinAvgMaxOrdered` checks the reductions and the filter rather than rounding.
