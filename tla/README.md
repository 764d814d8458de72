# TLA+ models of the TEE-Bench experiment pipeline

This directory holds TLA+ models of the Python experiment scripts of TEE-Bench
(`scripts/`, `scripts/helpers/`). The scripts build the benchmark executable
(`app`), run it repeatedly per configuration, scrape metrics out of its console
output, average the repetitions and append one CSV row per configuration.
The executable, `make` and the plotting code are external collaborators.

Everything here is checked with TLC; `PROJECT.json` lists every run, the
mutants that show each property can fail, the source lines every definition
models, the findings and the hazards.

## 1. Inventory

The repository has about 40 near-duplicate scripts. The same five parts are
repeated in every one of them.

| Part | Where | State it keeps | Operations |
|---|---|---|---|
| **Dispatcher** | `scripts/benchmark.py` | experiment id, `-r` argument, cwd | `read_args`; `run_experiment` maps an id to a helper script and runs it with `os.system`; `all` runs every id in turn |
| **Build** | `commons.compile_app`, `make_app`, `make_app_with_flags`, `make_app_radix_bits` | the one `app` binary in the repo root | `make clean`, then `make -B native|sgx CFLAGS=...`; the mode name picks target and `-D` flags |
| **SweepController** | `__main__` of every experiment script | loop indices over modes × datasets × algorithms × (threads, sizes, selectivities, ...) | read `config.yaml` and `-r`; `remove_file`; `init_file`; one `compile_app` per mode; one `run_join` per point; plot |
| **ProcessRunner** | `subprocess.check_output(PROG + flags, shell=True)` in every `run_join` | none | run `app`; a non-zero exit raises `CalledProcessError`, which nothing catches |
| **MetricExtractor** | the `for line in stdout.splitlines()` loop of every `run_join` | `throughput_array`, `dic_phases`, `results`, `ewbs`; in the counter scripts `dict`, `phase`, `name` (Phase objects) | match a marker substring, convert a number (`re.findall(...)[k]`, `int()`, `float()`), append it to a list |
| **TrialAggregator** | the tail of every `run_join` | the sample lists | `statistics.mean`; trim one max and one min when `reps > 3` (or `> 4`); `sum / reps`; `-1` sentinel; `0` default; `round(x, 2)` |
| **ResultStore** | `commons.remove_file`, `commons.init_file`, `open(f, 'a')` + `write` + `close` in `run_join` | the CSV file: header line + rows | delete if present; create with mode `"x"` and write header; append rows |
| Plotting | `plot*()`, `commons.color_*`, `savefig` | — | read the CSV back with `csv.DictReader`, look up columns by name, draw figures (the drawing is not modelled) |

**How they interact.** Everything is one sequential Python process per
experiment script (spec section 5); the dispatcher starts each script as a child
with `os.system` and ignores its exit status. Inside a script the only shared
state is the CSV file (written by `init_file` and by every `run_join`) and the
`app` binary (written by `compile_app`, read by every run). The extractor and
aggregator share the in-memory sample lists of one `run_join`.

**What is hard here.** Not threads: the hard behaviours are

* *parser state carried across lines and across runs*: in the counter scripts
  (`helpers/exp4-...`, `multi-threading-all-data-at-once.py`) the local
  `phase` is an alias of a Phase object that stays bound after `end====` and
  into the next run, and `dict[name] = phase` stores an alias, not a copy;
* *failure in the middle of a sweep*: any exception (`CalledProcessError`, a
  parse `IndexError`/`ValueError`, `StatisticsError` on an empty list) ends the
  whole script; rows already appended stay, the rest never run, and a re-run
  deletes the file and starts over (there is no resume);
* *aggregation at the edges*: zero samples, fewer samples than `reps`, trimming
  that is keyed on `reps` instead of on the number of samples (dead in the
  live scripts, which fix `reps` at 3 or 1), `sum / reps`;
* *crash between write and close* of a row, and re-runs of the same sweep.

**What makes each part correct** (the properties the models check):

* MetricExtractor: every sample is attributed to the group that was open when
  it was printed, none is lost, and a bad line drops one sample, never the run.
* TrialAggregator: the row value is the mean of the (trimmed) samples; zero
  samples give an error or an explicit sentinel, never a silent 0.
* ResultStore/SweepController: the file starts with its header, holds at most
  one row per configuration point, every row of mode *m* was measured with a
  binary built for *m*, rows of completed points survive a crash, and a sweep
  without failures eventually writes every point.
* Dispatcher: a failed experiment is reported.

## 2. Plan

Modules, in the order they are built (most important behaviour first):

1. `MetricExtractor` — the counter-block parser and aggregation of
   `helpers/exp4-performance-counters-experiment-SUDO.py` `run_join`, with the
   spec's extractor (section 4.2) carried as ghost state so the code's rows are
   compared with the spec's grouping. **Done.**
2. `TrialAggregator` — the trial loop of the throughput `run_join`s with each
   aggregation policy the scripts use (mean, trimmed mean with threshold 3 or
   4, `sum/reps`, `-1` sentinel, `0` default) as operators, against a
   reference of the spec's trimmed mean (sort, drop the ends) over bounded
   sample values. **Done.**
3. `ResultStore` (abstract: the file is a header followed by an append-only
   sequence of rows, reset only by `remove_file`) and `Sweep` (the `__main__`
   loop with `compile_app`, `run_join`, buffered write/close, process failure,
   crash and re-run), `Sweep` shown to implement `ResultStore` by
   `INSTANCE ... WITH` a refinement mapping (durable file content). **Done**
   for the sweep of `helpers/exp1`.
4. The `"Throughput"` / `"Phase <name>"` line parser of `helpers/exp1` and
   `exp8` (the same scan as `throughput-all-algs-native`), merged into
   `MetricExtractor` as a second family of scripts. **Done.** The per-phase
   trimming of `top-graph` and `exp11` is not modelled: their sweeps are
   commented out.
5. `Benchmark` — `benchmark.py` dispatching experiments (including `all`);
   a script is abstracted to its exit status. **Done.**
6. `Experiments` and `SweepController` — the per-script tables. Each
   experiment script's `__main__` becomes a record: where it runs, its
   header, its build tool and the loop level it builds at, its loops and
   constants. Its `run_join` becomes an operator giving the rows it appends.
   The build helpers (`compile_app`, `make_app*`) become operators from a
   mode to a target and flags. One generic controller steps any script
   through its flattened loop. Sessions run several scripts one after the
   other on one file system, and each `__main__`'s plots read the files
   back. **Done** for every script whose `__main__` runs a sweep, and for
   the three plot-only copies in `scripts/` whose file a live script writes.
7. `SweepController` shown to implement `ResultStore` per results path,
   across sessions of several scripts. **Done.**
8. Next: crash and re-run in the table controller, so that `Sweep` becomes
   one instance of it. Then the value conversions of the plots
   (`int(x['selectivity'])`, `float(...)`) against what `run_join` prints.

Runs (bounds in each `.cfg`; see section 4):

* `metric_wf` (pass), `metric_spec` (violation).
* `aggregate` (pass: mean, trim and sentinel reductions together),
  `aggregate_empty` (violation: `sum/reps` and exp0's `0` default).
* `sweep` (pass: invariants, refinement, liveness), `sweep_resume` (violation).
* `benchmark` (pass), `benchmark_status` (violation).
* `sweep_table` (pass), `sweep_table_schema` (violation), `sweep_table_cwd`
  (violation), `sweep_table_plot` (violation).

## 3. Modules

### MetricExtractor (`MetricExtractor.tla`, `MC_MetricExtractor.tla`)

One module for the line loops of `run_join`. A constant set `Scripts` and a
variable `script`, fixed in a behaviour, pick the family:

* `"exp4"`: `run_join` of `helpers/exp4-performance-counters-experiment-SUDO.py`
  (lines 31–87) and the `Phase` class (16–28), the counter-block parser.
* `"exp1"`: `run_join` of `helpers/exp1-off-the-shelf-performance.py`
  (19–52), which keeps the throughput samples and writes their mean.
* `"exp8"`: `run_join` of `exp8-phases-experiment.py` (23–53), which has the
  same scan and writes one row per phase in `dic_phases`.
* `"mtall"`: `run_join` of `multi-threading-all-data-at-once.py` (30–132).
  One loop tests the markers of both scans on every line (`ScanAllLine`,
  made of the same `CounterLine` and `WordLine` steps). `AggregateAll` then
  writes the throughput row, reduces the Phase objects (which may raise
  after that row is written), reduces `dic_phases` without writing it, and
  writes one row per Phase object. `__main__` passes `reps = 1`
  (`RepsOf`). A line is taken to carry the markers of one scan only.

Counter family:

* State: `pc` (where `run_join` is: running the app, scanning a line,
  aggregating, returned, raised), `error` (the exception), `rep`, `nLines`,
  `dict` (key → Phase object id), `heap` (object id → list of values per
  counter: the Phase objects), `phase` (object id or `Unbound`), `name`
  (`NoName` is `""`), `written` (the rows the second loop writes).
* Actions: `RunApp` (check_output succeeds and `name = ""`, or raises
  `CalledProcessError`), `ScanLine` with `ScanHeader` / `ScanCounter` /
  `ScanEnd` (the three marker branches of the line loop), `EndOfOutput`,
  `Aggregate` (both `dict.items()` loops: all means first, which raise on an
  empty list or on a second key aliasing an already reduced object, then one
  row per key), `Finished` (terminal stutter).
* Abstraction: 2 phase names, 2 counter kinds (the 7 branches are identical
  but for the list they append to), one value; a value is either well-formed or
  `Malformed`. The mean/round of a row is a function of its sample list, so
  rows are compared as sample lists.
* The app's output is chosen line by line. Three switches describe what the app
  may print: `ClosedBlocks`, `CountersInBlocks`, `ValidValues`.
* Ghost state `specOpen`, `specSeen`, `specSamples`: the spec's extractor.

Throughput/Phase family:

* A line is a sequence of words (at most `MaxWords`). A word is its text and
  the integer and float literals `re.findall` finds in it. `"0.5"` has the ints
  `0` and `5` and one float. `"Phases:"` contains `"Phase"` only as a substring.
  The marker tests `"Throughput" in line` are substring tests over the words.
* State: `throughput_array`, `dic_phases` (a sequence of name/values pairs in
  insertion order, as a Python dict iterates), `rows`.
* Actions: `ScanWordLine` is the whole loop body. The `Throughput` branch
  takes `findall(float)[1]` and raises `IndexError` below two floats. The
  `Phase` branch does `split`, `list.index("Phase")` (which raises
  `ValueError` when no word is exactly `Phase`), takes the next word and
  `findall(int)[-2]` (which raises `IndexError`), then the dict insert.
  `AggregateThroughput` is `statistics.mean`, which raises on an empty list,
  and the write. `AggregatePhases` is the `for x in dic_phases` write loop.
* Ghost state `lineSamples`, `lineDropped`: the spec's extractor over the
  same lines. It counts a line it cannot parse as dropped.

Runs:

* `metric_wf`: well-formed counter output (blocks closed, counters inside
  blocks, values parse), and any word lines. Scripts exp4, exp1, exp8 and
  mtall. 2 runs (1 for mtall), ≤ 7 lines per run, of which word lines
  (≤ 3 words) may be only the first 2.
  Two properties hold:
  * `ResultMatchesSpec` (exp4): the rows are exactly the spec's groups,
    with the values printed inside them across runs. The aggregation raises
    exactly when some group lacks a counter. This needs the Phase reuse
    across runs (`dict.get`): the mutant that allocates a fresh `Phase()`
    at every header loses the first run's values.
  * `CombinedOutcomeMatchesSpec` (mtall): a returned `run_join` wrote the
    spec's throughput row and exactly the spec's counter groups. A raised one
    failed in the app, on a really empty group, or on a line the spec counts
    as unparseable. When a counter group is empty, the throughput row has
    already been written. With `reps = 1` the Phase reuse that matters is
    within one run (two blocks of one phase). The mutant with a fresh
    `Phase()` at every header breaks it.
  * `OutcomeMatchesSpec` (exp1, exp8): a returned `run_join` wrote exactly
    the spec's groups, in first-seen order, with every run's samples. A
    raised one failed in the app, on an empty throughput list, or on a line
    the spec counts as unparseable. The mutant that overwrites
    `dic_phases[name]` instead of appending loses the first run's values.
* `metric_spec`: counters may appear outside blocks and values may be
  malformed, and `ResultMatchesSpec` is violated. Two things go wrong. A
  counter printed after `end====` (or at the start of the next run, before
  its first header) is appended to the last Phase object, because `phase` is
  never reset. And `int()`/`float()` of a bad value raise out of `run_join`
  and end the sweep. The spec drops such a sample instead. The same holds for
  the word family: every unparseable line ends the sweep, which
  `OutcomeMatchesSpec` pins down to exactly the spec's unparseable lines.

### TrialAggregator (`TrialAggregator.tla`, `MC_TrialAggregator.tla`)

Models the trial loop and the reduction of the throughput `run_join`s. The
variable `policy`, fixed in a behaviour and chosen from the constant set
`Policies`, picks the script family: `"mean"` (`helpers/exp1` lines
19–52 and the other mean scripts), `"trim"` (`helpers/scale-s-native` 25–29,
`Threshold` 3; `top-graph.py` uses 4), `"sum_over_reps"` (`exp10` 12–21),
`"sentinel"` (`helpers/exp6` 35–39), `"zero_default"` (`helpers/exp0` 55–57).

* State: `pc` (the line where `run_join` is: trial loop, reduction, returned),
  `error` (the exception that escaped there), `rep`, `samples` (the
  `throughput_array`/`results` list), `row` (the value written).
* Actions: `RunApp` (one trial: `CalledProcessError`, or the output's
  value lines, a line that does not convert raising `ParseError`),
  `RepsDone`, `Aggregate` (reduce, round, write), `Finished`.
* Data: a value is an integer number of 0.01 units, so a mean is an exact
  fraction and `round(x, 2)` is rounding to an integer; an exact tie may go
  either way (binary floats). `helpers/exp0` writes `str(mean)` unrounded.
* `RowIsSpecAggregate` compares the written value with the specification's
  aggregate computed independently: the samples sorted with `SortSeq`, the
  two ends dropped when trimming applies, the arithmetic mean of the rest.
  An empty group must raise or be written as the explicit sentinel.

Runs: `aggregate` passes. It covers the mean, trim and sentinel policies
with reps 4 > 3 and one line per trial. The values are 1, 2 and 9, so
duplicates, outliers and ties occur. `list.remove(max)` then
`list.remove(min)` agrees with dropping the sorted ends even with duplicates,
and the errors raised when fewer than three samples exist (trim is keyed on
`reps`, not on the sample count) occur only when the trimmed group is empty.
The trim policy is checked as an operator, but no live script reaches it:
`helpers/scale-s-native-experiment.py` fixes `reps = 3` (line 95) and
`multi-threading-all-data-at-once.py` fixes `reps = 1`. The root
`top-graph.py`, with `reps > 4`, has its sweep commented out.
`aggregate_empty` is a violation run over the `sum_over_reps` and
`zero_default` policies. Both write `0` for a configuration where no trial
printed a value.

### ResultStore and Sweep (`ResultStore.tla`, `Sweep.tla`, `MC_Sweep.tla`)

`ResultStore` is the specification's store (spec 4.4), not code: the file is
absent, created empty, given its header, extended by whole rows, or removed.

`Sweep` models the `__main__` of `helpers/exp1-off-the-shelf-performance.py`
(lines 129–137) with `commons.remove_file`, `commons.init_file`,
`commons.compile_app` and `run_join`'s file object.

* State: `file` (what the file system holds), `buffer` (what the Python file
  object holds until `close()`), `binary` (the mode the `app` was last built
  for, or none: `make clean` removes it), `next` (the point of the flattened
  `mode × (ds, alg)` loop), `pc`, `runs`, `faults`, and the ghost `startFile`
  (the file the current script found). Rows are `(mode, point)` plus a ghost
  `built`: the mode of the binary that measured them.
* Actions: `RemoveFile`, `InitFile` (`open "x"` creates the empty file, the
  header goes to the buffer), `InitClose`, `CompileApp` (builds, or fails and
  leaves no binary), `RunJoin` (the trials and `f.write`, or an exception),
  `CloseRow` (flush, next point, recompile on a mode change), `Crash` (kill:
  the buffer is lost, a kill inside `compile_app` may leave no binary),
  `Rerun` (the user starts the script again), `Finished`.
* Refinement: `Store == INSTANCE ResultStore WITH ...`. The file maps to
  itself. `IsRow` is a `LAMBDA` that accepts the rows of the sweep.
  `RefinesResultStore == Store!Spec` is checked as a PROPERTY. The store's
  `Initialise` step is `init_file`'s close, and `AppendRows` is a close that
  flushes rows.

Runs: `sweep` (2 modes × 2 points, 2 starts, 1 fault) passes
`CompletedPointsDurable` (the durable file is the header and exactly the
completed points in loop order, each measured by its own mode's binary, or
the file found before the removal), `RefinesResultStore`, and
`AllPointsEventuallyWritten`. `sweep_resume` violates `NoReexecution`: after
a kill the re-run removes the file and re-executes completed points.

### Benchmark (`Benchmark.tla`, `MC_Benchmark.tla`)

Models `scripts/benchmark.py`: `read_args` (lines 40–58), `run_experiment`
(101–151) and `__main__` (154–164).

* State: `argv` (chosen in `Init`, fixed), `pc`, `args` (the `-r` string),
  `queue` (ids not yet dispatched), `log` (the `os.system` calls and their
  exit statuses).
* `ScriptOf` is the if-chain of `run_experiment`; `ExitStatuses` says what a
  script can exit with: 0 or 1 if the file is in `helpers/`, else 2
  (`python3` cannot open it). `MC_Benchmark` lists the real ids and the files
  of `scripts/helpers` in this snapshot.
* `RunsAreTheSelection` (pass): exactly the selected ids that have a script
  run, once each, in list order; none after a rejected command line.
* `ExitStatusReflectsFailures` (violation): `f7 3` runs
  `exp8-phases-experiment.py`, which is not in `helpers/`; the dispatcher exits
  0 anyway. Six ids (f7, f8, f12, f14, f15, f18) are affected.

### Experiments and SweepController (`Experiments.tla`, `SweepController.tla`, `MC_SweepController.tla`)

`Experiments` is the data of the scripts, and it has no state.

* Build helpers. `CompileApp(mode)` gives the target and `-D` flags of
  `helpers/commons.compile_app`. `ModeDefines` is its if-chain over mode
  names. `MakeApp`, `MakeAppWithFlags` and `MakeAppRadixBits` model the root
  `commons`. `MakeUp(dir)` is how far up the directory tree `make` runs
  (`../../` from `helpers`, `../` from `scripts`).
* One `Main` record per script. It gives the directory, whether the script
  calls `remove_file`/`init_file`, the results file (`out`: levels of `../`
  and a name), the header, the build tool, the loop depth of the build, how
  far up the app is run, and the loops (the `config.yaml` lists cut to
  `LoopWidth` values). `plots` lists, for each plot function `__main__`
  calls, the columns it looks up (`ExpNPlot`). `PlotOnly` builds the record
  of a `scripts/` copy whose sweep is commented out. `ExpNRunJoin(b)` gives the rows
  `run_join` appends for a binding `b` of the loop variables. Each row is its
  columns plus the values of its key columns; measured values are abstracted.

`SweepController` runs a session: a sequence of scripts, one after the
other, as `benchmark.py all` or a user does. `Unroll` flattens a script's
loops into a list of events: `remove`, `init`, `build`, `run` and `plot`, in
the code's order.

* State: `script` and `todo` (the rest of the session), `cwd`, `pc`/`pos`
  (the position in the event list), `binary` (the build and the directory it
  is in, or none), `files` (per resolved path, the header line and rows
  appended, or absent), `error`. The files and the binary outlive a script.
* Actions: `RemoveFile`, `InitFile`, `Compile` and `RunJoin`. `EncryptedJoin`
  is top-graph's FHE tail. `Plot` models `open(fname, 'r')` (raising
  `FileNotFoundError`), `csv.DictReader` (the first line names the fields),
  and the `x['col']` lookups (raising `KeyError`). Then `Finish`,
  `NextScript` and `Finished`. `Compile` raises when
  `make` runs outside the repository, or when `compile_app` does not know the
  mode. `RunJoin` raises when no binary is in its run directory. It also
  raises on the top-graph points that print "not supported". When the
  constant `AppMayFail` is true, `RunJoin` and `EncryptedJoin` may also end
  in `AppFails`: the app exits non-zero in some rep, `check_output` raises
  `CalledProcessError` after `open(fname, 'a')` and before the write, and the
  file keeps what it held. The next script of the session still runs.
* `RowsMatchHeader`: every row has the header's columns, and the file begins
  with the header.
* `AppFoundWhereBuilt`: when a script runs the app, the binary is in the
  directory it runs it from.
* `RowMeasuredByItsBuild`: a row's mode, passes and radix bits are the ones
  its binary was built with.
* `OneRowPerKey`: no two rows of a file have the same key.
* `PlotReadsWrittenColumns`: when a plot reads a file that holds rows, every
  column it looks up is a field of that file's header. The rows may come from
  this script or from an earlier script of the session.
* `RefinesResultStore`: each results path `p` is checked to implement
  `ResultStore` through `Store(p) == INSTANCE ResultStore WITH file <- files[p]`.
  The header is the one declared by the scripts that write `p`. A row is a row
  with that header's columns. Every step of every script of a session must
  leave each file unchanged, or be the store's `Remove`, `Initialise` (create
  and write the header) or `AppendRows`. TLC cannot check a property
  quantified over paths as a box, so it is stated as
  `[][\A p : [Store(p)!Next]_(files[p])]_vars`. The mutant where
  `run_join` opens with `'w'` instead of `'a'` truncates the file and breaks it.

Runs:

* `sweep_table` passes. It runs 11 scripts on their own, and three sessions:
  helpers/exp9 then the root exp9; helpers/exp12 then the root exp12; and
  exp1, exp6, exp5, exp6. The last is part of `benchmark.py all`, where f5
  and f16 both run `exp6-scale-r-experiment.py`: the second exp6 removes and
  re-initialises the file the first completed. `AppMayFail` is true here, so
  every point of every sweep may also be the one where the app fails.
* `sweep_table_schema` is a violation run over `multi-threading-all-data-at-once.py`
  and the root `exp4-performance-counters-experiment-SUDO.py`. The first
  writes counter rows with columns its header does not have (line 105). The
  second has `init_file` commented out, so its rows go to a file with no
  header.
* `sweep_table_cwd` is a violation run over `perf-degradation`,
  `scale-s-native` and `throughput-all-algs-native` of `helpers/`. These
  scripts run `./app` in `../`, but `helpers/commons` builds it in `../../`.
* `sweep_table_plot` is a violation run over the session helpers/top-graph
  then the root `top-graph.py`. The root copy only plots
  `data/throughput-top-graph.csv` and groups its rows by `x['ds']`. The
  helpers script writes that file with header
  `mode,alg,threads,throughput,privacy`, so the plot raises `KeyError`.

The three violation runs set `AppMayFail` to false. Their counterexamples
then follow runs where the app succeeds, which is where the disagreement
shows.

## 4. Bounds and fairness

Two runs is the least that exercises reuse across runs. For the word family,
two lines of up to three words per run over six word kinds cover a
Throughput line with 0, 1 and 2 floats, `Phase` as the last word, `Phase`
inside `Phases:`, and a phase name met in both runs. Seven lines per run fit
a Throughput line and two blocks of one counter each (mtall's one run), or
two complete blocks of two counters (header, 2 counters, end = 4 lines) or one
block with repeated counters. The extractor has no waiting or fairness: it is a
loop over a finite output, so the checks are safety only; termination holds by
the bounds.

`TrialAggregator` bounds: 3 (or 4 for trimming) trials, values {1, 2, 9} in
0.01 units: enough for empty groups, one-sample groups, duplicated extremes,
an outlier and half-unit ties. Also safety only.

`Sweep`: two modes make the recompile between modes happen; two points per
mode make a point without recompile happen; one fault placed anywhere and
two starts cover a kill at every step followed by a re-run. Fairness: weak
fairness on each of the script's own steps (it is one sequential process
that blocks only on its children, spec 5) and on `Rerun` from a stopped
script (the user's re-run; assumed). No fairness on `Crash` or the failure
disjuncts, which the fault budget bounds.

`SweepController`: `LoopWidth` 2 keeps two values of every loop, so that
each loop advances and the key columns differ between points. The mode lists
are kept whole, because the flags depend on each mode name. Two config modes
and three threads are the model's `config.yaml`. Sessions have at most four
scripts. Two are enough for one script to write a file and a second to read
it. The four-script one repeats a script, as `all` does. The whole ten-script
`all` session takes TLC about eight minutes, so only this part of it is checked. Every run starts with no results file and no binary. Safety only: each
script is a finite loop.

## 5. Not modelled

* Drawing (`color_*`, `marker_alg`, `savefig`, `draw_vertical_lines`, the
  matplotlib calls): presentation. The plots are modelled only by the file
  they open and the columns they look up. Value conversions inside the plots
  are not modelled yet.
* `scale-enclave-size.py`, `phases-comparison.py` and `amd-throughput.py`, and
  the plot-only copies whose file no live script writes (the root exp2, exp3,
  exp7, exp8-grace-join, exp10, exp11, exp13 and exp15, and helpers/mcjoin).
  Their sweeps are commented out, so what they read comes from outside the
  code.
* The array shapes the plots need. `helpers/exp1`'s `plot_throughput`
  (line 95) and similar plots assume a complete grid of rows. A file left by
  a failed sweep, re-plotted with `config['experiment']` false or by a
  `scripts/` copy, makes `plt.bar` or `plt.plot` raise `ValueError`.
  `sweep_table` reaches such files, since the app may fail at any point.
  Stating each plot's grid would model matplotlib's layout rules. Showing
  the failure would take a thirteenth run, and the project keeps to twelve.
* A hung app. `check_output` has no timeout, and nothing retries or cancels
  it. A hang blocks the session with no outcome the scripts handle, so the
  model's app always returns (spec 5 notes this as a hardening
  opportunity).
* The AMD SEV instructions (`print_f17_instructions`, `print_f19_instructions`):
  text only.
* The benchmark executable, `make`, `sudo`: external; modelled only by what
  their outcome can be (output lines, exit status).
