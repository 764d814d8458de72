---------------------------- MODULE Experiments ----------------------------
(***************************************************************************)
(* The experiment scripts as a table. Every script whose __main__ writes a *)
(* results file has two entries here:                                      *)
(*   <Script>Main     what its __main__ does, as data: the header it gives  *)
(*                    init_file, the nested loops and their value lists,   *)
(*                    the values fixed for the whole sweep, which build    *)
(*                    call it makes at which loop depth, the working       *)
(*                    directory of its check_output calls;                 *)
(*   <Script>RunJoin  the rows its run_join writes for one point: each a   *)
(*                    sequence of column names and the point's values of   *)
(*                    the columns that identify it. The measured columns   *)
(*                    (ValueCols) carry no value here.                     *)
(* A Main also names the file its run_join appends to and plot reads      *)
(* (out) and, for each plot function __main__ calls at its end, the        *)
(* columns that plot looks up in the rows csv.DictReader gives it (plots). *)
(* SweepController interprets the table. The build calls of commons.py     *)
(* (helpers/commons.py and commons.py behave alike) are operators on what  *)
(* they build: the make target and the -D defines.                         *)
(*                                                                         *)
(* Value lists are the scripts' own, cut to their first LoopWidth values   *)
(* for every data dimension; the lists of modes are kept whole.            *)
(***************************************************************************)
EXTENDS Integers, SequencesExt, TLC

CONSTANTS
    LoopWidth,    \* values taken of each data dimension's list
    ConfigModes,  \* config['modes'] of config.yaml, in order
    Threads,      \* config['threads']
    Phases        \* the phase names the app reports, in the order it does

ASSUME LoopWidth \in Nat \ {0}

(* The first LoopWidth values of a script's list.                          *)
Take(s) == SubSeq(s, 1, IF Len(s) < LoopWidth THEN Len(s) ELSE LoopWidth)

(* A loop over var, as the bindings it gives its body.                     *)
Loop(var, vals) == [i \in 1 .. Len(vals) |-> var :> vals[i]]

(* commons.get_all_algorithms, get_all_algorithms_extended,                *)
(* get_test_dataset_names.                                                 *)
AllAlgorithms == Take(<<"CHT", "INL", "PHT", "PSM", "RHO", "RHT", "RSM">>)
AllAlgorithmsExtended ==
    Take(<<"CHT", "INL", "MWAY", "PHT", "PSM", "RHT", "RHO", "RSM">>)
TestDatasets == Take(<<"cache-fit", "cache-exceed">>)

(* The columns that report a measurement rather than name the point.       *)
ValueCols == {"throughput", "cycles", "sealMicros", "ewb", "privacy",
              "L2Miss[k]", "L3Miss[k]", "L2HitRate", "L3HitRate", "IR[M]",
              "IPC", "EWB", "EWB[MB]", "Cycles"}

(* A row: its columns in order and the values of the identifying ones.     *)
Row(cols, b) == [cols |-> cols,
                 key  |-> [c \in ToSet(cols) \ ValueCols |-> b[c]]]

-----------------------------------------------------------------------------
(* Builds. A binary is its make target, its -D defines and the values of  *)
(* NUM_PASSES / NUM_RADIX_BITS (0: not defined).                           *)
(* Python's p in s for strings: p is a substring of s.                  *)
IsIn(p, s) == \E i \in 0 .. Len(s) - Len(p) : SubSeq(s, i + 1, i + Len(p)) = p

(* compile_app: "native" in mode -> make native, elif "sgx" in mode ->     *)
(* make sgx, else ValueError; the mode-specific CFLAGS, then the flags.    *)
CompileAppKnownMode(mode) == IsIn("native", mode) \/ IsIn("sgx", mode)

ModeDefinesNoNativeForMaterialize(mode) ==
    CASE mode = "native"             -> {"NATIVE_COMPILATION"}
      [] mode = "native-materialize" -> {"JOIN_MATERIALIZE"}
      [] mode \in {"sgx-materialize", "sgx-seal", "sgx-chunk-buffer"}
                                     -> {"JOIN_MATERIALIZE"}
      [] mode = "sgx-affinity"       -> {"THREAD_AFFINITY"}
      [] OTHER                       -> {}

(* The CFLAGS compile_app adds for a mode.                                 *)
ModeDefines(mode) ==
    CASE mode = "native"             -> {"NATIVE_COMPILATION"}
      [] mode = "native-materialize" -> {"NATIVE_COMPILATION", "JOIN_MATERIALIZE"}
      [] mode \in {"sgx-materialize", "sgx-seal", "sgx-chunk-buffer"}
                                     -> {"JOIN_MATERIALIZE"}
      [] mode = "sgx-affinity"       -> {"THREAD_AFFINITY"}
      [] OTHER                       -> {}

CompileAppTargetIsMode(mode, flags) ==
    [target |-> mode, defs |-> ModeDefines(mode) \cup flags,
     passes |-> 0, bits |-> 0]

CompileApp(mode, flags) ==
    [target |-> IF IsIn("native", mode) THEN "native" ELSE "sgx",
     defs   |-> ModeDefines(mode) \cup flags,
     passes |-> 0, bits |-> 0]

(* make_app(sgx, perf_counters)                                            *)
MakeApp(sgx, pc) ==
    [target |-> IF sgx THEN "sgx" ELSE "native",
     defs   |-> (IF sgx THEN {} ELSE {"NATIVE_COMPILATION"})
                \cup (IF pc THEN {"PCM_COUNT"} ELSE {}),
     passes |-> 0, bits |-> 0]

(* make_app_radix_bits(sgx, perf_counters, num_passes, num_radix_bits)     *)
MakeAppRadixBits(sgx, pc, p, r) ==
    [MakeApp(sgx, pc) EXCEPT !.passes = p, !.bits = r]

(* commons.py make_app_with_flags(sgx, flags)                              *)
MakeAppWithFlags(sgx, flags) ==
    [target |-> IF sgx THEN "sgx" ELSE "native",
     defs   |-> (IF sgx THEN {} ELSE {"NATIVE_COMPILATION"}) \cup flags,
     passes |-> 0, bits |-> 0]

(* The build a script's call makes for the bindings b of its loops. The   *)
(* scripts pass sgx as mode == "sgx" (or the literal that equals it).      *)
BuildFor(tool, b) ==
    CASE tool = "compile_app"         -> CompileApp(b.mode, b.flags)
      [] tool = "make_app"            -> MakeApp(b.mode = "sgx", FALSE)
      [] tool = "make_app_radix_bits" ->
            MakeAppRadixBits(b.mode = "sgx", FALSE, b.passes, b.bits)
      [] tool = "make_app_with_flags" -> MakeAppWithFlags(b.mode = "sgx", b.flags)

MakeUpRootCommons(dir) == 1

(* The directory make runs in, as levels above the script's working       *)
(* directory: helpers/commons.py uses cwd "../../", commons.py "../".      *)
MakeUp(dir) == IF dir = "helpers" THEN 2 ELSE 1

-----------------------------------------------------------------------------
(* A step of a script's __main__ that SweepController carries out.         *)
Event(kind, b) == [kind |-> kind, b |-> b]

(* A results file name as a script gives it: up levels of "../" above the  *)
(* working directory, then data/name.                                      *)
Out(up, name) == [up |-> up, name |-> name]

(* plot_with_selectivities: the columns it reads from the rows of the file. *)
Exp0Plot == {"mode", "ds", "selectivity", "phase", "cycles"}

(* helpers/exp0-seal-materialize-experiment.py                             *)
Exp0Main ==
    [dir |-> "helpers", gated |-> TRUE, init |-> TRUE, early |-> FALSE,
     out |-> Out(1, "seal-phases.csv"), plots |-> <<Exp0Plot>>,
     header |-> <<"mode", "alg", "ds", "selectivity", "phase", "cycles">>,
     tool |-> "compile_app", buildAt |-> 1, runUp |-> 2, tail |-> <<>>,
     consts |-> [alg |-> "RHO", flags |-> {}],
     loops |-> <<Loop("mode", <<"native", "native-materialize", "sgx",
                                "sgx-seal", "sgx-seal-chunk-buffer">>),
                 Loop("ds", TestDatasets),
                 Loop("selectivity", Take(<<1, 50, 100>>))>>]

(* join(): the chunk-buffer mode runs RHO_seal_buffer and writes one       *)
(* seal-join row, the other modes a join and a seal row.                   *)
Exp0RunJoin(b) ==
    LET alg == IF b.mode = "sgx-seal-chunk-buffer" THEN "RHO_seal_buffer"
               ELSE b.alg
        R(ph) == Row(<<"mode", "alg", "ds", "selectivity", "phase", "cycles">>,
                     [phase |-> ph, alg |-> alg] @@ b)
    IN IF b.mode = "sgx-seal-chunk-buffer" THEN <<R("seal-join")>>
       ELSE <<R("join"), R("seal")>>

(* plot_throughput: the columns it reads from the rows of the file. *)
Exp1Plot == {"mode", "alg", "ds", "throughput"}

(* helpers/exp1-off-the-shelf-performance.py                               *)
Exp1Main ==
    [dir |-> "helpers", gated |-> TRUE, init |-> TRUE, early |-> FALSE,
     out |-> Out(1, "throughput-output.csv"), plots |-> <<Exp1Plot>>,
     header |-> <<"mode", "alg", "ds", "threads", "throughput">>,
     tool |-> "compile_app", buildAt |-> 1, runUp |-> 2, tail |-> <<>>,
     consts |-> [threads |-> Threads, flags |-> {}],
     loops |-> <<Loop("mode", ConfigModes), Loop("ds", TestDatasets),
                 Loop("alg", AllAlgorithmsExtended)>>]

Exp1RunJoin(b) == <<Row(<<"mode", "alg", "ds", "threads", "throughput">>, b)>>

(* helpers/exp4-performance-counters-experiment-SUDO.py                    *)
Exp4Main ==
    [dir |-> "helpers", gated |-> TRUE, init |-> TRUE, early |-> FALSE,
     out |-> Out(1, "Table-03-Hardware-performance-counters-for-secure-joins.csv"),
     plots |-> <<>>,
     header |-> <<"mode", "alg", "ds", "threads", "phase", "L2Miss[k]",
                  "L3Miss[k]", "L2HitRate", "L3HitRate", "IR[M]", "IPC", "EWB">>,
     tool |-> "compile_app", buildAt |-> 0, runUp |-> 2, tail |-> <<>>,
     consts |-> [mode |-> "sgx", threads |-> Threads,
                 flags |-> {"PCM_COUNT", "SGX_COUNTERS"}],
     loops |-> <<Loop("alg", AllAlgorithmsExtended), Loop("ds", TestDatasets)>>]

(* One row per phase of dict, in insertion order.                          *)
Exp4RunJoin(b) ==
    [i \in 1 .. Len(Phases) |->
        Row(<<"mode", "alg", "ds", "threads", "phase", "L2Miss[k]", "L3Miss[k]",
              "L2HitRate", "L3HitRate", "IR[M]", "IPC", "EWB">>,
            ("phase" :> Phases[i]) @@ b)]

(* plot_throughput: the columns it reads from the rows of the file. *)
Exp5Plot == {"mode", "alg", "throughput"}

(* helpers/exp5-real-dataset-experiment.py                                 *)
Exp5Main ==
    [dir |-> "helpers", gated |-> TRUE, init |-> TRUE, early |-> FALSE,
     out |-> Out(1, "real-dataset-output.csv"), plots |-> <<Exp5Plot>>,
     header |-> <<"mode", "alg", "threads", "throughput">>,
     tool |-> "compile_app", buildAt |-> 1, runUp |-> 2, tail |-> <<>>,
     consts |-> [threads |-> Threads, flags |-> {}],
     loops |-> <<Loop("mode", ConfigModes), Loop("alg", AllAlgorithmsExtended)>>]

Exp5RunJoin(b) == <<Row(<<"mode", "alg", "threads", "throughput">>, b)>>

(* plot: the columns it reads from the rows of the file. *)
Exp6Plot == {"alg", "sizeR", "sizeS", "throughput"}

(* plot_with_ewb: the columns it reads from the rows of the file. *)
Exp6PlotWithEwb == {"alg", "sizeR", "sizeS", "throughput", "ewb"}

(* helpers/exp6-scale-r-experiment.py: compile_app before remove_file.     *)
(* sizeR / sizeS are round(size / mb_of_data, 2) as printed.               *)
Exp6Main ==
    [dir |-> "helpers", gated |-> TRUE, init |-> TRUE, early |-> TRUE,
     out |-> Out(1, "scale-r-output.csv"), plots |-> <<Exp6Plot, Exp6PlotWithEwb>>,
     header |-> <<"mode", "alg", "threads", "sizeR", "sizeS", "throughput", "ewb">>,
     tool |-> "compile_app", buildAt |-> 0, runUp |-> 2, tail |-> <<>>,
     consts |-> [mode |-> "sgx", threads |-> Threads, flags |-> {"SGX_COUNTERS"}],
     loops |-> <<Loop("sizeS", Take(<<"0.2", "6.4", "16.0", "100.0">>)),
                 Loop("alg", <<"CHT">>),
                 Loop("sizeR", Take([i \in 1 .. 16 |-> 8 * i]))>>]

Exp6RunJoinSizeSTwice(b) ==
    <<Row(<<"mode", "alg", "threads", "sizeR", "sizeS", "throughput", "ewb">>,
          ("sizeR" :> b.sizeS) @@ b)>>

Exp6RunJoin(b) ==
    <<Row(<<"mode", "alg", "threads", "sizeR", "sizeS", "throughput", "ewb">>, b)>>

(* plot: the columns it reads from the rows of the file. *)
Exp9Plot == {"mode", "alg", "ds", "selectivity", "throughput"}

Exp9MainNoSelectivityHeader ==
    [dir |-> "helpers", gated |-> TRUE, init |-> TRUE, early |-> FALSE,
     out |-> Out(1, "selectivity-output.csv"), plots |-> <<Exp9Plot>>,
     header |-> <<"mode", "alg", "ds", "threads", "throughput">>,
     tool |-> "compile_app", buildAt |-> 0, runUp |-> 2, tail |-> <<>>,
     consts |-> [mode |-> "sgx", threads |-> Threads, flags |-> {}],
     loops |-> <<Loop("alg", AllAlgorithmsExtended), Loop("ds", TestDatasets),
                 Loop("selectivity", Take(<<1, 50, 100>>))>>]

(* helpers/exp9-selectivity-experiment.py                                  *)
Exp9Main ==
    [dir |-> "helpers", gated |-> TRUE, init |-> TRUE, early |-> FALSE,
     out |-> Out(1, "selectivity-output.csv"), plots |-> <<Exp9Plot>>,
     header |-> <<"mode", "alg", "ds", "threads", "selectivity", "throughput">>,
     tool |-> "compile_app", buildAt |-> 0, runUp |-> 2, tail |-> <<>>,
     consts |-> [mode |-> "sgx", threads |-> Threads, flags |-> {}],
     loops |-> <<Loop("alg", AllAlgorithmsExtended), Loop("ds", TestDatasets),
                 Loop("selectivity", Take(<<1, 50, 100>>))>>]

Exp9RunJoinNoSelectivity(b) ==
    <<Row(<<"mode", "alg", "ds", "threads", "throughput">>, b)>>

Exp9RunJoin(b) ==
    <<Row(<<"mode", "alg", "ds", "threads", "selectivity", "throughput">>, b)>>

(* plot: the columns it reads from the rows of the file. *)
Exp12Plot == {"alg", "throughput"}

(* helpers/exp12-throughput-oblivious-algos-experiment.py                  *)
Exp12Main ==
    [dir |-> "helpers", gated |-> TRUE, init |-> TRUE, early |-> FALSE,
     out |-> Out(1, "throughput-oblivious-algos-output.csv"), plots |-> <<Exp12Plot>>,
     header |-> <<"alg", "threads", "throughput">>,
     tool |-> "compile_app", buildAt |-> 0, runUp |-> 2, tail |-> <<>>,
     consts |-> [mode |-> "sgx", threads |-> 1, flags |-> {"RADIX_NO_TIMING"}],
     loops |-> <<Loop("alg", Take(<<"OBLI", "OPAQ", "RHOBLI", "OJ", "RHO">>))>>]

Exp12RunJoin(b) == <<Row(<<"alg", "threads", "throughput">>, b)>>

(* plot: the columns it reads from the rows of the file. *)
Exp14Plot == {"ds", "chunkSize", "sealMicros"}

(* helpers/exp14-seal-chunk-size.py: chunk_sizes is                        *)
(* sorted(set([0] + [int(pow(2, i)) for i in range(1, 20)])).              *)
Exp14Main ==
    [dir |-> "helpers", gated |-> TRUE, init |-> TRUE, early |-> FALSE,
     out |-> Out(1, "seal-chunk-size-output.csv"), plots |-> <<Exp14Plot>>,
     header |-> <<"mode", "alg", "ds", "chunkSize", "sealMicros">>,
     tool |-> "compile_app", buildAt |-> 0, runUp |-> 2, tail |-> <<>>,
     consts |-> [mode |-> "sgx-seal", alg |-> "RHO", threads |-> Threads,
                 flags |-> {}],
     loops |-> <<Loop("ds", TestDatasets),
                 Loop("chunkSize", Take(<<0>> \o [i \in 1 .. 19 |-> 2 ^ i]))>>]

Exp14RunJoin(b) ==
    <<Row(<<"mode", "alg", "ds", "chunkSize", "sealMicros">>, b)>>

(* plot: the columns it reads from the rows of the file. *)
PerfDegradationPlot == {"mode", "alg", "dsSize", "throughput"}

(* helpers/perf-degradation-wrt-native.py: no config gate; make_app per    *)
(* mode; the app runs in "../". dsSize is pow(2, s) * (k + 1), k = 4.      *)
PerfDegradationMain ==
    [dir |-> "helpers", gated |-> FALSE, init |-> TRUE, early |-> FALSE,
     out |-> Out(0, "perf-degradation-wrt-native.csv"), plots |-> <<PerfDegradationPlot>>,
     header |-> <<"mode", "alg", "dsSize", "throughput">>,
     tool |-> "make_app", buildAt |-> 1, runUp |-> 1, tail |-> <<>>,
     consts |-> [threads |-> 4],
     loops |-> <<Loop("mode", <<"native", "sgx">>), Loop("alg", AllAlgorithms),
                 Loop("s", Take([i \in 1 .. 8 |-> i - 1]))>>]

PerfDegradationRunJoin(b) ==
    <<Row(<<"mode", "alg", "dsSize", "throughput">>,
          ("dsSize" :> 2 ^ b.s * (4 + 1)) @@ b)>>

(* plot: the columns it reads from the rows of the file. *)
ScaleSNativePlot == {"alg", "sizeR", "sizeS", "throughput"}

(* helpers/scale-s-native-experiment.py: make_app(False, False) before     *)
(* remove_file; the app runs in "../".                                     *)
ScaleSNativeMain ==
    [dir |-> "helpers", gated |-> FALSE, init |-> TRUE, early |-> TRUE,
     out |-> Out(0, "scale-s-native-output.csv"), plots |-> <<ScaleSNativePlot>>,
     header |-> <<"mode", "alg", "threads", "sizeR", "sizeS", "throughput">>,
     tool |-> "make_app", buildAt |-> 0, runUp |-> 1, tail |-> <<>>,
     consts |-> [mode |-> "native", threads |-> 3],
     loops |-> <<Loop("sizeR", Take(<<"0.2", "6.4", "16.0", "100.0">>)),
                 Loop("alg", AllAlgorithms),
                 Loop("sizeS", Take([i \in 1 .. 32 |-> 8 * i]))>>]

ScaleSNativeRunJoin(b) ==
    <<Row(<<"mode", "alg", "threads", "sizeR", "sizeS", "throughput">>, b)>>

(* helpers/throughput-all-algs-native.py: the app runs in "../".           *)
ThroughputAllAlgsMain ==
    [dir |-> "helpers", gated |-> TRUE, init |-> TRUE, early |-> FALSE,
     out |-> Out(0, "throughput-all-algs-native.csv"), plots |-> <<>>,
     header |-> <<"mode", "alg", "ds", "threads", "throughput">>,
     tool |-> "compile_app", buildAt |-> 0, runUp |-> 1, tail |-> <<>>,
     consts |-> [mode |-> "native", threads |-> Threads, flags |-> {}],
     loops |-> <<Loop("ds", TestDatasets), Loop("alg", AllAlgorithmsExtended)>>]

ThroughputAllAlgsRunJoin(b) ==
    <<Row(<<"mode", "alg", "ds", "threads", "throughput">>, b)>>

(* plot_throughput: the columns it reads from the rows of the file. *)
TopGraphPlot == {"mode", "alg", "throughput", "privacy"}

(* helpers/top-graph.py: three builds and runs written out one after the   *)
(* other, then the FHE programs (cmake, then run_encrypted_join twice).    *)
TopGraphMain ==
    [dir |-> "helpers", gated |-> TRUE, init |-> TRUE, early |-> FALSE,
     out |-> Out(1, "throughput-top-graph.csv"), plots |-> <<TopGraphPlot>>,
     header |-> <<"mode", "alg", "threads", "throughput", "privacy">>,
     tool |-> "compile_app", buildAt |-> 1, runUp |-> 2,
     consts |-> <<>>,
     loops |-> << << [mode |-> "native", alg |-> "RHO", threads |-> 4, flags |-> {}],
                     [mode |-> "sgx", alg |-> "RHO", threads |-> 4, flags |-> {}],
                     [mode |-> "sgx", alg |-> "RHOBLI", threads |-> 1,
                      flags |-> {"RADIX_NO_TIMING"}] >> >>,
     tail |-> <<Event("encrypted", [prog |-> "fhejoin"]),
                Event("encrypted", [prog |-> "dtejoin"])>>]

(* run_join's privacy estimate: the (alg, mode) pairs it knows; any other *)
(* pair raises Exception('Not supported') before the write.                *)
TopGraphPrivacyKnown(b) ==
    <<b.alg, b.mode>> \in {<<"RHO", "native">>, <<"RHO", "sgx">>, <<"RHOBLI", "sgx">>}

TopGraphRunJoin(b) ==
    <<Row(<<"mode", "alg", "threads", "throughput", "privacy">>, b)>>

(* run_encrypted_join: 'native', prog, 1, throughput and the privacy of    *)
(* fhejoin or dtejoin; any other prog raises.                              *)
EncryptedPrivacyKnown(b) == b.prog \in {"fhejoin", "dtejoin"}

TopGraphEncryptedJoin(b) ==
    <<Row(<<"mode", "alg", "threads", "throughput", "privacy">>,
          [mode |-> "native", alg |-> b.prog, threads |-> 1])>>

(* exp4-performance-counters-experiment-SUDO.py (scripts/): remove_file    *)
(* and init_file are commented out, so no header is written; the rows are  *)
(* appended to whatever data/performance-counters-output.csv holds.        *)
RootExp4Main ==
    [dir |-> "scripts", gated |-> FALSE, init |-> FALSE, early |-> FALSE,
     out |-> Out(0, "performance-counters-output.csv"), plots |-> <<>>,
     header |-> <<>>,
     tool |-> "make_app_with_flags", buildAt |-> 0, runUp |-> 1, tail |-> <<>>,
     consts |-> [mode |-> "sgx", threads |-> 4,
                 flags |-> {"PCM_COUNT", "SGX_COUNTERS"}],
     loops |-> <<Loop("alg", <<"INL">>), Loop("ds", TestDatasets)>>]

RootExp4RunJoin(b) ==
    [i \in 1 .. Len(Phases) |->
        Row(<<"mode", "alg", "ds", "threads", "phase", "L2Miss[k]", "L3Miss[k]",
              "L2HitRate", "L3HitRate", "IR[M]", "IPC", "EWB[MB]">>,
            ("phase" :> Phases[i]) @@ b)]

(* plot_phases_per_cycle: the columns it reads from the rows of the file. *)
RootExp8Plot == {"mode", "alg", "ds", "phase", "cycles"}

(* exp8-phases-experiment.py (scripts/): SGX_COUNTERS and PCM_COUNT only   *)
(* for mode 'sgx'.                                                         *)
RootExp8Main ==
    [dir |-> "scripts", gated |-> TRUE, init |-> TRUE, early |-> FALSE,
     out |-> Out(0, "phases-runtime-output.csv"), plots |-> <<RootExp8Plot>>,
     header |-> <<"mode", "alg", "ds", "phase", "cycles">>,
     tool |-> "compile_app", buildAt |-> 1, runUp |-> 1, tail |-> <<>>,
     consts |-> [threads |-> Threads],
     loops |-> << [i \in 1 .. Len(ConfigModes) |->
                     [mode |-> ConfigModes[i],
                      flags |-> IF ConfigModes[i] = "sgx"
                                  THEN {"SGX_COUNTERS", "PCM_COUNT"} ELSE {}]],
                  Loop("ds", TestDatasets), Loop("alg", AllAlgorithmsExtended) >>]

(* One row per phase of dic_phases, in insertion order.                    *)
RootExp8RunJoin(b) ==
    [i \in 1 .. Len(Phases) |->
        Row(<<"mode", "alg", "ds", "phase", "cycles">>, ("phase" :> Phases[i]) @@ b)]

(* multi-threading-all-data-at-once.py (scripts/)                          *)
MultiThreadingMain ==
    [dir |-> "scripts", gated |-> FALSE, init |-> TRUE, early |-> FALSE,
     out |-> Out(0, "all-data-at-once.csv"), plots |-> <<>>,
     header |-> <<"alg", "ds", "threads", "phase", "L2Miss[k]", "L3Miss[k]",
                  "L2HitRate", "L3HitRate", "IR[M]", "EWB[MB]", "Cycles">>,
     tool |-> "compile_app", buildAt |-> 0, runUp |-> 1, tail |-> <<>>,
     consts |-> [mode |-> "sgx", flags |-> {"PCM_COUNT", "SGX_COUNTERS"}],
     loops |-> <<Loop("alg", <<"PSM">>), Loop("ds", TestDatasets),
                 Loop("threads", Take([i \in 1 .. 8 |-> i]))>>]

(* The throughput row, then one counter row per phase of dict (its ds is   *)
(* the global of the loop, equal to dataset); the dic_phases loop only     *)
(* builds a string.                                                        *)
MultiThreadingRunJoin(b) ==
    <<Row(<<"mode", "alg", "ds", "threads", "throughput">>, b)>>
    \o [i \in 1 .. Len(Phases) |->
          Row(<<"alg", "ds", "threads", "phase", "L2Miss[k]", "L3Miss[k]",
                "L2HitRate", "L3HitRate", "IR[M]", "IPC", "EWB[MB]">>,
              ("phase" :> Phases[i]) @@ b)]

(* plot: the columns it reads from the rows of the file. *)
RadixBitsPlot == {"mode", "alg", "ds", "passes", "bits", "throughput"}

(* radix-bits-passes-experiment.py (scripts/): one build per (mode,        *)
(* passes, bits).                                                          *)
RadixBitsMain ==
    [dir |-> "scripts", gated |-> FALSE, init |-> TRUE, early |-> FALSE,
     out |-> Out(0, "radix-bits-passes-output.csv"), plots |-> <<RadixBitsPlot>>,
     header |-> <<"mode", "alg", "ds", "passes", "bits", "throughput">>,
     tool |-> "make_app_radix_bits", buildAt |-> 3, runUp |-> 1, tail |-> <<>>,
     consts |-> [threads |-> 3],
     loops |-> <<Loop("mode", <<"sgx">>), Loop("passes", <<1, 2>>),
                 Loop("bits", Take([i \in 1 .. 13 |-> i + 1])),
                 Loop("alg", <<"RHO">>), Loop("ds", TestDatasets)>>]

RadixBitsRunJoin(b) ==
    <<Row(<<"mode", "alg", "ds", "passes", "bits", "throughput">>, b)>>

-----------------------------------------------------------------------------
(* The copies in scripts/ whose sweep is commented out: __main__ only      *)
(* plots, from the file the helpers/ script of the same name writes when   *)
(* that one is run from helpers/ ("../data" there is "data" here).         *)
PlotOnly(out, plots) ==
    [dir |-> "scripts", gated |-> FALSE, init |-> FALSE, early |-> FALSE,
     out |-> out, plots |-> plots, header |-> <<>>,
     tool |-> "none", buildAt |-> -1, runUp |-> 1, tail |-> <<>>,
     consts |-> <<>>, loops |-> <<>>]

(* exp9-selectivity-experiment.py (scripts/): plot.                         *)
RootExp9Plot == {"mode", "alg", "ds", "selectivity", "throughput"}

RootExp9Main == PlotOnly(Out(0, "selectivity-output.csv"), <<RootExp9Plot>>)

(* exp12-throughput-oblivious-algos-experiment.py (scripts/): plot.         *)
RootExp12Plot == {"alg", "throughput"}

RootExp12Main ==
    PlotOnly(Out(0, "throughput-oblivious-algos-output.csv"), <<RootExp12Plot>>)

(* top-graph.py (scripts/): plot_throughput, which groups the rows by ds.   *)
RootTopGraphPlot == {"mode", "alg", "ds", "throughput", "privacy"}

RootTopGraphMain ==
    PlotOnly(Out(0, "throughput-top-graph.csv"), <<RootTopGraphPlot>>)

=============================================================================
