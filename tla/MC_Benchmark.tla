---------------------------- MODULE MC_Benchmark ----------------------------
(* The real list of ids and the files of scripts/helpers in this snapshot; *)
(* command lines covering every branch of read_args.                       *)
EXTENDS Benchmark

MCExperiments ==
    <<"f1", "f4", "f5", "f6", "f7", "f8", "f9", "t3", "f10", "f11", "f12",
      "f13", "f14", "f15", "f16", "f17", "f18", "f19">>

MCHelperFiles ==
    {"exp0-seal-materialize-experiment.py", "exp1-off-the-shelf-performance.py",
     "exp12-throughput-oblivious-algos-experiment.py", "exp14-seal-chunk-size.py",
     "exp4-performance-counters-experiment-SUDO.py",
     "exp5-real-dataset-experiment.py", "exp6-scale-r-experiment.py",
     "exp9-selectivity-experiment.py", "mcjoin-experiment.py",
     "perf-degradation-wrt-native.py", "phases-comparison.py",
     "scale-enclave-size.py", "scale-s-native-experiment.py",
     "throughput-all-algs-native.py", "top-graph.py", "commons.py"}

MCArgvs ==
    {<<"benchmark.py">>, <<"benchmark.py", "bogus">>,
     <<"benchmark.py", "all">>, <<"benchmark.py", "f5", "fast">>,
     <<"benchmark.py", "f17">>, <<"benchmark.py", "f7", "3">>,
     <<"benchmark.py", "f4", "0">>, <<"benchmark.py", "f4", "x">>}
=============================================================================
