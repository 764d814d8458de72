------------------------- MODULE MC_SweepController -------------------------
(* SweepController for TLC: config.yaml's modes and threads, and the two   *)
(* phases the app reports for the scripts that write one row per phase.    *)
EXTENDS SweepController

MCConfigModes == <<"native", "sgx">>
MCPhases == <<"partition", "join">>

(* Each script on its own, for the scripts whose files and builds agree   *)
(* with the code's own calls, and the plot-only copies in scripts/ after   *)
(* the helpers/ script that writes the file they plot.                     *)
MCSessions ==
    {<<s>> : s \in {"exp0", "exp1", "exp4", "exp5", "exp6", "exp9", "exp12",
                   "exp14", "top-graph", "root-exp8", "radix-bits"}}
    \cup {<<"exp9", "root-exp9">>, <<"exp12", "root-exp12">>}
    \cup {<<"exp1", "exp6", "exp5", "exp6">>}

(* The scripts whose files end up with rows their header does not name:   *)
(* multi-threading-all-data-at-once.py, whose rows and header differ, and  *)
(* exp4-performance-counters-experiment-SUDO.py of scripts/, which writes  *)
(* no header.                                                              *)
MCSchemaSessions == {<<"multi-threading">>, <<"root-exp4">>}

(* The scripts of helpers/ that run the app in "../".                      *)
MCCwdSessions ==
    {<<"perf-degradation">>, <<"scale-s-native">>, <<"throughput-all-algs-native">>}

(* helpers/top-graph.py, then top-graph.py of scripts/ plotting its file.  *)
MCPlotSessions == {<<"top-graph", "root-top-graph">>}
=============================================================================
