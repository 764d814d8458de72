--------------------------- MODULE SweepController ---------------------------
(***************************************************************************)
(* Every experiment script's __main__, run from the table of Experiments:  *)
(* remove_file and init_file, the build calls at the loop depth where the  *)
(* script makes them, run_join for every point of the nested loops, in    *)
(* the order of the loops. The build and the run are the script's own     *)
(* calls with the working directories they give make and check_output.    *)
(* Trials and aggregation are inside run_join (TrialAggregator); crashes  *)
(* and re-runs are in Sweep. Each __main__ ends with its plot functions,   *)
(* which read the results file back with csv.DictReader.                   *)
(*                                                                         *)
(* A behaviour is a session: scripts run one after the other on the same   *)
(* file system and the same app binary. script is the one running, cwd the *)
(* directory it is run from: a script of helpers/ is run from helpers/ by  *)
(* benchmark.py and may be run by hand from scripts/; the others are run   *)
(* from scripts/. A results file is named by the directory its relative    *)
(* name resolves to and its base name.                                     *)
(***************************************************************************)
EXTENDS Experiments

CONSTANTS
    Sessions,     \* the sequences of scripts a behaviour may run
    Absent,       \* no results file
    NoBinary,     \* no app binary built by this run yet
    FheProgram,   \* the FHE programs top-graph builds with cmake
    AppMayFail    \* whether the app (or an FHE program) may exit non-zero

VARIABLES
    script,      \* the script running
    todo,        \* the scripts of the session still to run after it
    cwd,         \* "helpers" | "scripts"
    experiment,  \* config['experiment']
    pc,          \* "run" | "done" | "raised"
    pos,         \* index of the next step of the script's program
    binary,      \* the app in the repository root: [build, at] or NoBinary
    files,       \* each results file: header and row lines, or Absent
    error        \* the exception that ended the script, or "None"

vars == <<script, todo, cwd, experiment, pc, pos, binary, files, error>>

MainOf(s) ==
    CASE s = "exp0"                       -> Exp0Main
      [] s = "exp1"                       -> Exp1Main
      [] s = "exp4"                       -> Exp4Main
      [] s = "exp5"                       -> Exp5Main
      [] s = "exp6"                       -> Exp6Main
      [] s = "exp9"                       -> Exp9Main
      [] s = "exp12"                      -> Exp12Main
      [] s = "exp14"                      -> Exp14Main
      [] s = "perf-degradation"           -> PerfDegradationMain
      [] s = "scale-s-native"             -> ScaleSNativeMain
      [] s = "throughput-all-algs-native" -> ThroughputAllAlgsMain
      [] s = "top-graph"                  -> TopGraphMain
      [] s = "root-exp4"                  -> RootExp4Main
      [] s = "root-exp8"                  -> RootExp8Main
      [] s = "multi-threading"            -> MultiThreadingMain
      [] s = "radix-bits"                 -> RadixBitsMain
      [] s = "root-exp9"                  -> RootExp9Main
      [] s = "root-exp12"                 -> RootExp12Main
      [] s = "root-top-graph"             -> RootTopGraphMain

RunJoinOf(s, b) ==
    CASE s = "exp0"                       -> Exp0RunJoin(b)
      [] s = "exp1"                       -> Exp1RunJoin(b)
      [] s = "exp4"                       -> Exp4RunJoin(b)
      [] s = "exp5"                       -> Exp5RunJoin(b)
      [] s = "exp6"                       -> Exp6RunJoin(b)
      [] s = "exp9"                       -> Exp9RunJoin(b)
      [] s = "exp12"                      -> Exp12RunJoin(b)
      [] s = "exp14"                      -> Exp14RunJoin(b)
      [] s = "perf-degradation"           -> PerfDegradationRunJoin(b)
      [] s = "scale-s-native"             -> ScaleSNativeRunJoin(b)
      [] s = "throughput-all-algs-native" -> ThroughputAllAlgsRunJoin(b)
      [] s = "top-graph"                  -> TopGraphRunJoin(b)
      [] s = "root-exp4"                  -> RootExp4RunJoin(b)
      [] s = "root-exp8"                  -> RootExp8RunJoin(b)
      [] s = "multi-threading"            -> MultiThreadingRunJoin(b)
      [] s = "radix-bits"                 -> RadixBitsRunJoin(b)

(* The nested loops from depth k down, given the bindings b of the loops  *)
(* around them: the build call where the script makes it, then the body;  *)
(* run_join in the innermost loop.                                         *)
RECURSIVE Unroll(_, _, _)
Unroll(m, k, b) ==
    IF k > Len(m.loops) THEN <<Event("run", b)>>
    ELSE LET L == m.loops[k]
             Body(i) ==
                 LET bi == L[i] @@ b
                 IN (IF m.buildAt = k THEN <<Event("compile", bi)>> ELSE <<>>)
                    \o Unroll(m, k + 1, bi)
         IN FlattenSeq([i \in 1 .. Len(L) |-> Body(i)])

(* __main__: nothing but the plots when config['experiment'] is false;     *)
(* else remove_file and init_file, and a build made once before the loops  *)
(* (before remove_file in the scripts that say so), then the loops (none   *)
(* in the plot-only scripts), then the plots.                              *)
Program(m, exp) ==
    LET once  == IF m.buildAt = 0 THEN <<Event("compile", m.consts)>> ELSE <<>>
        store == IF m.init
                   THEN <<Event("remove", m.consts), Event("init", m.consts)>>
                   ELSE <<>>
        sweep == IF m.loops = <<>> THEN <<>> ELSE Unroll(m, 1, m.consts)
        plots == [i \in 1 .. Len(m.plots) |-> Event("plot", [cols |-> m.plots[i]])]
    IN (IF m.gated /\ ~exp THEN <<>>
        ELSE (IF m.early THEN once \o store ELSE store \o once) \o sweep \o m.tail)
       \o plots

Prog == Program(MainOf(script), experiment)
Step == Prog[pos]

(* The directory n levels above d; the Makefile and the app are in "repo". *)
Up(d) == CASE d = "helpers" -> "scripts" [] d = "scripts" -> "repo"
           [] OTHER -> "outside"
Above(d, n) == IF n = 1 THEN Up(d) ELSE Up(Up(d))

(* The file a script's out names when it is run from d.                    *)
Path(d, o) == <<IF o.up = 0 THEN d ELSE Above(d, o.up), o.name>>

Cwds(s) == IF MainOf(s).dir = "helpers" THEN {"helpers", "scripts"} ELSE {"scripts"}
Scripts == UNION {ToSet(s) : s \in Sessions}
Paths == UNION {{Path(d, MainOf(s).out) : d \in Cwds(s)} : s \in Scripts}
OutPath == Path(cwd, MainOf(script).out)

Builds == [target : {"native", "sgx"},
           defs : SUBSET {"NATIVE_COMPILATION", "JOIN_MATERIALIZE", "THREAD_AFFINITY",
                          "PCM_COUNT", "SGX_COUNTERS", "RADIX_NO_TIMING"},
           passes : Nat, bits : Nat]

HeaderLine(cols) == [kind |-> "header", cols |-> cols, key |-> <<>>, built |-> NoBinary]
RowLine(r, built) == [kind |-> "row", cols |-> r.cols, key |-> r.key, built |-> built]
Rows(f) == {i \in DOMAIN f : f[i].kind = "row"}

TypeOK ==
    /\ script \in Scripts
    /\ todo \in Seq(Scripts)
    /\ cwd \in {"helpers", "scripts"}
    /\ experiment \in BOOLEAN
    /\ pc \in {"run", "done", "raised"}
    /\ pos \in 1 .. Len(Prog) + 1
    /\ binary \in {NoBinary} \cup [build : Builds, at : {"repo"}]
    /\ error \in {"None", "CalledProcessError", "ValueError", "Exception",
                  "FileNotFoundError", "KeyError"}
    /\ DOMAIN files = Paths
    /\ \A p \in Paths : files[p] = Absent \/ \A i \in DOMAIN files[p] :
          /\ files[p][i].kind \in {"header", "row"}
          /\ files[p][i].built \in Builds \cup {NoBinary, FheProgram}

-----------------------------------------------------------------------------
(* top-graph's run_join raises for an (alg, mode) pair it has no privacy   *)
(* estimate for; the other scripts' run_join have no such check.           *)
Supported(s, b) == s # "top-graph" \/ TopGraphPrivacyKnown(b)

Init ==
    /\ \E s \in Sessions : script = Head(s) /\ todo = Tail(s)
    /\ cwd \in Cwds(script)
    /\ experiment \in BOOLEAN
    /\ pc = "run"
    /\ pos = 1
    /\ binary = NoBinary
    /\ files = [p \in Paths |-> Absent]
    /\ error = "None"

At(kind) == pc = "run" /\ pos <= Len(Prog) /\ Step.kind = kind

Raise(e) == /\ pc' = "raised"
            /\ error' = e
            /\ UNCHANGED pos

Advance == /\ pos' = pos + 1
           /\ UNCHANGED <<pc, error>>

(* commons.remove_file: os.remove, ENOENT ignored.                         *)
RemoveFile ==
    /\ At("remove")
    /\ files' = [files EXCEPT ![OutPath] = Absent]
    /\ Advance
    /\ UNCHANGED <<script, todo, cwd, experiment, binary>>

(* commons.init_file: open(fname, "x") and the header line; the file was   *)
(* removed by the step before.                                             *)
InitFile ==
    /\ At("init")
    /\ files[OutPath] = Absent
    /\ files' = [files EXCEPT ![OutPath] = <<HeaderLine(MainOf(script).header)>>]
    /\ Advance
    /\ UNCHANGED <<script, todo, cwd, experiment, binary>>

(* The script's build call: make clean in the directory its commons       *)
(* gives make fails where there is no Makefile; compile_app raises         *)
(* ValueError for a mode it does not know after make clean; else make -B   *)
(* leaves the binary in the repository root.                               *)
Compile ==
    /\ At("compile")
    /\ LET m == MainOf(script)
           b == Step.b
       IN IF Above(cwd, MakeUp(m.dir)) # "repo"
            THEN /\ Raise("CalledProcessError")
                 /\ UNCHANGED binary
          ELSE IF m.tool = "compile_app" /\ ~CompileAppKnownMode(b.mode)
            THEN /\ Raise("ValueError")
                 /\ binary' = NoBinary
          ELSE /\ binary' = [build |-> BuildFor(m.tool, b), at |-> "repo"]
               /\ Advance
    /\ UNCHANGED <<script, todo, cwd, experiment, files>>

(* Mutant: run_join opens the file with 'w', truncating what is there.     *)
RunJoinOpenW ==
    /\ At("run")
    /\ LET m == MainOf(script)
           b == Step.b
           rows == RunJoinOf(script, b)
       IN IF binary = NoBinary \/ binary.at # Above(cwd, m.runUp)
            THEN /\ Raise("CalledProcessError")
                 /\ files' = [files EXCEPT ![OutPath] = <<>>]
          ELSE IF ~Supported(script, b)
            THEN /\ Raise("Exception")
                 /\ files' = [files EXCEPT ![OutPath] = <<>>]
          ELSE /\ files' = [files EXCEPT ![OutPath] =
                              [i \in 1 .. Len(rows) |-> RowLine(rows[i], binary.build)]]
               /\ Advance
    /\ UNCHANGED <<script, todo, cwd, experiment, binary>>

(* The app exits non-zero in one of the reps (a crash, an enclave out of  *)
(* memory): check_output raises CalledProcessError before the row is       *)
(* written, and the file is left as open(fname, 'a') made it.              *)
AppFails(opened) ==
    /\ AppMayFail
    /\ Raise("CalledProcessError")
    /\ files' = [files EXCEPT ![OutPath] = opened]

(* run_join: open(fname, 'a') creates the file if it is not there; the app *)
(* is run in the directory the script gives check_output, which fails if   *)
(* no binary is there; then the rows are written.                          *)
RunJoin ==
    /\ At("run")
    /\ LET m == MainOf(script)
           b == Step.b
           opened == IF files[OutPath] = Absent THEN <<>> ELSE files[OutPath]
           rows == RunJoinOf(script, b)
       IN IF binary = NoBinary \/ binary.at # Above(cwd, m.runUp)
            THEN /\ Raise("CalledProcessError")
                 /\ files' = [files EXCEPT ![OutPath] = opened]
          ELSE IF ~Supported(script, b)
            THEN /\ Raise("Exception")
                 /\ files' = [files EXCEPT ![OutPath] = opened]
          ELSE \/ /\ files' = [files EXCEPT ![OutPath] = opened \o
                                 [i \in 1 .. Len(rows) |-> RowLine(rows[i], binary.build)]]
                  /\ Advance
               \/ AppFails(opened)
    /\ UNCHANGED <<script, todo, cwd, experiment, binary>>

(* top-graph's run_encrypted_join, after cmake has built the FHE programs. *)
EncryptedJoin ==
    /\ At("encrypted")
    /\ LET b == Step.b
           opened == IF files[OutPath] = Absent THEN <<>> ELSE files[OutPath]
           rows == TopGraphEncryptedJoin(b)
       IN IF ~EncryptedPrivacyKnown(b)
            THEN /\ Raise("Exception")
                 /\ files' = [files EXCEPT ![OutPath] = opened]
          ELSE \/ /\ files' = [files EXCEPT ![OutPath] = opened \o
                                 [i \in 1 .. Len(rows) |-> RowLine(rows[i], FheProgram)]]
                  /\ Advance
               \/ AppFails(opened)
    /\ UNCHANGED <<script, todo, cwd, experiment, binary>>

(* The names csv.DictReader gives the fields: the first line of the file.  *)
(* When that line is a row, its values become the names, and those are    *)
(* never column names.                                                     *)
FieldNames(f) == IF f # <<>> /\ f[1].kind = "header" THEN ToSet(f[1].cols) ELSE {}

(* A plot function: open(fname, 'r') raises FileNotFoundError if there is  *)
(* no file; list(DictReader) gives a dict per line after the first, and    *)
(* x['col'] on one raises KeyError for a name that is not a field. With no *)
(* rows the lookups are never made.                                        *)
Plot ==
    /\ At("plot")
    /\ LET f == files[OutPath] IN
         IF f = Absent THEN Raise("FileNotFoundError")
         ELSE IF Len(f) > 1 /\ ~(Step.b.cols \subseteq FieldNames(f))
           THEN Raise("KeyError")
         ELSE Advance
    /\ UNCHANGED <<script, todo, cwd, experiment, binary, files>>

(* The end of __main__.                                                    *)
Finish ==
    /\ pc = "run"
    /\ pos = Len(Prog) + 1
    /\ pc' = "done"
    /\ UNCHANGED <<script, todo, cwd, experiment, pos, binary, files, error>>

(* The next script of the session is started, whatever became of the last *)
(* one; it finds the files and the binary the earlier ones left.           *)
NextScript ==
    /\ pc \in {"done", "raised"}
    /\ todo # <<>>
    /\ script' = Head(todo)
    /\ todo' = Tail(todo)
    /\ cwd' \in Cwds(Head(todo))
    /\ experiment' \in BOOLEAN
    /\ pc' = "run"
    /\ pos' = 1
    /\ error' = "None"
    /\ UNCHANGED <<binary, files>>

Finished ==
    /\ pc \in {"done", "raised"}
    /\ todo = <<>>
    /\ UNCHANGED vars

Next ==
    \/ RemoveFile \/ InitFile \/ Compile \/ RunJoin \/ EncryptedJoin \/ Plot
    \/ Finish \/ NextScript \/ Finished

Spec == Init /\ [][Next]_vars

-----------------------------------------------------------------------------
(* Spec 2 and 4.5 (ResultRow, persisted file format): every row written to *)
(* a results file has the column set and order of the header the file was *)
(* initialised with; a row is never written to a file without a header.   *)
RowsMatchHeader ==
    \A p \in Paths : LET file == files[p] IN
        file # Absent =>
            \A i \in Rows(file) :
                /\ file[1].kind = "header"
                /\ file[i].cols = file[1].cols

(* Spec 4.1 and 6: the app is run with the working directory where the     *)
(* build put it. Whenever a script is about to run the app, the binary its *)
(* own build call made is in the directory its check_output runs in.       *)
AppFoundWhereBuilt ==
    At("run") =>
        /\ binary # NoBinary
        /\ binary.at = Above(cwd, MainOf(script).runUp)

(* A row was measured by a binary built for it: a row that names a mode    *)
(* was measured by the make target of that mode, with NATIVE_COMPILATION   *)
(* exactly when the target is native; a row that names passes and bits by *)
(* the binary built with those NUM_PASSES and NUM_RADIX_BITS. This fails  *)
(* when a build call sits outside the loop of a dimension it depends on.  *)
RowMeasuredByItsBuild ==
    \A p \in Paths : files[p] # Absent =>
        \A i \in Rows(files[p]) :
            LET r == files[p][i] IN
            r.built # FheProgram =>
                /\ "mode" \in DOMAIN r.key =>
                     /\ r.built.target = IF IsIn("native", r.key.mode)
                                           THEN "native" ELSE "sgx"
                     /\ ("NATIVE_COMPILATION" \in r.built.defs
                            <=> r.built.target = "native")
                /\ "passes" \in DOMAIN r.key => r.built.passes = r.key.passes
                /\ "bits" \in DOMAIN r.key => r.built.bits = r.key.bits

(* Spec 8: one row per configuration point. No two rows of the same shape  *)
(* in a results file name the same point (and phase): a loop dimension     *)
(* the row does not print would make them collide.                         *)
OneRowPerKey ==
    \A p \in Paths : LET file == files[p] IN
        file # Absent =>
            \A i, j \in Rows(file) :
                (i # j /\ file[i].cols = file[j].cols) => file[i].key # file[j].key

(* The plots read what the sweeps wrote. Whenever a script's plot function *)
(* is about to read a results file that holds rows, whether this script's *)
(* run_join or an earlier script of the session wrote them, every column   *)
(* the plot looks up is a field of the file's header.                      *)
PlotReadsWrittenColumns ==
    At("plot") =>
        LET f == files[OutPath] IN
            (f # Absent /\ Len(f) > 1) => Step.b.cols \subseteq FieldNames(f)

(* The header init_file gives the file at p: that of the scripts of the    *)
(* sessions whose __main__ initialises a file that resolves to p.          *)
HeadersAt(p) ==
    {MainOf(s).header : s \in {s \in Scripts :
        MainOf(s).init /\ \E d \in Cwds(s) : Path(d, MainOf(s).out) = p}}
HeaderOf(p) == IF HeadersAt(p) = {} THEN <<>> ELSE CHOOSE h \in HeadersAt(p) : TRUE

(* Every results file, through all the scripts of a session, is used only *)
(* as the specification's ResultStore with that header: created by         *)
(* init_file or by run_join's open('a'), given its header once and first, *)
(* extended by whole rows of the header's columns that leave the earlier   *)
(* lines as they were, and emptied only by remove_file.                     *)
Store(p) == INSTANCE ResultStore
                WITH file <- files[p], Header <- HeaderLine(HeaderOf(p)),
                     Absent <- Absent,
                     IsRow <- LAMBDA l : l.kind = "row" /\ l.cols = HeaderOf(p)
RefinesResultStore ==
    /\ \A p \in Paths : Store(p)!Init
    /\ [][\A p \in Paths : [Store(p)!Next]_(files[p])]_vars

=============================================================================
