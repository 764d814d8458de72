----------------------------- MODULE Benchmark -----------------------------
(***************************************************************************)
(* scripts/benchmark.py: read_args, run_experiment and __main__. The       *)
(* dispatcher maps an experiment id to a script of scripts/helpers and     *)
(* runs it with os.system; with 'all' it runs every id of EXPERIMENTS in   *)
(* turn. A script is a black box here with an exit status (see Sweep for   *)
(* what happens inside one).                                               *)
(***************************************************************************)
EXTENDS Naturals, Sequences, SequencesExt

CONSTANTS
    EXPERIMENTS,   \* the ids, in the order of the list in benchmark.py
    HelperFiles,   \* the files present in scripts/helpers
    Argvs,         \* the command lines the dispatcher may be given
    NoArg          \* an absent argv element

VARIABLES
    argv,      \* sys.argv (fixed for a behaviour)
    pc,        \* "start" | "dispatch" | "exited" | "raised"
    args,      \* the ' -r ...' string read_args returns
    queue,     \* ids not dispatched yet
    log        \* the os.system calls made: [exp, script, status]

vars == <<argv, pc, args, queue, log>>

(* run_experiment's if-chain; "" for the ids that only print instructions. *)
ScriptOf(e) ==
    CASE e = "f1"  -> "top-graph.py"
      [] e = "f4"  -> "exp1-off-the-shelf-performance.py"
      [] e = "f5"  -> "exp6-scale-r-experiment.py"
      [] e = "f6"  -> "exp5-real-dataset-experiment.py"
      [] e = "f7"  -> "exp8-phases-experiment.py"
      [] e = "f8"  -> "exp13-throughput-scale-input-experiment.py"
      [] e = "f9"  -> "exp14-seal-chunk-size.py"
      [] e = "t3"  -> "exp4-performance-counters-experiment-SUDO.py"
      [] e = "f10" -> "exp0-seal-materialize-experiment.py"
      [] e = "f11" -> "exp12-throughput-oblivious-algos-experiment.py"
      [] e = "f12" -> "exp15-multi-threading-atomic-experiment.py"
      [] e = "f13" -> "exp9-selectivity-experiment.py"
      [] e = "f14" -> "exp10-skew-experiment.py"
      [] e = "f15" -> "exp11-sorted-input-experiment.py"
      [] e = "f16" -> "exp6-scale-r-experiment.py"
      [] e = "f17" -> ""
      [] e = "f18" -> "exp2-multi-threading-experiment.py"
      [] e = "f19" -> ""

Scripts == {ScriptOf(e) : e \in ToSet(EXPERIMENTS)} \ {""}

TypeOK ==
    /\ argv \in Argvs
    /\ pc \in {"start", "dispatch", "exited", "raised"}
    /\ args \in {"", " -r 1 ", " -r 3"}
    /\ queue \in Seq(ToSet(EXPERIMENTS))
    /\ log \in Seq([exp : ToSet(EXPERIMENTS), script : Scripts,
                   status : {0, 1, 2}])

-----------------------------------------------------------------------------
(* str.isnumeric and int() over the argument values the model uses.        *)
IsNumeric(a) == a \in {"0", "3"}
IntPositive(a) == a = "3"

Arg(i) == IF Len(argv) >= i THEN argv[i] ELSE NoArg

(* read_args: raises, or returns the experiment and return_args.          *)
Raised == [ok |-> FALSE, exp |-> "", args |-> ""]
Parsed(e, a) == [ok |-> TRUE, exp |-> e, args |-> a]

ReadArgsResultNoPositiveCheck ==
    IF Len(argv) < 2 THEN Raised
    ELSE IF Arg(2) \notin ToSet(EXPERIMENTS) /\ Arg(2) # "all" THEN Raised
    ELSE CASE Arg(3) = NoArg  -> Parsed(Arg(2), "")
           [] Arg(3) = "fast" -> Parsed(Arg(2), " -r 1 ")
           [] IsNumeric(Arg(3)) -> Parsed(Arg(2), " -r " \o Arg(3))
           [] OTHER           -> Raised

ReadArgsResult ==
    IF Len(argv) < 2 THEN Raised
    ELSE IF Arg(2) \notin ToSet(EXPERIMENTS) /\ Arg(2) # "all" THEN Raised
    ELSE CASE Arg(3) = NoArg  -> Parsed(Arg(2), "")
           [] Arg(3) = "fast" -> Parsed(Arg(2), " -r 1 ")
           [] IsNumeric(Arg(3)) /\ IntPositive(Arg(3))
                              -> Parsed(Arg(2), " -r " \o Arg(3))
           [] OTHER           -> Raised

Init ==
    /\ argv \in Argvs
    /\ pc = "start"
    /\ args = ""
    /\ queue = <<>>
    /\ log = <<>>

ReadArgsAllSkipsFirst ==
    /\ pc = "start"
    /\ LET r == ReadArgsResult IN
         IF ~r.ok
           THEN /\ pc' = "raised"
                /\ UNCHANGED <<args, queue>>
           ELSE /\ pc' = "dispatch"
                /\ args' = r.args
                /\ queue' = IF r.exp = "all" THEN Tail(EXPERIMENTS) ELSE <<r.exp>>
    /\ UNCHANGED <<argv, log>>

(* __main__: read_args, then one id or, for 'all', every id of the list.   *)
ReadArgs ==
    /\ pc = "start"
    /\ LET r == ReadArgsResult IN
         IF ~r.ok
           THEN /\ pc' = "raised"
                /\ UNCHANGED <<args, queue>>
           ELSE /\ pc' = "dispatch"
                /\ args' = r.args
                /\ queue' = IF r.exp = "all" THEN EXPERIMENTS ELSE <<r.exp>>
    /\ UNCHANGED <<argv, log>>

(* The exit status of a script run: 0, or 1 for an uncaught exception;     *)
(* python3 on a file that is not there exits with status 2.                *)
ExitStatuses(s) == IF s \in HelperFiles THEN {0, 1} ELSE {2}

(* run_experiment(exp, ARGS): instructions only, or chdir('helpers'),      *)
(* os.system('python3 ' + script + ' ' + args) (status ignored),          *)
(* chdir('..').                                                            *)
RunExperiment ==
    /\ pc = "dispatch"
    /\ queue # <<>>
    /\ queue' = Tail(queue)
    /\ LET e == Head(queue)
           s == ScriptOf(e)
       IN IF s = ""
            THEN UNCHANGED log
            ELSE \E st \in ExitStatuses(s) :
                   log' = Append(log, [exp |-> e, script |-> s, status |-> st])
    /\ UNCHANGED <<argv, pc, args>>

(* The end of __main__: the interpreter exits with status 0.               *)
Exit ==
    /\ pc = "dispatch"
    /\ queue = <<>>
    /\ pc' = "exited"
    /\ UNCHANGED <<argv, args, queue, log>>

Finished ==
    /\ pc \in {"exited", "raised"}
    /\ UNCHANGED vars

Next == ReadArgs \/ RunExperiment \/ Exit \/ Finished

Spec == Init /\ [][Next]_vars

-----------------------------------------------------------------------------
(* The ids the command line selects, in the order they should run.         *)
Selection ==
    IF Arg(2) = "all" THEN EXPERIMENTS ELSE <<Arg(2)>>
Executable(e) == ScriptOf(e) # ""

(* The dispatcher starts exactly the scripts of the selected experiments   *)
(* that have one, each once and in the order of EXPERIMENTS, and none at   *)
(* all when read_args rejects the command line; the scripts started so    *)
(* far are always those of a prefix of the selection.                      *)
RunsAreTheSelection ==
    LET ran == [i \in 1 .. Len(log) |-> log[i].exp]
        todo == SelectSeq(Selection, Executable)
    IN /\ pc = "raised" => log = <<>>
       /\ pc = "exited" => ran = todo
       /\ pc = "dispatch" =>
            ran = SelectSeq(SubSeq(Selection, 1, Len(Selection) - Len(queue)),
                            Executable)

(* Spec 7: a process failure is fatal and surfaced. benchmark.py exits     *)
(* with status 0 only if every script it started exited with status 0.     *)
ExitStatusReflectsFailures ==
    pc = "exited" => \A i \in 1 .. Len(log) : log[i].status = 0
=============================================================================
