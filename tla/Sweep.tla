------------------------------- MODULE Sweep -------------------------------
(***************************************************************************)
(* The __main__ of helpers/exp1-off-the-shelf-performance.py (lines        *)
(* 129-137) with what it calls that touches the results file or the app    *)
(* binary: commons.remove_file, commons.init_file, commons.compile_app and *)
(* the file handling of run_join (open 'a', write, close). The trials      *)
(* themselves are one step here (TrialAggregator models them).             *)
(*                                                                         *)
(* file     is what the file system holds (durable across a crash of the   *)
(*          script); buffer is what a Python file object holds before     *)
(*          close() flushes it, lost when the process dies.               *)
(* The script may fail (an exception: make or the app exits non-zero, a    *)
(* parse or aggregation error) or be killed at any point; the user may     *)
(* then run it again, up to MaxRuns times in all.                          *)
(***************************************************************************)
EXTENDS Naturals, Sequences

CONSTANTS
    Modes,      \* config['modes'], in order
    Points,     \* the (ds, alg) pairs of the two inner loops, in order
    Header,     \* "mode,alg,ds,threads,throughput\n"
    Absent,     \* no file
    NoBinary,   \* no app binary in the repository root
    MaxRuns,    \* how often the script is started
    MaxFaults   \* how many failures and crashes happen in all

ASSUME MaxRuns \in Nat \ {0} /\ MaxFaults \in Nat

VARIABLES
    pc,         \* where the script is, or "stopped"
    file,       \* durable content of ../data/throughput-output.csv
    buffer,     \* unflushed writes of the open file object
    binary,     \* the mode the app binary was last built for
    next,       \* index in Order of the point being (or next to be) run
    runs,       \* scripts started so far
    faults,     \* failures and crashes so far
    startFile   \* the file as the current script found it (ghost)

vars == <<pc, file, buffer, binary, next, runs, faults, startFile>>

(* The nested loop order: for mode in modes, for ds, for alg.              *)
NPoints == Len(Modes) * Len(Points)
Order == [i \in 1 .. NPoints |->
            [mode |-> Modes[((i - 1) \div Len(Points)) + 1],
             pt   |-> Points[((i - 1) % Len(Points)) + 1]]]

(* A row: the point, and (not printed, a ghost) the mode the binary that   *)
(* measured it was built for.                                              *)
Row(i, built) == [mode |-> Order[i].mode, pt |-> Order[i].pt, built |-> built]
Range(s) == {s[i] : i \in DOMAIN s}

Rows == {Row(i, b) : i \in 1 .. NPoints, b \in Range(Modes)}

Lines == {Header} \cup Rows

TypeOK ==
    /\ pc \in {"remove", "init", "initClose", "compile", "point", "close",
               "done", "stopped"}
    /\ file \in {Absent} \cup Seq(Lines)
    /\ buffer \in Seq(Lines)
    /\ binary \in Range(Modes) \cup {NoBinary}
    /\ next \in 1 .. NPoints + 1
    /\ runs \in 1 .. MaxRuns
    /\ faults \in 0 .. MaxFaults
    /\ startFile \in {Absent} \cup Seq(Lines)

-----------------------------------------------------------------------------
(* The script ends with an exception: nothing it buffered reaches the file *)
(* (there is nothing buffered at the points where it can raise).           *)
Fail ==
    /\ faults < MaxFaults
    /\ faults' = faults + 1
    /\ pc' = "stopped"

Init ==
    /\ pc = "remove"
    /\ file = Absent
    /\ buffer = <<>>
    /\ binary \in Range(Modes) \cup {NoBinary}
    /\ next = 1
    /\ runs = 1
    /\ faults = 0
    /\ startFile = Absent

(* commons.remove_file: os.remove, ENOENT ignored.                         *)
RemoveFile ==
    /\ pc = "remove"
    /\ file' = Absent
    /\ pc' = "init"
    /\ UNCHANGED <<buffer, binary, next, runs, faults, startFile>>

(* commons.init_file: open(fname, "x") creates the empty file and the      *)
(* header is written into the file object. "x" would raise if the file     *)
(* were there; with one script at a time remove_file has just removed it.  *)
InitFile ==
    /\ pc = "init"
    /\ file = Absent
    /\ file' = <<>>
    /\ buffer' = <<Header>>
    /\ pc' = "initClose"
    /\ UNCHANGED <<binary, next, runs, faults, startFile>>

FlushTruncate == /\ file' = buffer
                 /\ buffer' = <<>>

(* f.close() flushes what the file object holds to the end of the file.    *)
Flush == /\ file' = file \o buffer
         /\ buffer' = <<>>

InitClose ==
    /\ pc = "initClose"
    /\ Flush
    /\ pc' = "compile"
    /\ UNCHANGED <<binary, next, runs, faults, startFile>>

CompileAppIgnoreFailure ==
    /\ pc = "compile"
    /\ \/ /\ binary' = Order[next].mode
          /\ pc' = "point"
       \/ /\ binary' = NoBinary
          /\ pc' = "point"
    /\ UNCHANGED <<file, buffer, next, runs, faults, startFile>>

(* commons.compile_app(mode): make clean removes the binary, make -B       *)
(* builds it for the mode's target; a failing make raises.                 *)
CompileApp ==
    /\ pc = "compile"
    /\ \/ /\ binary' = Order[next].mode
          /\ pc' = "point"
          /\ UNCHANGED faults
       \/ /\ binary' = NoBinary
          /\ Fail
    /\ UNCHANGED <<file, buffer, next, runs, startFile>>

(* run_join: open(fname, 'a'), the trials, then f.write(row); it raises    *)
(* if a trial or the aggregation does.                                     *)
RunJoin ==
    /\ pc = "point"
    /\ \/ /\ buffer' = <<Row(next, binary)>>
          /\ pc' = "close"
          /\ UNCHANGED faults
       \/ /\ Fail
          /\ UNCHANGED buffer
    /\ UNCHANGED <<file, binary, next, runs, startFile>>

CloseRowNoRecompile ==
    /\ pc = "close"
    /\ Flush
    /\ next' = next + 1
    /\ pc' = IF next = NPoints THEN "done" ELSE "point"
    /\ UNCHANGED <<binary, runs, faults, startFile>>

CloseRowEarlyDone ==
    /\ pc = "close"
    /\ Flush
    /\ next' = next + 1
    /\ pc' = CASE next + 1 = NPoints                    -> "done"
               [] Order[next + 1].mode # Order[next].mode -> "compile"
               [] OTHER                                 -> "point"
    /\ UNCHANGED <<binary, runs, faults, startFile>>

(* f.close() at the end of run_join; the loops go on to the next point,    *)
(* compiling first when the mode changes.                                  *)
CloseRow ==
    /\ pc = "close"
    /\ Flush
    /\ next' = next + 1
    /\ pc' = CASE next = NPoints                        -> "done"
               [] Order[next + 1].mode # Order[next].mode -> "compile"
               [] OTHER                                 -> "point"
    /\ UNCHANGED <<binary, runs, faults, startFile>>

(* The process is killed (Ctrl-C, OOM, power to the job lost): unflushed   *)
(* writes are gone; a kill during compile_app may leave no binary.         *)
Crash ==
    /\ pc \notin {"done", "stopped"}
    /\ faults < MaxFaults
    /\ faults' = faults + 1
    /\ pc' = "stopped"
    /\ buffer' = <<>>
    /\ binary' \in IF pc = "compile" THEN {binary, NoBinary} ELSE {binary}
    /\ UNCHANGED <<file, next, runs, startFile>>

(* The user starts the script again; it finds the file as it is.          *)
Rerun ==
    /\ pc \in {"done", "stopped"}
    /\ runs < MaxRuns
    /\ runs' = runs + 1
    /\ pc' = "remove"
    /\ next' = 1
    /\ startFile' = file
    /\ UNCHANGED <<file, buffer, binary, faults>>

Finished ==
    /\ pc \in {"done", "stopped"}
    /\ UNCHANGED vars

Next ==
    \/ RemoveFile \/ InitFile \/ InitClose \/ CompileApp \/ RunJoin
    \/ CloseRow \/ Crash \/ Rerun \/ Finished

(* The script's own steps are taken (it is a single sequential process),   *)
(* and the user re-runs a script that did not finish.                      *)
Fairness ==
    /\ WF_vars(RemoveFile) /\ WF_vars(InitFile) /\ WF_vars(InitClose)
    /\ WF_vars(CompileApp) /\ WF_vars(RunJoin) /\ WF_vars(CloseRow)
    /\ WF_vars(Rerun /\ pc = "stopped")

Spec == Init /\ [][Next]_vars
FairSpec == Spec /\ Fairness

-----------------------------------------------------------------------------
(* Row i as the sweep should measure it: with a binary built for its mode. *)
Measured(i) == Row(i, Order[i].mode)
MeasuredUpTo(k) == [i \in 1 .. k |-> Measured(i)]

(* The durable file is the one the script found, until it removes it, and *)
(* from then on its header followed by exactly the rows of the points      *)
(* whose run_join has returned, in loop order, each measured with a binary *)
(* compiled for its own mode: a kill at any moment loses only the point in *)
(* progress, and no row is duplicated, reordered or measured with the     *)
(* previous mode's app.                                                    *)
CompletedPointsDurable ==
    file \notin {Absent, <<>>} =>
        \/ file = <<Header>> \o MeasuredUpTo(next - 1)
        \/ next = 1 /\ file = startFile

(* The file only ever behaves as the specification's ResultStore: created, *)
(* given its header, extended by whole rows, or removed as a whole.        *)
Store == INSTANCE ResultStore
             WITH file <- file, Header <- Header, Absent <- Absent,
                  IsRow <- LAMBDA l : l \in Rows
RefinesResultStore == Store!Spec

(* If the faults stop and the user re-runs the script after each one, the  *)
(* file eventually holds a row for every point of the sweep.               *)
AllPointsEventuallyWritten ==
    <>(file = <<Header>> \o MeasuredUpTo(NPoints))

(* Spec 4.5 and 8 (resumability): a run that finds a point's row in the    *)
(* existing file does not execute that point again.                        *)
PointsIn(f) ==
    IF f = Absent THEN {}
    ELSE {[mode |-> f[i].mode, pt |-> f[i].pt] : i \in 2 .. Len(f)}
NoReexecution ==
    pc = "point" => Order[next] \notin PointsIn(startFile)
=============================================================================
