--------------------------- MODULE TrialAggregator ---------------------------
(***************************************************************************)
(* One configuration point of a throughput experiment: run_join runs the   *)
(* app Reps times, takes the second float literal of every line containing *)
(* "Throughput" (re.findall("\d+\.\d+", line)[1]) and reduces the samples  *)
(* to the one value it writes, rounded to two decimals.                    *)
(*                                                                         *)
(* The scripts reduce the samples in five different ways; policy is the   *)
(* one of the script run, from Policies:                                   *)
(*   "mean"          statistics.mean (helpers/exp1, exp2, exp5, exp9, ...)*)
(*   "trim"          drop one max and one min if reps > Threshold, then    *)
(*                   mean (helpers/scale-s-native: 3, top-graph: 4)        *)
(*   "sum_over_reps" res += float(t) per line, then res /= reps (exp10,    *)
(*                   exp12, exp13, perf-degradation-wrt-native)            *)
(*   "sentinel"      [-1] when no sample, then mean (helpers/exp6, mcjoin) *)
(*   "zero_default"  mean if any sample else 0 (helpers/exp0)              *)
(*                                                                         *)
(* Values are throughput values in units of 0.01 (the rounding unit), so a *)
(* mean is a fraction num/den of such units and round(x, 2) is rounding to *)
(* an integer.                                                             *)
(***************************************************************************)
EXTENDS Integers, SequencesExt

CONSTANTS
    Policies,   \* the reductions of the scripts checked
    Threshold,  \* trim when reps > Threshold ("trim" only)
    Reps,       \* config['reps'] or the script's reps
    Values,     \* throughput values a run may print
    NoNumber,   \* a value line whose number does not convert
    ParseError, \* what that conversion raises in the script
    Sentinel,   \* the value the "sentinel" policy substitutes (-1.00)
    None,       \* no row written yet
    LinesPerRun \* the "Throughput" lines one run may print (0 .. this)

ASSUME /\ Policies \subseteq {"mean", "trim", "sum_over_reps", "sentinel", "zero_default"}
       /\ Reps \in Nat \ {0}
       /\ Threshold \in Nat
       /\ Values \subseteq Nat
       /\ LinesPerRun \in Nat
       /\ ParseError \in {"IndexError", "ValueError"}

VARIABLES
    policy,   \* which reduction the script's run_join uses
    pc,       \* "run" | "aggregate" | "done": where run_join is
    error,    \* the exception that escaped there, or "None"
    rep,      \* runs of the app so far
    samples,  \* throughput_array / results, in print order
    row       \* the value written, as a fraction of 0.01 units, or None

vars == <<policy, pc, error, rep, samples, row>>

Errors == {"None", "CalledProcessError", "IndexError", "ValueError",
           "StatisticsError"}

(* The outputs one run may produce, as the "Throughput" lines it prints.   *)
RunOutputs == BoundedSeq(Values \cup {NoNumber}, LinesPerRun)

TypeOK ==
    /\ policy \in Policies
    /\ pc \in {"run", "aggregate", "done"}
    /\ error \in Errors
    /\ rep \in 0 .. Reps
    /\ samples \in Seq(Values)
    /\ row \in [num : Int, den : Nat \ {0}] \cup {None}

-----------------------------------------------------------------------------
(* Reductions, as results: an exception or an exact fraction.              *)

Raise(e) == [ok |-> FALSE, error |-> e]
Frac(n, d) == [ok |-> TRUE, num |-> n, den |-> d]

SeqSum(s) == FoldSeq(+, 0, s)

StatMeanOverReps(s) ==
    IF s = <<>> THEN Raise("StatisticsError") ELSE Frac(SeqSum(s), Reps)

(* statistics.mean(s)                                                      *)
StatMean(s) ==
    IF s = <<>> THEN Raise("StatisticsError") ELSE Frac(SeqSum(s), Len(s))

TrimmedMeanMaxTwice(s) ==
    IF Reps > Threshold
      THEN IF s = <<>> THEN Raise("ValueError")
           ELSE LET s1 == RemoveFirst(s, Max(ToSet(s)))
                IN IF s1 = <<>> THEN Raise("ValueError")
                   ELSE StatMean(RemoveFirst(s1, Max(ToSet(s1))))
      ELSE StatMean(s)

(* if reps > T: results.remove(max(results)); results.remove(min(results)) *)
(* then statistics.mean(results). max() / min() of [] raise ValueError.    *)
TrimmedMean(s) ==
    IF Reps > Threshold
      THEN IF s = <<>> THEN Raise("ValueError")
           ELSE LET s1 == RemoveFirst(s, Max(ToSet(s)))
                IN IF s1 = <<>> THEN Raise("ValueError")
                   ELSE StatMean(RemoveFirst(s1, Min(ToSet(s1))))
      ELSE StatMean(s)

(* res = 0; res += float(throughput) per line; res /= reps                 *)
SumOverReps(s) == Frac(SeqSum(s), Reps)

SentinelMeanZero(s) == StatMean(IF s = <<>> THEN <<0>> ELSE s)

(* if len(results) == 0: results = [-1]; statistics.mean(results)          *)
SentinelMean(s) == StatMean(IF s = <<>> THEN <<Sentinel>> ELSE s)

(* statistics.mean(a) if len(a) > 0 else 0                                 *)
ZeroDefaultMean(s) == IF s = <<>> THEN Frac(0, 1) ELSE StatMean(s)

Reduce(s) ==
    CASE policy = "mean"          -> StatMean(s)
      [] policy = "trim"          -> TrimmedMean(s)
      [] policy = "sum_over_reps" -> SumOverReps(s)
      [] policy = "sentinel"      -> SentinelMean(s)
      [] policy = "zero_default"  -> ZeroDefaultMean(s)

(* round(x, 2) of a float: the nearest unit; on an exact tie the binary    *)
(* value of x decides, so either neighbour. \div floors in TLC.            *)
Rounded(f) ==
    LET lo == f.num \div f.den
        rest == f.num - lo * f.den
        Unit(n) == [num |-> n, den |-> 1]
    IN CASE 2 * rest < f.den -> {Unit(lo)}
         [] 2 * rest > f.den -> {Unit(lo + 1)}
         [] OTHER            -> {Unit(lo), Unit(lo + 1)}

(* The value str() writes: rounded to two decimals, except helpers/exp0,   *)
(* which writes the unrounded mean.                                        *)
Written(f) ==
    IF policy = "zero_default" THEN {[num |-> f.num, den |-> f.den]}
    ELSE Rounded(f)

-----------------------------------------------------------------------------
Init ==
    /\ policy \in Policies
    /\ pc = "run"
    /\ error = "None"
    /\ rep = 0
    /\ samples = <<>>
    /\ row = None

(* One iteration of for i in range(reps): check_output raises, or its     *)
(* output is scanned; a value line whose number does not convert raises.   *)
RunOutcome ==
    \/ /\ error' = "CalledProcessError"
       /\ UNCHANGED samples
    \/ \E out \in RunOutputs :
         IF NoNumber \in ToSet(out)
           THEN /\ error' = ParseError
                /\ UNCHANGED samples
           ELSE /\ samples' = samples \o out
                /\ UNCHANGED error

RunAppExtraRep ==
    /\ pc = "run"
    /\ error = "None"
    /\ rep <= Reps
    /\ rep' = rep + 1
    /\ RunOutcome
    /\ UNCHANGED <<policy, pc, row>>

RunApp ==
    /\ pc = "run"
    /\ error = "None"
    /\ rep < Reps
    /\ rep' = rep + 1
    /\ RunOutcome
    /\ UNCHANGED <<policy, pc, row>>

RepsDone ==
    /\ pc = "run"
    /\ error = "None"
    /\ rep = Reps
    /\ pc' = "aggregate"
    /\ UNCHANGED <<policy, error, rep, samples, row>>

(* Reduce, round, f.write(s + "\n").                                       *)
Aggregate ==
    /\ pc = "aggregate"
    /\ error = "None"
    /\ LET r == Reduce(samples)
       IN IF r.ok
            THEN /\ pc' = "done"
                 /\ row' \in Written(r)
                 /\ UNCHANGED error
            ELSE /\ error' = r.error
                 /\ UNCHANGED <<pc, row>>
    /\ UNCHANGED <<policy, rep, samples>>

(* run_join has returned or raised: the caller's next step.               *)
Finished ==
    /\ pc = "done" \/ error # "None"
    /\ UNCHANGED vars

Next == RunApp \/ RepsDone \/ Aggregate \/ Finished

Spec == Init /\ [][Next]_vars

-----------------------------------------------------------------------------
(* The aggregation the specification describes (TrialAggregator): the      *)
(* group is the samples of all trials; when the number of trials exceeds   *)
(* the threshold exactly one maximum and one minimum are removed; the      *)
(* value is the arithmetic mean of what remains. An empty group has no     *)
(* value: it must raise or give the experiment's explicit sentinel.        *)
SpecGroup(s) ==
    IF policy = "trim" /\ Reps > Threshold
      THEN SubSeq(SortSeq(s, <), 2, Len(s) - 1)
      ELSE s

SpecValue(g) == [num |-> SeqSum(g), den |-> Len(g)]

SameValue(a, b) == a.num * b.den = b.num * a.den

(* The value run_join writes is the specification's aggregate of the       *)
(* samples it scraped (up to round(x, 2)); a group with no samples is      *)
(* written only as the explicit -1 sentinel, never as a number; and an     *)
(* aggregation exception (StatisticsError, ValueError from max/min) is     *)
(* raised only for a group that really is empty.                           *)
RowIsSpecAggregate ==
    LET g == SpecGroup(samples) IN
    /\ pc = "done" =>
         IF g = <<>>
           THEN policy = "sentinel" /\ row = [num |-> Sentinel, den |-> 1]
           ELSE IF policy = "zero_default"
                  THEN SameValue(row, SpecValue(g))
                  ELSE \E r \in Rounded(SpecValue(g)) : SameValue(row, r)
    /\ (pc = "aggregate" /\ error # "None") => g = <<>>

=============================================================================
