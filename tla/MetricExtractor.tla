--------------------------- MODULE MetricExtractor ---------------------------
(***************************************************************************)
(* MetricExtractor (spec 4.2): the two line scans of the scripts' run_join. *)
(* script is the run_join checked: "exp4", the counter-block scan, or      *)
(* "exp1" and "exp8", the Throughput and Phase scan; the lines a script    *)
(* has no branch for leave its state alone and are not generated.         *)
(*                                                                         *)
(* The hardware-counter extractor of the performance-counter experiment   *)
(* (scripts/helpers/exp4-performance-counters-experiment-SUDO.py,          *)
(* run_join): the app is run Reps times, each run's output is scanned line *)
(* by line, "Get system counter state: <name>" lines open a named phase,   *)
(* counter lines append a value to the current Phase object, "end===="     *)
(* lines store that object in dict[name]; afterwards every Phase in dict   *)
(* is averaged and written as one CSV row.                                 *)
(*                                                                         *)
(* Python object identity matters here: phase = dict.get(name) aliases the *)
(* object already stored, so the heap of Phase objects is modelled         *)
(* explicitly (heap, phase as an object id).                               *)
(*                                                                         *)
(* Beside the code's state the module carries the extractor of the spec    *)
(* (section 4.2) as ghost state: a group opened by a header and closed by  *)
(* the end marker, every metric line tagged with the open group.           *)
(*                                                                         *)
(* The Throughput and Phase scan of helpers/exp1-off-the-shelf-            *)
(* performance.py, helpers/throughput-all-algs-native.py and               *)
(* exp8-phases-experiment.py: for every line of every run's output,        *)
(*   if "Throughput" in line: the second float literal is appended to     *)
(*       throughput_array;                                                 *)
(*   if "Phase" in line: the word after the word "Phase" names a phase,    *)
(*       the second-to-last integer literal is appended to                 *)
(*       dic_phases[name].                                                 *)
(* After the runs "exp1" (also throughput-all-algs-native) writes one row  *)
(* from throughput_array and drops dic_phases; "exp8" writes one row per   *)
(* key of dic_phases, in insertion order, and drops throughput_array.      *)
(* Such a line is the sequence of its words (line.split()); a word is its  *)
(* text, for the markers, "Phase" and the dictionary keys, and the         *)
(* literals re.findall finds in it: no literal spans the white space      *)
(* between words, so the literals of a line are those of its words in      *)
(* order. The reduction of a row's samples (statistics.mean, round) is     *)
(* TrialAggregator's "mean" policy; here a row is the samples it reduces.  *)
(*                                                                         *)
(* "mtall" is run_join of multi-threading-all-data-at-once.py: one loop    *)
(* that tests every marker of both scans on every line, then writes the    *)
(* throughput row, reduces the Phase objects, reduces dic_phases without   *)
(* writing it, and writes one row per Phase object. Its __main__ passes    *)
(* reps = 1. A line of the app is taken to carry the markers of one scan   *)
(* only, and the word lines of a run to come among its first MaxWordLines  *)
(* lines (the two scans share no state, so their relative order only      *)
(* decides which failure is raised first).                                 *)
(***************************************************************************)
EXTENDS Naturals, SequencesExt, FiniteSets

CONSTANTS
    Scripts,        \* the run_joins checked, from {"exp4", "exp1", "exp8", "mtall"}
    Words,          \* the words of Throughput and Phase lines: [text, ints, floats]
    MaxWords,       \* bound on the words of one such line
    MaxWordLines,   \* bound on the Throughput and Phase lines of one run
    None,           \* exp1 and exp8: no row written yet
    Names,          \* phase names printed by the app
    Metrics,        \* counter kinds (L2 cache misses, EWB, ...)
    Values,         \* well-formed counter values
    Malformed,      \* a counter line whose value int()/float() rejects
    Absent,         \* dict has no entry for a key
    Unbound,        \* the local variable phase was never assigned
    NoName,         \* name = "" (reset at the start of every run)
    Reps,           \* config['reps']
    MaxLines,       \* bound on the lines of one run's output
    ClosedBlocks,     \* the app closes every header block with end====
                      \* before the next header and before it exits
    CountersInBlocks, \* the app prints counter lines only inside a block
    ValidValues       \* every counter value parses

ASSUME /\ Scripts \subseteq {"exp4", "exp1", "exp8", "mtall"}
       /\ MaxWords \in Nat /\ MaxWordLines \in Nat
       /\ Reps \in Nat \ {0}
       /\ MaxLines \in Nat
       /\ {ClosedBlocks, CountersInBlocks, ValidValues} \subseteq BOOLEAN

Keys == Names \cup {NoName}            \* what name can hold
ObjIds == 1 .. (Reps * MaxLines)       \* at most one Phase() per header line

(* The reps argument run_join gets: config['reps'], but 1 for mtall.        *)
RepsOf(s) == IF s = "mtall" THEN 1 ELSE Reps
Errors == {"None", "CalledProcessError", "ValueError", "IndexError",
           "UnboundLocalError", "AggregateError", "StatisticsError"}

(* The line kinds the scan recognises; every other line is ignored.        *)
Header(n) == [kind |-> "header", name |-> n]
Counter(m, v) == [kind |-> "counter", metric |-> m, val |-> v]
EndMark == [kind |-> "end"]
Lines == {Header(n) : n \in Names} \cup
         {Counter(m, v) : m \in Metrics, v \in Values \cup {Malformed}}
         \cup {EndMark}

(* "m" in s for strings: s has m as a substring.                          *)
IsSub(m, s) ==
    \E i \in 0 .. Len(s) - Len(m) : SubSeq(s, i + 1, i + Len(m)) = m

Has(line, m) == \E i \in DOMAIN line : IsSub(m, line[i].text)

IntsOf(line) == FlattenSeq([i \in DOMAIN line |-> line[i].ints])
FloatsOf(line) == FlattenSeq([i \in DOMAIN line |-> line[i].floats])

(* The word lines the scan acts on.                                        *)
WordLines == {l \in BoundedSeq(Words, MaxWords) :
                 Has(l, "Throughput") \/ Has(l, "Phase")}

VARIABLES
    script,      \* which run_join
    pc,          \* "run" | "scan" | "aggregate" | "done" | "failed"
    error,       \* the exception that ended run_join, or "None"
    rep,         \* runs started so far (loop variable i + 1)
    nLines,      \* lines scanned in the current run
    dict,        \* Keys -> ObjIds \cup {Absent}
    heap,        \* ObjIds allocated so far -> [Metrics -> Seq(values)]
    phase,       \* the local phase: an object id or Unbound
    name,        \* the local name
    written,     \* rows written to the CSV: phase key -> samples per metric
    specOpen,    \* ghost: the group the spec's extractor has open
    specSeen,    \* ghost: groups the spec's extractor has opened
    specSamples, \* ghost: samples the spec tags with each group
    throughput_array, \* exp1, exp8: the Throughput samples
    dic_phases,  \* exp1, exp8: <<[name, vals]>> in insertion order
    rows,        \* exp1, exp8: the rows written, [name, vals], or None
    lineSamples, \* ghost: spec 4.2 samples [metric, name, val] in order
    lineDropped  \* ghost: a marker line was a spec 4.2 parse failure

codeVars == <<pc, error, rep, nLines, dict, heap, phase, name, written>>
specVars == <<specOpen, specSeen, specSamples>>
lineVars == <<script, throughput_array, dic_phases, rows, lineSamples, lineDropped>>
vars == <<codeVars, specVars, lineVars>>

Texts == {w.text : w \in Words}
Nums == UNION {ToSet(w.ints) \cup ToSet(w.floats) : w \in Words}
Entry == [name : Texts \cup {"throughput"}, vals : Seq(Nums)]

NoSamples == [m \in Metrics |-> <<>>]

TypeOK ==
    /\ script \in Scripts
    /\ pc \in {"run", "scan", "aggregate", "done", "failed"}
    /\ error \in Errors
    /\ rep \in 0 .. Reps
    /\ nLines \in 0 .. MaxLines
    /\ DOMAIN heap \subseteq ObjIds
    /\ \A o \in DOMAIN heap : heap[o] \in [Metrics -> Seq(Values)]
    /\ dict \in [Keys -> DOMAIN heap \cup {Absent}]
    /\ phase \in DOMAIN heap \cup {Unbound}
    /\ name \in Keys
    /\ DOMAIN written \subseteq Keys
    /\ specOpen \in Names \cup {NoName}
    /\ specSeen \subseteq Names
    /\ specSamples \in [Names -> [Metrics -> Seq(Values)]]
    /\ throughput_array \in Seq(Nums)
    /\ dic_phases \in Seq(Entry)
    /\ rows \in Seq(Entry) \cup {None}
    /\ lineSamples \in Seq([metric : {"throughput", "phase"},
                           name : Texts \cup {"throughput"}, val : Nums])
    /\ lineDropped \in BOOLEAN

(* f = open(filename, "a"); dict = {}                                      *)
Init ==
    /\ script \in Scripts
    /\ pc = "run"
    /\ error = "None"
    /\ rep = 0
    /\ nLines = 0
    /\ dict = [k \in Keys |-> Absent]
    /\ heap = <<>>
    /\ phase = Unbound
    /\ name = NoName
    /\ written = <<>>
    /\ specOpen = NoName
    /\ specSeen = {}
    /\ specSamples = [n \in Names |-> NoSamples]
    /\ throughput_array = <<>>
    /\ dic_phases = <<>>
    /\ rows = None
    /\ lineSamples = <<>>
    /\ lineDropped = FALSE

Fail(e) == /\ pc' = "failed"
           /\ error' = e

(* Mutant: the rep loop runs one time too many.                           *)
RunAppExtraRep ==
    /\ pc = "run"
    /\ rep <= RepsOf(script)
    /\ pc' = "scan"
    /\ rep' = rep + 1
    /\ nLines' = 0
    /\ name' = NoName
    /\ specOpen' = NoName
    /\ UNCHANGED <<error, dict, heap, phase, written, specSeen, specSamples,
                   lineVars>>

(* stdout = subprocess.check_output("sudo " + prog + ...); name = ""       *)
(* A non-zero exit raises CalledProcessError out of run_join.              *)
RunApp ==
    /\ pc = "run"
    /\ rep < RepsOf(script)
    /\ \/ /\ pc' = "scan"
          /\ rep' = rep + 1
          /\ nLines' = 0
          /\ name' = NoName
          /\ specOpen' = NoName
          /\ UNCHANGED <<error, dict, heap, phase, written, specSeen, specSamples>>
       \/ /\ Fail("CalledProcessError")
          /\ UNCHANGED <<rep, nLines, dict, heap, phase, name, written, specVars>>
    /\ UNCHANGED lineVars

(* A line the app may print next, given the spec's open group; a line     *)
(* that opens or stays in a block leaves room for its end====.             *)
MayPrint(l) ==
    /\ ClosedBlocks =>
         /\ l.kind = "header" => specOpen = NoName
         /\ l.kind = "end" => specOpen # NoName
         /\ specOpen # NoName \/ l.kind = "header" => l.kind = "end" \/ nLines + 1 < MaxLines
    /\ CountersInBlocks => (l.kind = "counter" => specOpen # NoName)
    /\ ValidValues => (l.kind = "counter" => l.val # Malformed)

(* The spec's extractor on one line.                                       *)
SpecStep(l) ==
    CASE l.kind = "header" ->
            /\ specOpen' = l.name
            /\ specSeen' = specSeen \cup {l.name}
            /\ UNCHANGED specSamples
      [] l.kind = "counter" ->
            /\ specSamples' =
                 IF specOpen = NoName \/ l.val = Malformed THEN specSamples
                 ELSE [specSamples EXCEPT ![specOpen][l.metric] = Append(@, l.val)]
            /\ UNCHANGED <<specOpen, specSeen>>
      [] l.kind = "end" ->
            /\ specOpen' = NoName
            /\ UNCHANGED <<specSeen, specSamples>>

(* Mutant: a fresh Phase() at every header, dropping the reuse of the     *)
(* object stored by an earlier run.                                        *)
ScanHeaderNoReuse(n) ==
    /\ name' = n
    /\ phase' = Len(heap) + 1
    /\ heap' = Append(heap, NoSamples)
    /\ UNCHANGED <<pc, error, dict, written>>

(* if "Get system counter state" in line: name = ...;                      *)
(*     phase = dict.get(name) if name in dict.keys() else Phase()          *)
ScanHeader(n) ==
    /\ name' = n
    /\ IF dict[n] # Absent
         THEN /\ phase' = dict[n]
              /\ UNCHANGED heap
         ELSE LET o == Len(heap) + 1
              IN /\ phase' = o
                 /\ heap' = Append(heap, NoSamples)
    /\ UNCHANGED <<pc, error, dict, written>>

(* if "L2 cache misses" in line: val = int(...); phase.l2Miss.append(val)  *)
(* (one branch per counter kind; the value is converted before phase is    *)
(* read).                                                                  *)
ScanCounter(m, v) ==
    /\ CASE v = Malformed ->
              /\ Fail("ValueError")
              /\ UNCHANGED heap
         [] phase = Unbound ->
              /\ Fail("UnboundLocalError")
              /\ UNCHANGED heap
         [] OTHER ->
              /\ heap' = [heap EXCEPT ![phase][m] = Append(@, v)]
              /\ UNCHANGED <<pc, error>>
    /\ UNCHANGED <<dict, phase, name, written>>

(* if "end====" in line: dict[name] = phase                                *)
ScanEnd ==
    /\ IF phase = Unbound
         THEN /\ Fail("UnboundLocalError")
              /\ UNCHANGED dict
         ELSE /\ dict' = [dict EXCEPT ![name] = phase]
              /\ UNCHANGED <<pc, error>>
    /\ UNCHANGED <<heap, phase, name, written>>

(* One header, counter or end==== line through the marker ifs.             *)
CounterLine ==
    /\ nLines < MaxLines
    /\ \E l \in Lines :
         /\ MayPrint(l)
         /\ nLines' = nLines + 1
         /\ SpecStep(l)
         /\ CASE l.kind = "header"  -> ScanHeader(l.name)
              [] l.kind = "counter" -> ScanCounter(l.metric, l.val)
              [] l.kind = "end"     -> ScanEnd
    /\ UNCHANGED <<rep, lineVars>>

ScanLine ==
    /\ script = "exp4"
    /\ pc = "scan"
    /\ CounterLine

(* The for-line loop ends: back to the test of the for-rep loop.          *)
EndOfOutput ==
    /\ pc = "scan"
    /\ ClosedBlocks => specOpen = NoName
    /\ pc' = "run"
    /\ UNCHANGED <<error, rep, nLines, dict, heap, phase, name, written, specVars,
                   lineVars>>

(* for i in range(0, reps) is exhausted.                                   *)
RepsDone ==
    /\ pc = "run"
    /\ rep = RepsOf(script)
    /\ pc' = "aggregate"
    /\ UNCHANGED <<error, rep, nLines, dict, heap, phase, name, written, specVars,
                   lineVars>>

StoredKeys == {k \in Keys : dict[k] # Absent}

(* The first "for k,v in dict.items()" loop replaces every list of v by    *)
(* its rounded mean: statistics.mean raises on an empty list, and on a     *)
(* second key aliasing an already reduced object (its field is no longer a *)
(* list).  Only if no key raised does the second loop write one row per    *)
(* key; f.close().                                                         *)
AggregateFails ==
    \/ \E k \in StoredKeys, m \in Metrics : heap[dict[k]][m] = <<>>
    \/ \E k1, k2 \in StoredKeys : k1 # k2 /\ dict[k1] = dict[k2]

Aggregate ==
    /\ script = "exp4"
    /\ pc = "aggregate"
    /\ IF AggregateFails
         THEN /\ Fail("AggregateError")
              /\ UNCHANGED written
         ELSE /\ pc' = "done"
              /\ written' = [k \in StoredKeys |-> heap[dict[k]]]
              /\ UNCHANGED error
    /\ UNCHANGED <<rep, nLines, dict, heap, phase, name, specVars, lineVars>>

-----------------------------------------------------------------------------
(* The Throughput and Phase scan (exp1, exp8).                             *)

(* The extractor of spec 4.2 on one word line: each marker gives the       *)
(* literal at its position, tagged with its group; a marker line with too  *)
(* few literals (or no phase name) gives no sample and is reported.        *)
SpecTput(l) ==
    IF Len(FloatsOf(l)) >= 2
      THEN <<[metric |-> "throughput", name |-> "throughput",
              val |-> FloatsOf(l)[2]]>>
      ELSE <<>>

SpecPhase(l) ==
    LET i == SelectInSeq(l, LAMBDA w : w.text = "Phase")
        ns == IntsOf(l)
    IN IF i # 0 /\ i < Len(l) /\ Len(ns) >= 2
         THEN <<[metric |-> "phase", name |-> l[i + 1].text,
                 val |-> ns[Len(ns) - 1]]>>
         ELSE <<>>

SpecWordStep(l) ==
    LET t == IF Has(l, "Throughput") THEN SpecTput(l) ELSE <<>>
        p == IF Has(l, "Phase") THEN SpecPhase(l) ELSE <<>>
    IN /\ lineSamples' = lineSamples \o t \o p
       /\ lineDropped' = \/ lineDropped
                         \/ Has(l, "Throughput") /\ t = <<>>
                         \/ Has(l, "Phase") /\ p = <<>>

(* Mutant: the list of a name already in dic_phases is replaced, not      *)
(* appended to.                                                            *)
AddPhaseOverwrite(d, n, v) ==
    LET k == SelectInSeq(d, LAMBDA e : e.name = n)
    IN IF k # 0 THEN [d EXCEPT ![k].vals = <<v>>]
       ELSE Append(d, [name |-> n, vals |-> <<v>>])

(* dic_phases[name].append(v) if name in dic_phases else [v].              *)
AddPhase(d, n, v) ==
    LET k == SelectInSeq(d, LAMBDA e : e.name = n)
    IN IF k # 0 THEN [d EXCEPT ![k].vals = Append(@, v)]
       ELSE Append(d, [name |-> n, vals |-> <<v>>])

(* One line, both ifs in order. The Throughput branch: findall(...)[1]     *)
(* raises IndexError with fewer than two floats. The Phase branch:         *)
(* words.index("Phase") raises ValueError when no word is exactly "Phase", *)
(* words[i + 1] IndexError when it is the last word, findall(...)[-2]      *)
(* IndexError with fewer than two integers.                                *)
WordLine ==
    /\ nLines < MaxWordLines
    /\ \E l \in WordLines :
         LET isT == Has(l, "Throughput")
             isP == Has(l, "Phase")
             fl  == FloatsOf(l)
             ns  == IntsOf(l)
             i   == SelectInSeq(l, LAMBDA w : w.text = "Phase")
             tputs == IF isT /\ Len(fl) >= 2 THEN Append(throughput_array, fl[2])
                      ELSE throughput_array
         IN /\ nLines' = nLines + 1
            /\ SpecWordStep(l)
            /\ CASE isT /\ Len(fl) < 2 ->
                      /\ Fail("IndexError")
                      /\ UNCHANGED <<throughput_array, dic_phases>>
                 [] isP /\ i = 0 ->
                      /\ Fail("ValueError")
                      /\ throughput_array' = tputs
                      /\ UNCHANGED dic_phases
                 [] isP /\ (i = Len(l) \/ Len(ns) < 2) ->
                      /\ Fail("IndexError")
                      /\ throughput_array' = tputs
                      /\ UNCHANGED dic_phases
                 [] OTHER ->
                      /\ throughput_array' = tputs
                      /\ dic_phases' = IF isP
                                         THEN AddPhase(dic_phases, l[i + 1].text,
                                                       ns[Len(ns) - 1])
                                         ELSE dic_phases
                      /\ UNCHANGED <<pc, error>>
    /\ UNCHANGED <<script, rep, rows, dict, heap, phase, name, written, specVars>>

ScanWordLine ==
    /\ script \in {"exp1", "exp8"}
    /\ pc = "scan"
    /\ WordLine

(* exp1: throughput = statistics.mean(throughput_array) raises on an     *)
(* empty list; else the row is written and the file closed.                *)
AggregateThroughput ==
    /\ script = "exp1"
    /\ pc = "aggregate"
    /\ IF throughput_array = <<>>
         THEN /\ Fail("StatisticsError")
              /\ UNCHANGED rows
         ELSE /\ rows' = <<[name |-> "throughput", vals |-> throughput_array]>>
              /\ pc' = "done"
              /\ UNCHANGED error
    /\ UNCHANGED <<script, rep, nLines, throughput_array, dic_phases, lineSamples,
                   lineDropped, dict, heap, phase, name, written, specVars>>

(* exp8: for x in dic_phases, one row each with statistics.mean of its     *)
(* list (never empty, so it never raises); then f_phases.close().          *)
AggregatePhases ==
    /\ script = "exp8"
    /\ pc = "aggregate"
    /\ rows' = dic_phases
    /\ pc' = "done"
    /\ UNCHANGED <<error, script, rep, nLines, throughput_array, dic_phases,
                   lineSamples, lineDropped, dict, heap, phase, name, written,
                   specVars>>

(* mtall, every if of the loop body on one line: the counter markers or    *)
(* the Throughput and Phase markers.                                       *)
ScanAllLine ==
    /\ script = "mtall"
    /\ pc = "scan"
    /\ CounterLine \/ WordLine

(* mtall: reps > 3 never holds (reps = 1), so results is not trimmed;      *)
(* statistics.mean(results) raises on an empty list before anything is     *)
(* written, else f.write of the throughput row. Then the first             *)
(* dict.items() loop (AggregateFails raises, the throughput row stays in   *)
(* f), the dic_phases loop (means of non-empty lists; s is built and never *)
(* written), one row per key of dict, f.close().                           *)
AggregateAll ==
    /\ script = "mtall"
    /\ pc = "aggregate"
    /\ IF throughput_array = <<>>
         THEN /\ Fail("StatisticsError")
              /\ UNCHANGED <<rows, written>>
         ELSE /\ rows' = <<[name |-> "throughput", vals |-> throughput_array]>>
              /\ IF AggregateFails
                   THEN /\ Fail("AggregateError")
                        /\ UNCHANGED written
                   ELSE /\ pc' = "done"
                        /\ written' = [k \in StoredKeys |-> heap[dict[k]]]
                        /\ UNCHANGED error
    /\ UNCHANGED <<script, rep, nLines, throughput_array, dic_phases, lineSamples,
                   lineDropped, dict, heap, phase, name, specVars>>

(* run_join has returned or raised.                                       *)
Finished ==
    /\ pc \in {"done", "failed"}
    /\ UNCHANGED vars

Next ==
    \/ RunApp
    \/ ScanLine
    \/ EndOfOutput
    \/ RepsDone
    \/ Aggregate
    \/ ScanWordLine
    \/ AggregateThroughput
    \/ AggregatePhases
    \/ ScanAllLine
    \/ AggregateAll
    \/ Finished

Spec == Init /\ [][Next]_vars

-----------------------------------------------------------------------------
(* Properties                                                              *)

(* Spec 4.3: a group with no sample of some metric is an aggregation error. *)
SpecEmptyGroup ==
    \E n \in specSeen, m \in Metrics : specSamples[n][m] = <<>>

(* The outcome of the counter run_join (exp4) is the spec's: when it       *)
(* returns, no phase lacked a counter and it has written exactly one row   *)
(* per phase the output opened, holding exactly the counter values         *)
(* printed inside that phase in all runs, in print order. It fails only    *)
(* when the app does or when some phase really had no value for some      *)
(* counter: a malformed or unattributable counter line is a parse failure  *)
(* of that one sample and never aborts the run (spec 4.2 and 7). This is   *)
(* what the Phase-object reuse across runs (dict.get), the dict[name] =    *)
(* phase store at end==== and the int()/float() conversions must achieve.  *)
ResultMatchesSpec ==
    script = "exp4" =>
    /\ pc = "done" =>
         /\ ~SpecEmptyGroup
         /\ written = [n \in specSeen |-> specSamples[n]]
    /\ pc = "failed" => error \in {"CalledProcessError", "AggregateError"}
    /\ (pc = "failed" /\ error = "AggregateError") => SpecEmptyGroup


(* The groups of spec 4.3 for the word lines: for each (metric, name), the *)
(* values of its samples in order; the names in the order first seen.      *)
SpecNames(m) ==
    LET s == SelectSeq(lineSamples, LAMBDA x : x.metric = m)
    IN [k \in 1 .. Len(s) |-> s[k].name]
FirstSeen(ns) ==
    SelectSeq([k \in DOMAIN ns |-> <<k, ns[k]>>],
              LAMBDA q : \A j \in 1 .. q[1] - 1 : ns[j] # q[2])
SpecGroup(m, n) ==
    LET s == SelectSeq(lineSamples, LAMBDA x : x.metric = m /\ x.name = n)
    IN [k \in 1 .. Len(s) |-> s[k].val]
SpecRows(m) ==
    LET f == FirstSeen(SpecNames(m))
    IN [k \in DOMAIN f |-> [name |-> f[k][2], vals |-> SpecGroup(m, f[k][2])]]

(* What the Throughput and Phase run_joins report is what the spec's       *)
(* extractor and grouping give: when run_join returns, it has written      *)
(* exactly one row per group of its metric (throughput for exp1, each      *)
(* phase name for exp8, in first-seen order), each holding every sample of *)
(* that group from all runs in print order. When it raises, the app failed,*)
(* or the group exp1 reduces is really empty, or the output had a marker   *)
(* line the spec counts as a parse failure. This is what the accumulation  *)
(* of dic_phases across runs and the positions taken from findall and      *)
(* split must achieve.                                                     *)
OutcomeMatchesSpec ==
    script \in {"exp1", "exp8"} =>
    /\ pc = "done" =>
         rows = SpecRows(IF script = "exp1" THEN "throughput" ELSE "phase")
    /\ pc = "failed" =>
         \/ error = "CalledProcessError"
         \/ error = "StatisticsError" /\ SpecRows("throughput") = <<>>
         \/ error \in {"IndexError", "ValueError"} /\ lineDropped

(* The combined run_join (mtall) reports what the spec's extractor gives   *)
(* for both kinds of metric at once: when it returns it has written the    *)
(* throughput row with every Throughput sample of the point and one row    *)
(* per phase opened, holding exactly the counter values printed inside it. *)
(* When it raises, the app failed, or a group the code reduces is really   *)
(* empty, or a marker line was a spec parse failure; a counter group that  *)
(* is empty is only found after the throughput row went to the file, so   *)
(* that row is then the spec's. This is about the Phase reuse (dict.get)   *)
(* within one run, the order of the two reductions, and the Phase lines    *)
(* that are parsed (and can abort the point) though dic_phases is never    *)
(* written.                                                                *)
CombinedOutcomeMatchesSpec ==
    script = "mtall" =>
    /\ pc = "done" =>
         /\ ~SpecEmptyGroup
         /\ written = [n \in specSeen |-> specSamples[n]]
         /\ rows = SpecRows("throughput")
    /\ pc = "failed" =>
         \/ error = "CalledProcessError"
         \/ error = "StatisticsError" /\ SpecRows("throughput") = <<>>
         \/ error = "AggregateError" /\ SpecEmptyGroup
                                    /\ rows = SpecRows("throughput")
         \/ error \in {"IndexError", "ValueError"} /\ lineDropped

=============================================================================
