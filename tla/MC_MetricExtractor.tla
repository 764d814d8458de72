------------------------- MODULE MC_MetricExtractor -------------------------
(* Instantiation of MetricExtractor for TLC: two phase names, two counter  *)
(* kinds and one value for the counter scan; for the Throughput and Phase  *)
(* scan the words of those lines and words that put the markers or the     *)
(* literals elsewhere (float literals in units of 0.1).                    *)
EXTENDS MetricExtractor

MCNames == {"join", "partition"}
MCMetrics == {"L2Miss", "EWB"}
MCValues == {7}

W(t, i, f) == [text |-> t, ints |-> i, floats |-> f]

\* "Throughput", "Phase", a word containing "Phase" that is not it, a
\* phase name, an integer and a float literal.
MCWords ==
    {W("Throughput", <<>>, <<>>), W("Phase", <<>>, <<>>),
     W("Phases:", <<>>, <<>>), W("JOIN", <<>>, <<>>),
     W("7", <<7>>, <<>>), W("0.5", <<0, 5>>, <<5>>)}
=============================================================================
