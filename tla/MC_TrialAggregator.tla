------------------------- MODULE MC_TrialAggregator -------------------------
(* Instantiation of TrialAggregator for TLC. Values are in units of 0.01:  *)
(* 1 and 2 give half-unit means (rounding ties), 9 is an outlier.          *)
EXTENDS TrialAggregator

MCValues == {1, 2, 9}

\* -1.00 in units of 0.01
MCSentinel == -100
=============================================================================
