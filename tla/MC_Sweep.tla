------------------------------ MODULE MC_Sweep ------------------------------
(* Two modes and two (ds, alg) points per mode: a mode change (recompile)  *)
(* and a point without one both occur.                                     *)
EXTENDS Sweep

MCModes == <<"native", "sgx">>
MCPoints == <<"p1", "p2">>
=============================================================================
