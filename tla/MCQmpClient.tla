----------------------------- MODULE MCQmpClient -----------------------------
(* QmpClient for TLC: the constants are given in the configuration.       *)
EXTENDS QmpClient
=============================================================================
