---------------------------- MODULE MCGuestExec ----------------------------
(* GuestExec for TLC: the constants are given in the configuration.        *)
EXTENDS GuestExec
=============================================================================
