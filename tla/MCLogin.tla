------------------------------- MODULE MCLogin -------------------------------
(* Login for TLC.                                                          *)
EXTENDS Login
=============================================================================
