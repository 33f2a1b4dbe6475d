------------------------------ MODULE MCResults ------------------------------
(* Results for TLC.                                                        *)
EXTENDS Results
=============================================================================
