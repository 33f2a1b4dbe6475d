-------------------------- MODULE MCClientRegistry --------------------------
(* ClientRegistry for TLC: the constants are given in the configurations.  *)
EXTENDS ClientRegistry
=============================================================================
