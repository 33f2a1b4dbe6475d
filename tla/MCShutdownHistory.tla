-------------------------- MODULE MCShutdownHistory -------------------------
(***************************************************************************)
(* ClientRegistry with a history variable, for what creg_wait_for_empty    *)
(* promises: awaited remembers which clients were registered when main     *)
(* called it.                                                              *)
(***************************************************************************)
EXTENDS ClientRegistry

VARIABLE awaited

HInit == Init /\ awaited = {}

(* The steps of ClientRegistry, with no SIGHUP while main waits: what      *)
(* happens then is not the fault of that signal.                           *)
HNext ==
  /\ Next /\ ~SighupInterruptsWait
  /\ awaited' = IF mpc = "read_length" /\ mpc' # mpc THEN ToSet(clients)
                                                     ELSE awaited

HVars == <<vars, awaited>>

HSpec == HInit /\ [][HNext]_HVars

(* "A thread calling this function will block in the call until the number *)
(* of registered clients has reached zero" (client_registry.c): the        *)
(* clients that were registered at the call are gone when it returns.      *)
WaitedForAll ==
  mpc \in {"fini", "exit", "exited"} => awaited \cap ToSet(clients) = {}
=============================================================================
