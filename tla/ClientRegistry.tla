--------------------------- MODULE ClientRegistry ---------------------------
(***************************************************************************)
(* The client registry (src/client_registry.c) with the threads that use   *)
(* it: the main thread (src/main.c: accept loop, SIGHUP, terminate) and    *)
(* one service thread per connection (src/server.c, jeux_client_service),  *)
(* reduced to registering, waiting for EOF and unregistering.              *)
(*                                                                         *)
(* One step is one access to shared state that another thread can observe: *)
(* a read of length or no without the mutex, a semaphore operation, or a   *)
(* critical section of the mutex.  A critical section is split only where  *)
(* an unlocked access of another thread can fall inside it, which is the   *)
(* case in creg_unregister: creg_wait_for_empty reads length, and waits on *)
(* sem, without the mutex.                                                 *)
(*                                                                         *)
(* A connection, its service thread and its CLIENT object have the same    *)
(* name: each connection is accepted once and creates one of each.         *)
(***************************************************************************)
EXTENDS Integers, Sequences, FiniteSets, SequencesExt

CONSTANTS
  Conns,        (* the connections that clients may open                   *)
  MAX_CLIENTS,  (* the capacity of the registry (64 in client_registry.h)  *)
  Nobody        (* the owner of a free mutex, and no pending connection    *)

ASSUME ConnsAssumption == IsFiniteSet(Conns) /\ Nobody \notin Conns
ASSUME MaxClientsAssumption == MAX_CLIENTS \in Nat \ {0}

VARIABLES
  clients,          (* clients[0 .. length-1], in registration order       *)
  mutex,            (* the service thread that holds cr->mutex, or Nobody  *)
  login_queue,      (* the value of the semaphore cr->login_queue          *)
  sem,              (* the value of the semaphore cr->sem                  *)
  no,               (* cr->no: shutdown has begun                          *)
  freed,            (* creg_fini has released the registry                 *)
  signal_received,  (* the flag set by the SIGHUP handler                  *)
  pending,          (* the connection main has accepted and not handed on  *)
  mpc,              (* where the main thread is                            *)
  pc,               (* where each service thread is                        *)
  eof               (* connections on which read(2) will return 0          *)

regVars  == <<clients, mutex, login_queue, sem, no, freed>>
mainVars == <<signal_received, pending, mpc>>
vars     == <<regVars, mainVars, pc, eof>>

-----------------------------------------------------------------------------
(* cr->length.  The slots at and above length are never read.              *)
length == Len(clients)

(* Service threads that have run creg_register to the end and have not yet *)
(* taken themselves out of the array.                                      *)
Registered == {"serving", "unregister"}

(* The next step of a thread at one of these places uses the registry.     *)
UsesRegistry == {"check_length", "check_no", "login_queue", "register",
                 "unregister", "post_login_queue", "post_sem", "unlock"}

ServicePCs == {"none", "accepted", "refused", "serving", "close", "done",
               "crashed"} \cup UsesRegistry

MainPCs == {"loop", "accept", "check_signal", "shutdown_all", "read_length",
            "wait_sem", "fini", "exit", "exited"}

TypeOK ==
  /\ clients \in Seq(Conns)
  /\ mutex \in Conns \cup {Nobody}
  /\ login_queue \in Nat
  /\ sem \in Nat
  /\ no \in BOOLEAN
  /\ freed \in BOOLEAN
  /\ signal_received \in BOOLEAN
  /\ pending \in Conns \cup {Nobody}
  /\ mpc \in MainPCs
  /\ pc \in [Conns -> ServicePCs]
  /\ eof \in SUBSET Conns

(* creg_init, and main up to its accept loop.                              *)
Init ==
  /\ clients = <<>>
  /\ mutex = Nobody
  /\ login_queue = MAX_CLIENTS
  /\ sem = 0
  /\ no = FALSE
  /\ freed = FALSE
  /\ signal_received = FALSE
  /\ pending = Nobody
  /\ mpc = "loop"
  /\ pc = [t \in Conns |-> "none"]
  /\ eof = {}

(* The process runs until main calls exit(), which ends every thread.      *)
Running == mpc # "exited"

Goto(t, from, to) ==
  /\ Running
  /\ pc[t] = from
  /\ pc' = [pc EXCEPT ![t] = to]

MainGoto(from, to) ==
  /\ mpc = from
  /\ mpc' = to

-----------------------------------------------------------------------------
(* The environment: peers and signals.                                     *)

(* A peer closes its end of an accepted connection.                        *)
HangUp(t) ==
  /\ Running
  /\ pc[t] # "none"
  /\ t \notin eof
  /\ eof' = eof \cup {t}
  /\ UNCHANGED <<regVars, mainVars, pc>>

(* sighup_handler sets the flag.  It is installed without SA_RESTART, so a *)
(* blocked accept(2) fails with EINTR.                                     *)
Sighup ==
  /\ Running
  /\ signal_received' = TRUE
  /\ mpc' = IF mpc = "accept" THEN "check_signal" ELSE mpc
  /\ UNCHANGED <<regVars, pending, pc, eof>>

(* A further SIGHUP finds main blocked in sem_wait(3), which fails with    *)
(* EINTR; creg_wait_for_empty does not look at its result.                 *)
SighupInterruptsWait ==
  /\ MainGoto("wait_sem", "fini")
  /\ sem = 0
  /\ signal_received' = TRUE
  /\ UNCHANGED <<regVars, pending, pc, eof>>

-----------------------------------------------------------------------------
(* The main thread.                                                        *)

(* The loop body calls Accept, which blocks.                               *)
EnterAccept ==
  /\ MainGoto("loop", "accept")
  /\ UNCHANGED <<regVars, signal_received, pending, pc, eof>>

(* accept(2) returns a new connection.                                     *)
AcceptConn(t) ==
  /\ MainGoto("accept", "check_signal")
  /\ pc[t] = "none"
  /\ pc' = [pc EXCEPT ![t] = "accepted"]
  /\ pending' = t
  /\ UNCHANGED <<regVars, signal_received, eof>>

(* After Accept the flag is tested: either the server terminates, dropping *)
(* the connection, or a service thread is created for it.                  *)
BeginTerminate ==
  /\ signal_received
  /\ MainGoto("check_signal", "shutdown_all")
  /\ pending' = Nobody
  /\ UNCHANGED <<regVars, signal_received, pc, eof>>

CreateThread ==
  /\ ~signal_received
  /\ MainGoto("check_signal", "loop")
  /\ pending \in Conns
  /\ pc' = [pc EXCEPT ![pending] = "check_length"]
  /\ pending' = Nobody
  /\ UNCHANGED <<regVars, signal_received, eof>>

creg_shutdown_all ==
  /\ MainGoto("shutdown_all", "read_length")
  /\ mutex = Nobody
  /\ no' = TRUE
  /\ eof' = eof \cup ToSet(clients)
  /\ UNCHANGED <<clients, mutex, login_queue, sem, freed,
                 signal_received, pending, pc>>

(* creg_wait_for_empty: an unlocked read of length, then sem_wait.         *)
WaitForEmptyRead ==
  /\ MainGoto("read_length", IF length > 0 THEN "wait_sem" ELSE "fini")
  /\ UNCHANGED <<regVars, signal_received, pending, pc, eof>>

WaitForEmptySem ==
  /\ MainGoto("wait_sem", "fini")
  /\ sem > 0
  /\ sem' = sem - 1
  /\ UNCHANGED <<clients, mutex, login_queue, no, freed,
                 signal_received, pending, pc, eof>>

creg_fini ==
  /\ MainGoto("fini", "exit")
  /\ freed' = TRUE
  /\ UNCHANGED <<clients, mutex, login_queue, sem, no,
                 signal_received, pending, pc, eof>>

Exit ==
  /\ MainGoto("exit", "exited")
  /\ UNCHANGED <<regVars, signal_received, pending, pc, eof>>

-----------------------------------------------------------------------------
(* A service thread: creg_register.                                        *)

(* The unlocked test of length.                                            *)
CheckLength(t) ==
  /\ ~freed
  /\ Goto(t, "check_length",
          IF length >= MAX_CLIENTS THEN "refused" ELSE "check_no")
  /\ UNCHANGED <<regVars, mainVars, eof>>

(* The unlocked test of no.                                                *)
CheckNo(t) ==
  /\ ~freed
  /\ Goto(t, "check_no", IF no THEN "refused" ELSE "login_queue")
  /\ UNCHANGED <<regVars, mainVars, eof>>

(* Mutant: a failed wait is taken for a reserved slot.                     *)
ReserveSlotNotWaiting(t) ==
  /\ ~freed
  /\ Goto(t, "login_queue", "register")
  /\ login_queue' = login_queue - 1
  /\ UNCHANGED <<clients, mutex, sem, no, freed, mainVars, eof>>

(* Mutant: no queue, only the unlocked test of length.                     *)
ReserveSlotNoQueue(t) ==
  /\ ~freed
  /\ Goto(t, "login_queue", "register")
  /\ UNCHANGED <<regVars, mainVars, eof>>

(* sem_wait on login_queue: a slot is reserved.                            *)
ReserveSlot(t) ==
  /\ ~freed
  /\ Goto(t, "login_queue", "register")
  /\ login_queue > 0
  /\ login_queue' = login_queue - 1
  /\ UNCHANGED <<clients, mutex, sem, no, freed, mainVars, eof>>

(* The critical section of creg_register.                                  *)
AddClient(t) ==
  /\ ~freed
  /\ Goto(t, "register", "serving")
  /\ mutex = Nobody
  /\ clients' = Append(clients, t)
  /\ UNCHANGED <<mutex, login_queue, sem, no, freed, mainVars, eof>>

(* creg_register returned NULL, or the thread has unregistered.            *)
CloseConn(t) ==
  /\ \/ Goto(t, "refused", "done")
     \/ Goto(t, "close", "done")
  /\ UNCHANGED <<regVars, mainVars, eof>>

(* The service loop ends when proto_recv_packet reports EOF.               *)
ReceiveEof(t) ==
  /\ t \in eof
  /\ Goto(t, "serving", "unregister")
  /\ UNCHANGED <<regVars, mainVars, eof>>

-----------------------------------------------------------------------------
(* A service thread: creg_unregister, in one critical section.             *)

(* Mutant: length is decremented and nothing moves up.                     *)
RemoveLastClient(t) ==
  /\ ~freed
  /\ Goto(t, "unregister", "post_login_queue")
  /\ mutex = Nobody
  /\ mutex' = t
  /\ clients' = Front(clients)
  /\ UNCHANGED <<login_queue, sem, no, freed, mainVars, eof>>

(* The client is found in the array, the clients after it move up, and     *)
(* length is decremented.                                                  *)
RemoveClient(t) ==
  /\ ~freed
  /\ Goto(t, "unregister", "post_login_queue")
  /\ mutex = Nobody
  /\ mutex' = t
  /\ \E i \in 1..length :
       /\ clients[i] = t
       /\ clients' = RemoveAt(clients, i)
  /\ UNCHANGED <<login_queue, sem, no, freed, mainVars, eof>>

(* Mutant: the slot is released only when the registry becomes empty.      *)
ReleaseSlotIfEmpty(t) ==
  /\ ~freed
  /\ Goto(t, "post_login_queue", "post_sem")
  /\ login_queue' = IF length = 0 THEN login_queue + 1 ELSE login_queue
  /\ UNCHANGED <<clients, mutex, sem, no, freed, mainVars, eof>>

(* sem_post on login_queue: the slot is released.                          *)
ReleaseSlot(t) ==
  /\ ~freed
  /\ Goto(t, "post_login_queue", "post_sem")
  /\ login_queue' = login_queue + 1
  /\ UNCHANGED <<clients, mutex, sem, no, freed, mainVars, eof>>

(* Mutant: the test sees the length from before the decrement.             *)
PostIfOneLeft(t) ==
  /\ ~freed
  /\ Goto(t, "post_sem", "unlock")
  /\ sem' = IF length = 1 THEN sem + 1 ELSE sem
  /\ UNCHANGED <<clients, mutex, login_queue, no, freed, mainVars, eof>>

(* sem_post on sem if this was the last client.                            *)
PostIfEmpty(t) ==
  /\ ~freed
  /\ Goto(t, "post_sem", "unlock")
  /\ sem' = IF length = 0 THEN sem + 1 ELSE sem
  /\ UNCHANGED <<clients, mutex, login_queue, no, freed, mainVars, eof>>

(* Mutant: creg_unregister returns from inside the loop without unlocking. *)
ReturnLocked(t) ==
  /\ ~freed
  /\ Goto(t, "unlock", "close")
  /\ UNCHANGED <<regVars, mainVars, eof>>

UnlockRegistry(t) ==
  /\ ~freed
  /\ Goto(t, "unlock", "close")
  /\ mutex' = Nobody
  /\ UNCHANGED <<clients, login_queue, sem, no, freed, mainVars, eof>>

(* A thread that reaches the registry after creg_fini reads freed memory.  *)
(* What the program does then is undefined; the thread takes no more steps *)
(* in the model.                                                           *)
UseFreed(t) ==
  /\ freed
  /\ \E p \in UsesRegistry : Goto(t, p, "crashed")
  /\ UNCHANGED <<regVars, mainVars, eof>>

-----------------------------------------------------------------------------
Main ==
  \/ EnterAccept
  \/ BeginTerminate
  \/ CreateThread
  \/ creg_shutdown_all
  \/ WaitForEmptyRead
  \/ WaitForEmptySem
  \/ creg_fini
  \/ Exit

Service(t) ==
  \/ CheckLength(t)
  \/ CheckNo(t)
  \/ ReserveSlot(t)
  \/ AddClient(t)
  \/ CloseConn(t)
  \/ ReceiveEof(t)
  \/ RemoveClient(t)
  \/ ReleaseSlot(t)
  \/ PostIfEmpty(t)
  \/ UnlockRegistry(t)
  \/ UseFreed(t)

Environment ==
  \/ Sighup
  \/ SighupInterruptsWait
  \/ \E t \in Conns : HangUp(t) \/ AcceptConn(t)

(* After exit() nothing happens any more.                                  *)
Exited == ~Running /\ UNCHANGED vars

Next ==
  \/ Main
  \/ Environment
  \/ \E t \in Conns : Service(t)
  \/ Exited

Spec == Init /\ [][Next]_vars

(* Threads are scheduled by the kernel: a thread that can run runs.  Each  *)
(* thread takes the mutex and the semaphores a bounded number of times, so *)
(* weak fairness is all that is asked of them.  Peers and signals owe the  *)
(* server nothing.                                                         *)
Fairness == WF_vars(Main) /\ \A t \in Conns : WF_vars(Service(t))

FairSpec == Spec /\ Fairness

-----------------------------------------------------------------------------
(* Properties.                                                             *)

(* Service threads at one of the places in S.                              *)
At(S) == {t \in Conns : pc[t] \in S}

(* creg_register writes clients[length] without looking at length again    *)
(* once it holds the mutex: the array must not overflow whatever the       *)
(* unlocked test of length saw.                                            *)
Capacity == length <= MAX_CLIENTS

(* Every slot is accounted for: it is free in login_queue, reserved by a   *)
(* thread on its way into the array, taken by a client in the array, or    *)
(* held by a thread that has left the array and not posted login_queue.    *)
(* (Until creg_fini: then there is no registry.)                           *)
SlotAccounting ==
  ~freed =>
    login_queue + length + Cardinality(At({"register"}))
      + Cardinality(At({"post_login_queue"})) = MAX_CLIENTS

(* The array holds exactly the clients of the threads between the end of   *)
(* creg_register and creg_unregister's removal, each of them once: the     *)
(* shift in creg_unregister neither loses nor doubles another client.      *)
RegistryExact ==
  ~freed =>
    /\ ToSet(clients) = At(Registered)
    /\ \A i, j \in 1..length : clients[i] = clients[j] => i = j

(* Whoever is inside creg_unregister's critical section holds the mutex,   *)
(* so at most one thread is: between RemoveClient and UnlockRegistry the   *)
(* array and its length do not change.                                     *)
MutexHeld ==
  \A t \in Conns :
    pc[t] \in {"post_login_queue", "post_sem", "unlock"} => mutex = t

(* No lost wakeup: when main waits on sem, without the mutex, and the      *)
(* registry is empty, then the post that wakes it has happened, or a       *)
(* thread is on its way to it.                                             *)
WakeupPending ==
  mpc = "wait_sem" /\ clients = <<>> =>
    \/ sem > 0
    \/ At({"post_login_queue", "post_sem"}) # {}

(* The same as a promise about progress: once the registry is empty, a     *)
(* main thread in creg_wait_for_empty gets to exit().                      *)
WaitForEmptyReturns == mpc = "wait_sem" /\ clients = <<>> ~> mpc = "exited"

(* A client whose connection has ended leaves the registry, unless the     *)
(* registry itself goes first.                                             *)
EofUnregisters ==
  \A t \in Conns :
    t \in eof /\ pc[t] = "serving" ~> t \notin ToSet(clients) \/ freed

(* Connections that have not got through creg_register.                    *)
Unregistered == {"none", "accepted", "check_length", "check_no",
                 "login_queue", "register"}

Bounded == INSTANCE BoundedRegistry WITH
  waiting <- At(Unregistered),
  members <- ToSet(clients)

(* The array, the unlocked tests, login_queue and the mutex together       *)
(* implement the bounded registry: a step adds one connection that was     *)
(* never registered before, while there is room, or removes one client, or *)
(* leaves the members alone, also when main frees the registry meanwhile.  *)
ImplementsBounded == Bounded!Spec

(* The process ends once main has seen a SIGHUP: every client that is      *)
(* registered then has its connection shut down, leaves, and the last one  *)
(* wakes main.  Only a client that gets into the registry behind           *)
(* creg_shutdown_all, which the unlocked test of no lets happen, and stays *)
(* connected can keep main waiting.  (A SIGHUP between the test of         *)
(* signal_received and accept(2) is seen when the next connection comes,   *)
(* and not before.)                                                        *)
SighupEndsProcess ==
  signal_received /\ mpc = "check_signal" ~>
    mpc = "exited" \/ [](no /\ ~(ToSet(clients) \subseteq eof))
=============================================================================
