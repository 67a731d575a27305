------------------------------ MODULE FilumSync ------------------------------
(***************************************************************************)
(* The WaitGroup and the Once of filum, src/runtime/pengu_runtime.c (POSIX *)
(* branch): pengu_c_filum_wait_group_add, _done, _wait and                 *)
(* pengu_c_filum_once_do, one object of each.                              *)
(*                                                                         *)
(* A critical section under the object's mutex is one step, and each       *)
(* object has one condition variable.  done without an add aborts the      *)
(* program, which is not a step.  Freeing the objects is left to the       *)
(* caller; the fields `waiters` and `active` exist only for the test the   *)
(* frees make, and are left out with them.                                 *)
(***************************************************************************)
EXTENDS Integers, FiniteSets

CONSTANT Users  \* threads that use the two objects

VARIABLES
  count,    \* nwg->count
  gpc,      \* where each user is in wait_group_wait
  done,     \* no->done
  running,  \* no->running
  opc,      \* where each user is in once_do
  inits,    \* history: how often fn has been called
  inited    \* history: fn has returned

groupVars == <<count, gpc>>
onceVars  == <<done, running, opc, inits, inited>>
syncVars  == <<count, gpc, done, running, opc, inits, inited>>

SyncTypeOK ==
  /\ count \in Nat
  /\ gpc \in [Users -> {"out", "lock", "waiting"}]
  /\ done \in BOOLEAN
  /\ running \in BOOLEAN
  /\ opc \in [Users -> {"out", "lock", "waiting", "run", "settle"}]
  /\ inits \in Nat
  /\ inited \in BOOLEAN

SyncInit ==
  /\ count = 0
  /\ gpc = [u \in Users |-> "out"]
  /\ done = FALSE
  /\ running = FALSE
  /\ opc = [u \in Users |-> "out"]
  /\ inits = 0
  /\ inited = FALSE

\* What a broadcast does to the positions of the users.
Woken(pc) == [u \in Users |-> IF pc[u] = "waiting" THEN "lock" ELSE pc[u]]

\* The caller is about to hold the mutex: it calls, or it was woken.
AtMutex(pc, u) == pc[u] \in {"out", "lock"}

-----------------------------------------------------------------------------
(* WaitGroup.                                                              *)

\* add with a positive delta ("call before starting tracked work").
Add(n) ==
  /\ count' = count + n
  /\ UNCHANGED <<gpc, onceVars>>

Done ==
  /\ count > 0
  /\ count' = count - 1
  /\ gpc' = IF count = 1 THEN Woken(gpc) ELSE gpc
  /\ UNCHANGED onceVars

WaitSleeps(u) ==
  /\ AtMutex(gpc, u)
  /\ count > 0
  /\ gpc' = [gpc EXCEPT ![u] = "waiting"]
  /\ UNCHANGED <<count, onceVars>>

WaitTrustsWakeup(u) ==
  /\ AtMutex(gpc, u)
  /\ gpc[u] = "out" => count = 0
  /\ gpc' = [gpc EXCEPT ![u] = "out"]
  /\ UNCHANGED <<count, onceVars>>

WaitReturns(u) ==
  /\ AtMutex(gpc, u)
  /\ count = 0
  /\ gpc' = [gpc EXCEPT ![u] = "out"]
  /\ UNCHANGED <<count, onceVars>>

-----------------------------------------------------------------------------
(* Once.                                                                   *)

OnceSleeps(u) ==
  /\ AtMutex(opc, u)
  /\ running
  /\ opc' = [opc EXCEPT ![u] = "waiting"]
  /\ UNCHANGED <<groupVars, done, running, inits, inited>>

\* Somebody else has run fn.
OncePasses(u) ==
  /\ AtMutex(opc, u)
  /\ ~running
  /\ done
  /\ opc' = [opc EXCEPT ![u] = "out"]
  /\ UNCHANGED <<groupVars, done, running, inits, inited>>

OnceMarksDoneFirst(u) ==
  /\ AtMutex(opc, u)
  /\ ~running
  /\ ~done
  /\ done' = TRUE
  /\ inits' = inits + 1
  /\ opc' = [opc EXCEPT ![u] = "run"]
  /\ UNCHANGED <<groupVars, running, inited>>

\* Whoever finds it idle and not done marks it running and calls fn.
OnceRuns(u) ==
  /\ AtMutex(opc, u)
  /\ ~running
  /\ ~done
  /\ running' = TRUE
  /\ inits' = inits + 1
  /\ opc' = [opc EXCEPT ![u] = "run"]
  /\ UNCHANGED <<groupVars, done, inited>>

FnReturns(u) ==
  /\ opc[u] = "run"
  /\ inited' = TRUE
  /\ opc' = [opc EXCEPT ![u] = "settle"]
  /\ UNCHANGED <<groupVars, done, running, inits>>

OnceSettles(u) ==
  /\ opc[u] = "settle"
  /\ done' = TRUE
  /\ running' = FALSE
  /\ opc' = [Woken(opc) EXCEPT ![u] = "out"]
  /\ UNCHANGED <<groupVars, inits, inited>>

-----------------------------------------------------------------------------
\* once_do returns.
OnceReturns(u) == OncePasses(u) \/ OnceSettles(u)

\* once_do goes on without returning.
OnceProceeds(u) == OnceSleeps(u) \/ OnceRuns(u) \/ FnReturns(u)

SpuriousSyncWakeup(u) ==
  \/ /\ gpc[u] = "waiting"
     /\ gpc' = [gpc EXCEPT ![u] = "lock"]
     /\ UNCHANGED <<count, onceVars>>
  \/ /\ opc[u] = "waiting"
     /\ opc' = [opc EXCEPT ![u] = "lock"]
     /\ UNCHANGED <<groupVars, done, running, inits, inited>>
=============================================================================
