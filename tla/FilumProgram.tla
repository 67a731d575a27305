---------------------------- MODULE FilumProgram ----------------------------
(***************************************************************************)
(* Threads, WaitGroup and Once together, used the way std/filum.pengu asks *)
(* for and tests/pengu/threads.pengu and tests/wasm/filum_stress.pengu do: *)
(* the counter is raised before a thread is started; every thread passes   *)
(* the shared Once, works, and calls done; any actor waits for the group,  *)
(* and joins, detaches, polls or looks at the threads, at any time.        *)
(***************************************************************************)
EXTENDS FilumThread, FilumSync

VARIABLE plan  \* how far each thread is; the actor that has counted it and
               \* is about to start it

vars == <<threadVars, syncVars, plan>>

ASSUME ProgramAssumption ==
  /\ Users = Threads \cup Actors
  /\ Threads \cap Actors = {}
  /\ {"none", "init", "work", "end"} \cap Actors = {}

TypeOK ==
  /\ ThreadTypeOK
  /\ SyncTypeOK
  /\ plan \in [Threads -> {"none", "init", "work", "end"} \cup Actors]

Init ==
  /\ ThreadInit
  /\ SyncInit
  /\ plan = [t \in Threads |-> "none"]

\* An actor outside every call that owes no start.
Idle(a) ==
  /\ apc[a] = "idle"
  /\ gpc[a] = "out"
  /\ \A t \in Threads : plan[t] # a

CountsThread(a, t) ==
  /\ Idle(a)
  /\ plan[t] = "none"
  /\ Add(1)
  /\ plan' = [plan EXCEPT ![t] = a]
  /\ UNCHANGED threadVars

StartsThread(a, t) ==
  /\ plan[t] = a
  /\ StartCalls(a, t)
  /\ plan' = [plan EXCEPT ![t] = "init"]
  /\ UNCHANGED syncVars

\* The function of the thread: do_once, the work, done, and the end.
PassesOnce(t) ==
  /\ plan[t] = "init"
  /\ \/ OnceProceeds(t) /\ UNCHANGED plan
     \/ OnceReturns(t) /\ plan' = [plan EXCEPT ![t] = "work"]
  /\ UNCHANGED threadVars

Works(t) ==
  /\ plan[t] = "work"
  /\ Done
  /\ plan' = [plan EXCEPT ![t] = "end"]
  /\ UNCHANGED threadVars

Returns(t) ==
  /\ plan[t] = "end"
  /\ Ends(t)
  /\ UNCHANGED <<syncVars, plan>>

ThreadStep(t) ==
  \/ PassesOnce(t)
  \/ Works(t)
  \/ Returns(t)
  \/ Epilogue(t) /\ UNCHANGED <<syncVars, plan>>

WaitsForGroup(a) ==
  /\ Idle(a) \/ gpc[a] = "lock"
  /\ WaitSleeps(a) \/ WaitReturns(a)
  /\ UNCHANGED <<threadVars, plan>>

UsesHandle(a, t) ==
  /\ Idle(a)
  /\ CallOn(a, t)
  /\ UNCHANGED <<syncVars, plan>>

Continues(a) ==
  \/ InCall(a) /\ UNCHANGED <<syncVars, plan>>
  \/ gpc[a] = "lock" /\ WaitsForGroup(a)
  \/ \E t \in Threads : StartsThread(a, t)

Wakeup ==
  \/ \E a \in Actors : SpuriousJoinWakeup(a) /\ UNCHANGED <<syncVars, plan>>
  \/ \E u \in Users : SpuriousSyncWakeup(u) /\ UNCHANGED <<threadVars, plan>>

Next ==
  \/ \E t \in Threads : ThreadStep(t)
  \/ \E a \in Actors :
       \/ Continues(a) \/ WaitsForGroup(a)
       \/ \E t \in Threads :
            CountsThread(a, t) \/ UsesHandle(a, t)
  \/ Wakeup

(***************************************************************************)
(* Threads are scheduled, fn returns, a call once begun goes on, and a     *)
(* program that raised the counter for a thread starts it.  Nobody has to  *)
(* call anything else, and nobody can count on a spurious wakeup.          *)
(***************************************************************************)
Fairness ==
  /\ \A t \in Threads : WF_vars(ThreadStep(t))
  /\ \A a \in Actors : WF_vars(Continues(a))

Spec == Init /\ [][Next]_vars

FairSpec == Spec /\ Fairness

-----------------------------------------------------------------------------
(* Properties.                                                             *)

(* fn runs at most once, and no thread gets past do_once before fn has     *)
(* returned, whichever of them ran it.                                     *)
InitializedOnce ==
  /\ inits <= 1
  /\ \A t \in Threads : plan[t] \in {"work", "end"} => inited

(* No wait returns early: a join that stops waiting has seen the end of    *)
(* its thread, and wait_group_wait returns only when every thread counted  *)
(* so far has done its work.                                               *)
NoEarlyReturn ==
  [][\A a \in Actors :
       /\ apc[a] = "lock" /\ apc'[a] = "leave" => tpc[on[a]] # "run"
       /\ gpc[a] = "lock" /\ gpc'[a] = "out" =>
            \A t \in Threads : plan[t] \in {"none", "end"}]_vars

(* Every join, every wait for the group and every pass through do_once     *)
(* returns.  (Everybody asleep in a wait is somewhere the last thread's    *)
(* broadcast reaches.)                                                     *)
CallsReturn ==
  /\ \A a \in Actors : apc[a] # "idle" ~> apc[a] = "idle"
  /\ \A a \in Actors : gpc[a] # "out" ~> gpc[a] = "out"
  /\ \A t \in Threads : plan[t] = "init" ~> plan[t] = "work"
=============================================================================
