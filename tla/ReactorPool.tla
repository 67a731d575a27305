----------------------------- MODULE ReactorPool -----------------------------
(***************************************************************************)
(* The C half of the reactor, src/runtime/pengu_reactor.c (POSIX): the     *)
(* offload pool, the completion queue and the wake descriptor, shared by   *)
(* the loop thread (the owner), the pool workers and the helper threads    *)
(* that post completions of their own.                                     *)
(*                                                                         *)
(* A critical section under `lock` or `done_lock` is one step.  A thread   *)
(* in pthread_cond_wait(work_cv) has pc "waiting"; a signal moves one such *)
(* thread to "lock", a broadcast moves all of them, and a spurious wakeup  *)
(* moves one at any time.  Posting is two steps, as in the code: append    *)
(* under done_lock, then write the wake descriptor.                        *)
(*                                                                         *)
(* What the owner does between two calls into this file is left open (pc   *)
(* "busy"): module Reactor fills it in.                                    *)
(***************************************************************************)
EXTENDS Naturals, Sequences, FiniteSets, Functions

CONSTANTS
  Jobs,      \* completions (task id, token) of offloaded jobs
  Posts,     \* completions posted by helper threads
  Workers,   \* the threads pool_start creates
  Helpers,   \* other threads that call pengu_c_reactor_post
  None,      \* the absence of a job
  Backend    \* "epoll": eventfd; "poll": the #else branch (pipe)

ASSUME PoolAssumption ==
  /\ Workers # {} /\ IsFiniteSet(Workers)
  /\ Jobs \cap Posts = {}
  /\ None \notin Jobs \cup Posts
  /\ Backend \in {"epoll", "poll"}

VARIABLES
  jobs,          \* jobs_head..jobs_tail
  closing,       \* r->closing
  pool_started,  \* r->pool_started
  done,          \* done_head..done_tail
  wake,          \* wake_fd is readable
  wpc,           \* where each worker is
  wjob,          \* the job a worker executes
  hpc,           \* where each helper is
  opc,           \* where the owner is
  used,          \* history: completions given to the pool or posted so far
  taken,         \* history: completions pengu_c_reactor_take returned
  dropped        \* history: completions the destructor freed

poolVars == <<jobs, closing, pool_started, wpc, wjob>>
doneVars == <<done, wake, hpc>>
history  == <<used, taken, dropped>>
vars == <<jobs, closing, pool_started, done, wake, wpc, wjob, hpc, opc,
          used, taken, dropped>>

Completions == Jobs \cup Posts

TypeOK ==
  /\ jobs \in Seq(Jobs)
  /\ closing \in BOOLEAN
  /\ pool_started \in BOOLEAN
  /\ done \in Seq(Completions)
  /\ wake \in BOOLEAN
  /\ wpc \in [Workers -> {"off", "lock", "waiting", "run", "wake", "settle",
                          "exited"}]
  /\ wjob \in [Workers -> Jobs \cup {None}]
  /\ \A w \in Workers : wpc[w] = "run" => wjob[w] # None
  /\ hpc \in [Helpers -> {"idle", "wake"}]
  /\ opc \in {"busy", "submit", "harvest", "swept", "wait", "join", "freed"}
  /\ used \subseteq Completions
  /\ taken \subseteq Completions
  /\ dropped \subseteq Completions

Init ==
  /\ jobs = <<>>
  /\ closing = FALSE
  /\ pool_started = FALSE
  /\ done = <<>>
  /\ wake = FALSE
  /\ wpc = [w \in Workers |-> "off"]
  /\ wjob = [w \in Workers |-> None]
  /\ hpc = [h \in Helpers |-> "idle"]
  /\ opc = "busy"
  /\ used = {}
  /\ taken = {}
  /\ dropped = {}

-----------------------------------------------------------------------------
(* Condition variable work_cv.                                             *)

Waiting == {w \in Workers : wpc[w] = "waiting"}

\* pthread_cond_signal: one waiter, if there is one, goes back to the lock.
Signal ==
  \/ Waiting = {} /\ wpc' = wpc
  \/ \E w \in Waiting : wpc' = [wpc EXCEPT ![w] = "lock"]

BroadcastToOne == Signal

Broadcast ==
  wpc' = [w \in Workers |-> IF wpc[w] = "waiting" THEN "lock" ELSE wpc[w]]

\* write(wake_fd): an eventfd becomes readable.  The poll branch keeps only
\* the read end of its pipe in wake_fd, and a write to a read end fails.
WriteWake == wake' = IF Backend = "epoll" THEN TRUE ELSE wake

-----------------------------------------------------------------------------
(* The owner thread.                                                       *)

\* The pool is created by the first offload, before the job is queued.
PoolStart ==
  /\ opc = "busy"
  /\ ~pool_started
  /\ pool_started' = TRUE
  /\ wpc' = [w \in Workers |-> "lock"]
  /\ opc' = "submit"
  /\ UNCHANGED <<jobs, closing, wjob, doneVars, history>>

EnqueueSignalsIfEmpty(j) ==
  /\ jobs' = Append(jobs, j)
  /\ IF jobs = <<>> THEN Signal ELSE wpc' = wpc

Enqueue(j) ==
  /\ jobs' = Append(jobs, j)
  /\ Signal

\* pengu_c_reactor_offload after pool_start.
Offload(j) ==
  /\ opc \in {"busy", "submit"}
  /\ pool_started
  /\ ~closing
  /\ j \in Jobs \ used
  /\ Enqueue(j)
  /\ used' = used \cup {j}
  /\ opc' = "busy"
  /\ UNCHANGED <<closing, pool_started, wjob, doneVars, taken, dropped>>

\* The loop starts a pass: it calls take until take returns 0.
BeginHarvest ==
  /\ opc = "busy"
  /\ opc' = "harvest"
  /\ UNCHANGED <<poolVars, doneVars, history>>

Take ==
  /\ opc = "harvest"
  /\ done # <<>>
  /\ taken' = taken \cup {Head(done)}
  /\ done' = Tail(done)
  /\ UNCHANGED <<poolVars, wake, hpc, opc, used, dropped>>

TakeStopsEarly ==
  /\ opc = "harvest"
  /\ opc' = "swept"
  /\ UNCHANGED <<poolVars, doneVars, history>>

TakeNone ==
  /\ opc = "harvest"
  /\ done = <<>>
  /\ opc' = "swept"
  /\ UNCHANGED <<poolVars, doneVars, history>>

\* There is something to resume: this pass does not wait.
Resume ==
  /\ opc = "swept"
  /\ opc' = "busy"
  /\ UNCHANGED <<poolVars, doneVars, history>>

\* There is nothing to resume: epoll_wait.
BeginWait ==
  /\ opc = "swept"
  /\ opc' = "wait"
  /\ UNCHANGED <<poolVars, doneVars, history>>

\* The wake descriptor is reported and drained; no token is returned.
DrainWake ==
  /\ opc = "wait"
  /\ wake
  /\ wake' = FALSE
  /\ opc' = "busy"
  /\ UNCHANGED <<poolVars, done, hpc, history>>

\* A user descriptor, the timeout or EINTR ends the wait; the wake descriptor
\* keeps its state (the loop asks for one event).
WaitReturns ==
  /\ opc = "wait"
  /\ opc' = "busy"
  /\ UNCHANGED <<poolVars, doneVars, history>>

\* pengu_c_reactor_free.  close has joined the helpers before (aux_free).
BeginFree ==
  /\ opc = "busy"
  /\ \A h \in Helpers : hpc[h] = "idle"
  /\ closing' = TRUE
  /\ Broadcast
  /\ opc' = "join"
  /\ UNCHANGED <<jobs, pool_started, wjob, doneVars, history>>

JoinAndFree ==
  /\ opc = "join"
  /\ pool_started => \A w \in Workers : wpc[w] = "exited"
  /\ jobs' = <<>>
  /\ done' = <<>>
  /\ dropped' = dropped \cup Range(jobs) \cup Range(done)
  /\ opc' = "freed"
  /\ UNCHANGED <<closing, pool_started, wpc, wjob, wake, hpc, used, taken>>

-----------------------------------------------------------------------------
(* pengu_reactor_worker.                                                   *)

WorkerSleeps(w) ==
  /\ wpc[w] = "lock"
  /\ jobs = <<>>
  /\ ~closing
  /\ wpc' = [wpc EXCEPT ![w] = "waiting"]
  /\ UNCHANGED <<jobs, closing, pool_started, wjob, doneVars, opc, history>>

SpuriousWakeup(w) ==
  /\ wpc[w] = "waiting"
  /\ wpc' = [wpc EXCEPT ![w] = "lock"]
  /\ UNCHANGED <<jobs, closing, pool_started, wjob, doneVars, opc, history>>

WorkerExitsEarly(w) ==
  /\ wpc[w] = "lock"
  /\ closing
  /\ wpc' = [wpc EXCEPT ![w] = "exited"]
  /\ UNCHANGED <<jobs, closing, pool_started, wjob, doneVars, opc, history>>

WorkerExits(w) ==
  /\ wpc[w] = "lock"
  /\ jobs = <<>>
  /\ closing
  /\ wpc' = [wpc EXCEPT ![w] = "exited"]
  /\ UNCHANGED <<jobs, closing, pool_started, wjob, doneVars, opc, history>>

WorkerPops(w) ==
  /\ wpc[w] = "lock"
  /\ jobs # <<>>
  /\ jobs' = Tail(jobs)
  /\ wjob' = [wjob EXCEPT ![w] = Head(jobs)]
  /\ wpc' = [wpc EXCEPT ![w] = "run"]
  /\ UNCHANGED <<closing, pool_started, doneVars, opc, history>>

\* fn(ctx) returns and pengu_c_reactor_post appends the completion.
WorkerPosts(w) ==
  /\ wpc[w] = "run"
  /\ done' = Append(done, wjob[w])
  /\ wjob' = [wjob EXCEPT ![w] = None]
  /\ wpc' = [wpc EXCEPT ![w] = "wake"]
  /\ UNCHANGED <<jobs, closing, pool_started, wake, hpc, opc, history>>

WorkerWakes(w) ==
  /\ wpc[w] = "wake"
  /\ WriteWake
  /\ wpc' = [wpc EXCEPT ![w] = "settle"]
  /\ UNCHANGED <<jobs, closing, pool_started, wjob, done, hpc, opc, history>>

\* active_jobs-- and the idle_cv broadcast, on which nothing waits.
WorkerSettles(w) ==
  /\ wpc[w] = "settle"
  /\ wpc' = [wpc EXCEPT ![w] = "lock"]
  /\ UNCHANGED <<jobs, closing, pool_started, wjob, doneVars, opc, history>>

-----------------------------------------------------------------------------
(* Helper threads (loop.post_completion).                                  *)

HelperPosts(h, p) ==
  /\ hpc[h] = "idle"
  /\ ~closing
  /\ p \in Posts \ used
  /\ done' = Append(done, p)
  /\ used' = used \cup {p}
  /\ hpc' = [hpc EXCEPT ![h] = "wake"]
  /\ UNCHANGED <<poolVars, wake, opc, taken, dropped>>

HelperWakes(h) ==
  /\ hpc[h] = "wake"
  /\ WriteWake
  /\ hpc' = [hpc EXCEPT ![h] = "idle"]
  /\ UNCHANGED <<poolVars, done, opc, history>>

-----------------------------------------------------------------------------
WorkerStep(w) ==
  \/ WorkerSleeps(w)
  \/ WorkerExits(w)
  \/ WorkerPops(w)
  \/ WorkerPosts(w)
  \/ WorkerWakes(w)
  \/ WorkerSettles(w)

OwnerStep ==
  \/ PoolStart
  \/ \E j \in Jobs : Offload(j)
  \/ BeginHarvest
  \/ Take
  \/ TakeNone
  \/ Resume
  \/ BeginWait
  \/ DrainWake
  \/ WaitReturns
  \/ BeginFree
  \/ JoinAndFree

Next ==
  \/ OwnerStep
  \/ \E w \in Workers : WorkerStep(w) \/ SpuriousWakeup(w)
  \/ \E h \in Helpers : HelperWakes(h) \/ \E p \in Posts : HelperPosts(h, p)

(***************************************************************************)
(* Every thread is scheduled, jobs return, and the loop keeps passing.     *)
(* Nothing makes the loop offload, post or close, a wait ends on its own   *)
(* only when the wake descriptor is readable, and no thread can count on   *)
(* a spurious wakeup.                                                      *)
(***************************************************************************)
Fairness ==
  /\ WF_vars(\E j \in Jobs : opc = "submit" /\ Offload(j))
  /\ WF_vars(BeginHarvest)
  /\ WF_vars(Take \/ TakeNone)
  /\ WF_vars(Resume \/ BeginWait)
  /\ WF_vars(DrainWake)
  /\ WF_vars(JoinAndFree)
  /\ \A w \in Workers : WF_vars(WorkerStep(w))
  /\ \A h \in Helpers : WF_vars(HelperWakes(h))

Spec == Init /\ [][Next]_vars

FairSpec == Spec /\ Fairness

-----------------------------------------------------------------------------
(* Properties.                                                             *)

Held == {wjob[w] : w \in {v \in Workers : wpc[v] = "run"}}

(* Every completion given to the pool is in exactly one place: queued,     *)
(* being executed, posted, taken by the loop or freed by the destructor.   *)
(* pengu_reactor_worker and pengu_c_reactor_take therefore run a job once  *)
(* and report it once, and lose none.                                      *)
ExactlyOnce ==
  /\ used = Range(jobs) \cup Held \cup Range(done) \cup taken \cup dropped
  /\ IsInjective(jobs)
  /\ IsInjective(done)
  /\ \A v, w \in Workers :
       wpc[v] = "run" /\ wpc[w] = "run" /\ wjob[v] = wjob[w] => v = w
  /\ Range(jobs) \cap (Held \cup Range(done) \cup taken \cup dropped) = {}
  /\ Held \cap (Range(done) \cup taken \cup dropped) = {}
  /\ Range(done) \cap (taken \cup dropped) = {}
  /\ taken \cap dropped = {}

(* The loop never sleeps in epoll_wait over a completion nobody will       *)
(* announce: the descriptor is readable or a poster is about to write it.  *)
(* This is what "append, then wake" in pengu_c_reactor_post and "take      *)
(* until empty, then wait" in EventLoop.run are for.                       *)
NoLostWakeup ==
  opc = "wait" /\ done # <<>> =>
    \/ wake
    \/ \E w \in Workers : wpc[w] = "wake"
    \/ \E h \in Helpers : hpc[h] = "wake"

(* One pthread_cond_signal per offload is enough: while a worker sleeps on *)
(* work_cv, as many workers as there are queued jobs are on their way to   *)
(* the queue, so no job waits for a running one while a worker is idle.    *)
WorkConserving ==
  Waiting # {} => Len(jobs) <= Cardinality({w \in Workers : wpc[w] = "lock"})

(* The pool implements the abstract service: jobs run once, completions    *)
(* are handed out once, and closing discards no job that did not run.      *)
Service == INSTANCE OffloadService WITH
  pending   <- Range(jobs) \cup Held,
  finished  <- Range(done),
  delivered <- taken,
  discarded <- dropped

ImplementsService == Service!Spec

(* pengu_c_reactor_free returns: every worker sees `closing`, finishes the *)
(* queue and exits, whatever it was doing when close was called.           *)
CloseTerminates == opc = "join" ~> opc = "freed"
=============================================================================
