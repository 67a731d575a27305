------------------------------ MODULE FilumPool ------------------------------
(***************************************************************************)
(* The worker pool of filum: pengu_c_filum_pool_new, _submit, _wait and    *)
(* _free of src/runtime/pengu_runtime.c (POSIX branch), behind             *)
(* filum.pool, Pool.submit, Pool.wait and Pool.free.                       *)
(*                                                                         *)
(* A critical section under `mu` is one step.  There is ONE condition      *)
(* variable: idle workers and the callers of pool_wait sleep on it         *)
(* together, so the signal of a submit may reach either kind (pc "waiting" *)
(* to pc "lock").  A job may submit more jobs.                             *)
(*                                                                         *)
(* Usage the code relies on: nobody is inside a call, and nobody outside   *)
(* the pool calls again, once pool_free has begun; a job does not wait for *)
(* the pool that runs it.                                                  *)
(***************************************************************************)
EXTENDS Integers, Sequences, FiniteSets, Functions

CONSTANTS
  Jobs,     \* the (fn, arg) pairs that are submitted, each once
  Workers,  \* the threads of the pool; pool_new clamps their number to 1..64
  Callers,  \* the threads that call submit, wait and free
  None      \* the absence of a job

ASSUME FilumPoolAssumption ==
  /\ Workers # {} /\ IsFiniteSet(Workers)
  /\ Workers \cap Callers = {}
  /\ None \notin Jobs

VARIABLES
  queue,      \* head..tail
  active,     \* p->active
  shutdown,   \* p->shutdown
  pc,         \* where each thread is
  job,        \* the job a worker executes
  submitted,  \* history: jobs handed to submit
  finished    \* history: jobs whose function returned

vars == <<queue, active, shutdown, pc, job, submitted, finished>>

Threads == Workers \cup Callers

TypeOK ==
  /\ queue \in Seq(Jobs)
  /\ active \in Int
  /\ shutdown \in BOOLEAN
  /\ pc \in [Threads -> {"test", "lock", "waiting", "run", "settle", "exited",
                         "out", "joining", "freed"}]
  /\ \A w \in Workers : pc[w] \notin {"out", "joining", "freed"}
  /\ \A c \in Callers : pc[c] \notin {"test", "run", "settle", "exited"}
  /\ job \in [Workers -> Jobs \cup {None}]
  /\ \A w \in Workers : pc[w] = "run" => job[w] \in Jobs
  /\ submitted \subseteq Jobs
  /\ finished \subseteq Jobs

\* pool_new: every worker has been created.
Init ==
  /\ queue = <<>>
  /\ active = 0
  /\ shutdown = FALSE
  /\ pc = [t \in Threads |-> IF t \in Workers THEN "test" ELSE "out"]
  /\ job = [w \in Workers |-> None]
  /\ submitted = {}
  /\ finished = {}

-----------------------------------------------------------------------------
(* The condition variable p->cv.                                           *)

Sleeping == {t \in Threads : pc[t] = "waiting"}

Awoken == [t \in Threads |-> IF pc[t] = "waiting" THEN "lock" ELSE pc[t]]

Signal ==
  \/ Sleeping = {} /\ pc' = pc
  \/ \E t \in Sleeping : pc' = [pc EXCEPT ![t] = "lock"]

SpuriousWakeup(t) ==
  /\ pc[t] = "waiting"
  /\ pc' = [pc EXCEPT ![t] = "lock"]
  /\ UNCHANGED <<queue, active, shutdown, job, submitted, finished>>

-----------------------------------------------------------------------------
(* Submitting and waiting.                                                 *)

\* A caller submits until somebody frees the pool, a running job always.
MaySubmit(t) == pc[t] = "run" \/ (pc[t] = "out" /\ ~shutdown)

SubmitSignalsIfEmpty(t, j) ==
  /\ MaySubmit(t)
  /\ j \in Jobs \ submitted
  /\ queue' = Append(queue, j)
  /\ IF queue = <<>> THEN Signal ELSE pc' = pc
  /\ submitted' = submitted \cup {j}
  /\ UNCHANGED <<active, shutdown, job, finished>>

Submit(t, j) ==
  /\ MaySubmit(t)
  /\ j \in Jobs \ submitted
  /\ queue' = Append(queue, j)
  /\ Signal
  /\ submitted' = submitted \cup {j}
  /\ UNCHANGED <<active, shutdown, job, finished>>

WaitCalled(c) ==
  /\ pc[c] = "out"
  /\ ~shutdown
  /\ pc' = [pc EXCEPT ![c] = "lock"]
  /\ UNCHANGED <<queue, active, shutdown, job, submitted, finished>>

BusyQueueOnly == queue # <<>>

Busy == queue # <<>> \/ active > 0

WaitSleeps(c) ==
  /\ pc[c] = "lock"
  /\ Busy
  /\ pc' = [pc EXCEPT ![c] = "waiting"]
  /\ UNCHANGED <<queue, active, shutdown, job, submitted, finished>>

WaitReturns(c) ==
  /\ pc[c] = "lock"
  /\ ~Busy
  /\ pc' = [pc EXCEPT ![c] = "out"]
  /\ UNCHANGED <<queue, active, shutdown, job, submitted, finished>>

-----------------------------------------------------------------------------
(* pengu_pool_worker and pengu_pool_run_one.                               *)

MustStopAtOnce == shutdown

MustStop == shutdown /\ queue = <<>>

Tests(w) ==
  /\ pc[w] = "test"
  /\ pc' = [pc EXCEPT ![w] = IF MustStop THEN "exited" ELSE "lock"]
  /\ UNCHANGED <<queue, active, shutdown, job, submitted, finished>>

Sleeps(w) ==
  /\ pc[w] = "lock"
  /\ ~shutdown
  /\ queue = <<>>
  /\ pc' = [pc EXCEPT ![w] = "waiting"]
  /\ UNCHANGED <<queue, active, shutdown, job, submitted, finished>>

GivesUp(w) ==
  /\ pc[w] = "lock"
  /\ MustStop
  /\ pc' = [pc EXCEPT ![w] = "test"]
  /\ UNCHANGED <<queue, active, shutdown, job, submitted, finished>>

Pops(w) ==
  /\ pc[w] = "lock"
  /\ queue # <<>>
  /\ job' = [job EXCEPT ![w] = Head(queue)]
  /\ queue' = Tail(queue)
  /\ active' = active + 1
  /\ pc' = [pc EXCEPT ![w] = "run"]
  /\ UNCHANGED <<shutdown, submitted, finished>>

\* j->fn(j->arg) returns.
Returns(w) ==
  /\ pc[w] = "run"
  /\ finished' = finished \cup {job[w]}
  /\ job' = [job EXCEPT ![w] = None]
  /\ pc' = [pc EXCEPT ![w] = "settle"]
  /\ UNCHANGED <<queue, active, shutdown, submitted>>

SettlesQuietly(w) ==
  /\ pc[w] = "settle"
  /\ active' = active - 1
  /\ pc' = [pc EXCEPT ![w] = "test"]
  /\ UNCHANGED <<queue, shutdown, job, submitted, finished>>

\* The worker that leaves the pool idle wakes everybody.
Settles(w) ==
  /\ pc[w] = "settle"
  /\ active' = active - 1
  /\ pc' = [(IF active' = 0 /\ queue = <<>> THEN Awoken ELSE pc)
             EXCEPT ![w] = "test"]
  /\ UNCHANGED <<queue, shutdown, job, submitted, finished>>

-----------------------------------------------------------------------------
(* pengu_c_filum_pool_free.                                                *)

FreeBeginsQuietly(c) ==
  /\ \A d \in Callers : pc[d] = "out"
  /\ ~shutdown
  /\ shutdown' = TRUE
  /\ pc' = [pc EXCEPT ![c] = "joining"]
  /\ UNCHANGED <<queue, active, job, submitted, finished>>

FreeBegins(c) ==
  /\ \A d \in Callers : pc[d] = "out"
  /\ ~shutdown
  /\ shutdown' = TRUE
  /\ pc' = [Awoken EXCEPT ![c] = "joining"]
  /\ UNCHANGED <<queue, active, job, submitted, finished>>

\* Every worker has been joined; what is left in the queue is released.
FreeReturns(c) ==
  /\ pc[c] = "joining"
  /\ \A w \in Workers : pc[w] = "exited"
  /\ queue' = <<>>
  /\ pc' = [pc EXCEPT ![c] = "freed"]
  /\ UNCHANGED <<active, shutdown, job, submitted, finished>>

-----------------------------------------------------------------------------
WorkerStep(w) ==
  Tests(w) \/ Sleeps(w) \/ GivesUp(w) \/ Pops(w) \/ Returns(w) \/ Settles(w)

Next ==
  \/ \E w \in Workers : WorkerStep(w)
  \/ \E c \in Callers : \/ WaitCalled(c) \/ WaitSleeps(c) \/ WaitReturns(c)
                        \/ FreeBegins(c) \/ FreeReturns(c)
  \/ \E t \in Threads : SpuriousWakeup(t) \/ \E j \in Jobs : Submit(t, j)

(***************************************************************************)
(* Every thread is scheduled and jobs return.  Nobody has to submit, wait  *)
(* or free, and no thread can count on a spurious wakeup.                  *)
(***************************************************************************)
Fairness ==
  /\ \A w \in Workers : WF_vars(WorkerStep(w))
  /\ \A c \in Callers : WF_vars(WaitSleeps(c) \/ WaitReturns(c) \/ FreeReturns(c))

Spec == Init /\ [][Next]_vars

FairSpec == Spec /\ Fairness

-----------------------------------------------------------------------------
(* Properties.                                                             *)

Held == {job[w] : w \in {v \in Workers : pc[v] = "run"}}

(* The one condition variable loses nobody: while a job is queued some     *)
(* worker is awake, even if the signal of its submit went to a caller of   *)
(* pool_wait, and a caller sleeps only while there is something to wait    *)
(* for (else the last worker has already broadcast).                       *)
NobodySleepsInVain ==
  /\ queue # <<>> => \E w \in Workers : pc[w] \notin {"waiting", "exited"}
  /\ \A c \in Callers : pc[c] = "waiting" => Busy

(* One signal per submit is enough as long as nobody is inside pool_wait:  *)
(* while a worker sleeps, as many workers as there are queued jobs are on  *)
(* their way to the queue, so jobs that need each other run together if    *)
(* there are threads for them.  (A caller inside pool_wait may take the    *)
(* signal; then a worker can sleep over a queued job.)                     *)
Coming == {w \in Workers : pc[w] \in {"settle", "test", "lock"}}

NobodyWaits == \A c \in Callers : pc[c] \notin {"lock", "waiting"}

IdleWorkersCome ==
  NobodyWaits /\ (\E w \in Workers : pc[w] = "waiting") =>
    Len(queue) <= Cardinality(Coming)

(* When pool_wait returns, every job submitted so far has run to its end,  *)
(* those that jobs submitted included.                                     *)
WaitMeansDone ==
  [][\A c \in Callers : pc[c] = "lock" /\ pc'[c] = "out" => finished = submitted]_vars

(* The pool implements the abstract service: a job runs once, and freeing  *)
(* the pool ("Drena y libera el pool") gives up no job that did not run.   *)
Freed == \E c \in Callers : pc[c] = "freed"

Service == INSTANCE OffloadService WITH
  Completions <- Jobs,
  pending   <- Range(queue) \cup Held,
  finished  <- IF Freed THEN {} ELSE finished,
  delivered <- {},
  discarded <- IF Freed THEN finished ELSE {}

ImplementsService == Service!Spec

(* pool_wait and pool_free return, whoever got which signal.               *)
CallsReturn ==
  \A c \in Callers :
    pc[c] \in {"lock", "waiting", "joining"} ~> pc[c] \in {"out", "freed"}
=============================================================================
