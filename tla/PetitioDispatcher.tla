-------------------------- MODULE PetitioDispatcher --------------------------
(***************************************************************************)
(* The transfer dispatcher of std/petitio.pengu: one helper thread per     *)
(* loop that takes all queued requests as a batch, runs them in one        *)
(* libcurl multi engine and posts their completions when the whole batch   *)
(* is done; and the calls of the loop thread that queue requests, consume  *)
(* completions and shut the dispatcher down.                               *)
(*                                                                         *)
(* A request is its token.  The job record of a request lives on the stack *)
(* of the calling task (send_async) or in a box (fetch_many_async) and is  *)
(* gone when the call returns.  A critical section of the loop thread is   *)
(* one step; the dispatcher's wait loop is split, because shutting down    *)
(* does not take the mutex.                                                *)
(***************************************************************************)
EXTENDS Integers, Sequences, FiniteSets, Functions

CONSTANTS
  MaxReq,    \* bound: the last token that is handed out
  MaxBatch,  \* bound: requests of one fetch_many_async
  Failures   \* what may fail: "thread", "engine", "handle", "add"

ASSUME DispatcherAssumption ==
  /\ MaxReq \in Nat /\ MaxBatch \in Nat \ {0}
  /\ Failures \subseteq {"thread", "engine", "handle", "add"}

VARIABLES
  jobs,      \* d->jobs
  stopping,  \* d->stopping
  next,      \* d->next
  mutex,     \* the dispatcher holds d->mutex
  dpc,       \* where the dispatcher thread is
  batch,     \* its batch, posted requests removed
  active,    \* requests of the batch whose transfer runs
  lost,      \* requests the engine did not accept (index -1)
  out,       \* requests whose result is written
  posted,    \* history: requests posted to the loop
  calls,     \* calls in flight: the tokens of each
  freed,     \* requests whose job record is gone
  opc        \* the loop thread: running, or in _petitio_dispatcher_free

queueVars  == <<jobs, next, calls, freed>>
engineVars == <<batch, active, lost, out, posted>>
vars == <<queueVars, engineVars, stopping, mutex, dpc, opc>>

Tokens == 1..MaxReq

TypeOK ==
  /\ jobs \in Seq(Tokens) /\ batch \in Seq(Tokens)
  /\ stopping \in BOOLEAN /\ mutex \in BOOLEAN
  /\ next \in 1..(MaxReq + 1)
  /\ dpc \in {"none", "failed", "lock", "check", "sleep", "waiting", "engine",
              "transfer", "post", "exited"}
  /\ active \subseteq Tokens /\ lost \subseteq Tokens /\ out \subseteq Tokens
  /\ posted \subseteq Tokens /\ freed \subseteq Tokens
  /\ calls \subseteq SUBSET Tokens
  /\ opc \in {"run", "stopping", "join", "freed"}

Init ==
  /\ jobs = <<>> /\ batch = <<>>
  /\ stopping = FALSE /\ mutex = FALSE
  /\ next = 1
  /\ dpc = "none"
  /\ active = {} /\ lost = {} /\ out = {}
  /\ posted = {} /\ freed = {}
  /\ calls = {}
  /\ opc = "run"

-----------------------------------------------------------------------------
(* The loop thread.                                                        *)

BroadcastLost == dpc' = dpc

\* cond.broadcast: the dispatcher is the only thread that waits.
Broadcast == dpc' = IF dpc = "waiting" THEN "lock" ELSE dpc

\* _petitio_dispatcher_get: the first request creates the dispatcher.  The
\* result of filum.start is not looked at.
Get ==
  /\ opc = "run" /\ dpc = "none"
  /\ dpc' \in {"lock"} \cup (IF "thread" \in Failures THEN {"failed"} ELSE {})
  /\ UNCHANGED <<queueVars, engineVars, stopping, mutex, opc>>

Hand(n) ==
  /\ jobs' = jobs \o [i \in 1..n |-> next + i - 1]
  /\ next' = next + n
  /\ calls' = calls \cup {next..(next + n - 1)}

SubmitSameToken(n) ==
  /\ opc = "run" /\ dpc # "none" /\ ~mutex
  /\ next + n - 1 <= MaxReq
  /\ jobs' = jobs \o [i \in 1..n |-> next]
  /\ next' = next + n
  /\ calls' = calls \cup {next..(next + n - 1)}
  /\ Broadcast
  /\ UNCHANGED <<freed, engineVars, stopping, mutex, opc>>

\* send_async (n = 1) and fetch_many_async: the requests of one call are
\* queued in one critical section.
Submit(n) ==
  /\ opc = "run" /\ dpc # "none" /\ ~mutex
  /\ next + n - 1 <= MaxReq
  /\ Hand(n)
  /\ Broadcast
  /\ UNCHANGED <<freed, engineVars, stopping, mutex, opc>>

ReturnsAtFirstPost(c) ==
  /\ opc = "run"
  /\ c \cap posted # {}
  /\ calls' = calls \ {c}
  /\ freed' = freed \cup c
  /\ UNCHANGED <<jobs, next, engineVars, stopping, mutex, dpc, opc>>

\* await_posted returned for every request of the call: the results are
\* read and the job records go away.
CallReturns(c) ==
  /\ opc = "run"
  /\ c \subseteq posted
  /\ calls' = calls \ {c}
  /\ freed' = freed \cup c
  /\ UNCHANGED <<jobs, next, engineVars, stopping, mutex, dpc, opc>>

FreeOnlyAnnounces ==
  /\ opc = "run" /\ dpc # "none"
  /\ opc' = "stopping"
  /\ UNCHANGED <<queueVars, engineVars, stopping, mutex, dpc>>

\* _petitio_dispatcher_free, called by close: `stopping` is set and announced
\* without the mutex, in two steps; then the thread is joined (joining one
\* that was never started is an error that is not looked at).
FreeStops ==
  /\ opc = "run" /\ dpc # "none"
  /\ stopping' = TRUE
  /\ opc' = "stopping"
  /\ UNCHANGED <<queueVars, engineVars, mutex, dpc>>

FreeBroadcasts ==
  /\ opc = "stopping"
  /\ Broadcast
  /\ opc' = "join"
  /\ UNCHANGED <<queueVars, engineVars, stopping, mutex>>

FreeJoins ==
  /\ opc = "join"
  /\ dpc \in {"exited", "failed"}
  /\ opc' = "freed"
  /\ UNCHANGED <<queueVars, engineVars, stopping, mutex, dpc>>

-----------------------------------------------------------------------------
(* _petitio_dispatcher_loop.                                               *)

Locks ==
  /\ dpc = "lock" /\ ~mutex
  /\ mutex' = TRUE
  /\ dpc' = "check"
  /\ UNCHANGED <<queueVars, engineVars, stopping, opc>>

\* Both conditions of the wait loop were read; cond.wait_mutex is next.
SeesNothing ==
  /\ dpc = "check"
  /\ jobs = <<>> /\ ~stopping
  /\ dpc' = "sleep"
  /\ UNCHANGED <<queueVars, engineVars, stopping, mutex, opc>>

Sleeps ==
  /\ dpc = "sleep"
  /\ mutex' = FALSE
  /\ dpc' = "waiting"
  /\ UNCHANGED <<queueVars, engineVars, stopping, opc>>

SpuriousWakeup ==
  /\ dpc = "waiting"
  /\ dpc' = "lock"
  /\ UNCHANGED <<queueVars, engineVars, stopping, mutex, opc>>

Exits ==
  /\ dpc = "check"
  /\ jobs = <<>> /\ stopping
  /\ mutex' = FALSE
  /\ dpc' = "exited"
  /\ UNCHANGED <<queueVars, engineVars, stopping, opc>>

\* The whole queue becomes the batch.
TakesBatch ==
  /\ dpc = "check"
  /\ jobs # <<>>
  /\ batch' = jobs
  /\ jobs' = <<>>
  /\ mutex' = FALSE
  /\ dpc' = "engine"
  /\ UNCHANGED <<next, calls, freed, active, lost, out, posted, stopping, opc>>

-----------------------------------------------------------------------------
(* _petitio_dispatcher_batch.                                              *)

\* petitio_multi_new failed: every request gets an error.
NoEngine ==
  /\ dpc = "engine" /\ "engine" \in Failures
  /\ out' = out \cup Range(batch)
  /\ dpc' = "post"
  /\ UNCHANGED <<queueVars, batch, active, lost, posted, stopping, mutex, opc>>

\* A request without a handle gets an error; one that petitio_multi_add
\* refuses keeps index -1 and is counted as pending.
AddsAll ==
  /\ dpc = "engine"
  /\ \E null \in SUBSET Range(batch), refused \in SUBSET Range(batch) :
       /\ null # {} => "handle" \in Failures
       /\ refused # {} => "add" \in Failures
       /\ null \cap refused = {}
       /\ out' = out \cup null
       /\ lost' = refused
       /\ active' = Range(batch) \ (null \cup refused)
  /\ dpc' = "transfer"
  /\ UNCHANGED <<queueVars, batch, posted, stopping, mutex, opc>>

\* petitio_multi_perform ended a transfer and petitio_multi_pop returned it.
TransferEnds(r) ==
  /\ dpc = "transfer"
  /\ r \in active
  /\ active' = active \ {r}
  /\ out' = out \cup {r}
  /\ UNCHANGED <<queueVars, batch, lost, posted, stopping, mutex, dpc, opc>>

BatchEndsAtFirst ==
  /\ dpc = "transfer"
  /\ Cardinality(active) <= 1 /\ lost = {}
  /\ active' = {}
  /\ dpc' = "post"
  /\ UNCHANGED <<queueVars, batch, lost, out, posted, stopping, mutex, opc>>

\* pending = 0.
BatchEnds ==
  /\ dpc = "transfer"
  /\ active = {} /\ lost = {}
  /\ dpc' = "post"
  /\ UNCHANGED <<queueVars, engineVars, stopping, mutex, opc>>

\* Every request of the batch is posted, in order.
Posts ==
  /\ dpc = "post"
  /\ batch # <<>>
  /\ posted' = posted \cup {Head(batch)}
  /\ batch' = Tail(batch)
  /\ UNCHANGED <<queueVars, active, lost, out, stopping, mutex, dpc, opc>>

PostsDone ==
  /\ dpc = "post"
  /\ batch = <<>>
  /\ dpc' = "lock"
  /\ UNCHANGED <<queueVars, engineVars, stopping, mutex, opc>>

-----------------------------------------------------------------------------
DispatcherStep ==
  \/ Locks \/ SeesNothing \/ Sleeps \/ Exits \/ TakesBatch
  \/ NoEngine \/ AddsAll \/ BatchEnds \/ Posts \/ PostsDone

LoopThread ==
  \/ Get
  \/ \E n \in 1..MaxBatch : Submit(n)
  \/ \E c \in calls : CallReturns(c)
  \/ FreeStops \/ FreeBroadcasts \/ FreeJoins

Next ==
  \/ LoopThread
  \/ DispatcherStep \/ SpuriousWakeup
  \/ \E r \in Tokens : TransferEnds(r)

Spec == Init /\ [][Next]_vars

(***************************************************************************)
(* Both threads are scheduled and every transfer ends (libcurl's timeouts). *)
(* A spurious wakeup cannot be counted on.                                 *)
(***************************************************************************)
Fairness ==
  /\ WF_vars(DispatcherStep)
  /\ \A r \in Tokens : WF_vars(TransferEnds(r))
  /\ WF_vars(FreeBroadcasts)
  /\ WF_vars(FreeJoins)

FairSpec == Spec /\ Fairness

-----------------------------------------------------------------------------
(* Properties.                                                             *)

(* Every request is queued, in the batch or posted, and in one of them     *)
(* only: none is dropped between two batches and none is posted twice.     *)
RequestsOnce ==
  /\ 1..(next - 1) = Range(jobs) \cup Range(batch) \cup posted
  /\ IsInjective(jobs) /\ IsInjective(batch)
  /\ Range(jobs) \cap Range(batch) = {}
  /\ (Range(jobs) \cup Range(batch)) \cap posted = {}

(* The dispatcher never touches the job record of a call that returned:    *)
(* records live on task stacks, which are reused.                          *)
JobsAlive == freed \cap (Range(jobs) \cup Range(batch)) = {}

(* A request is posted only when its result is written, so await_posted    *)
(* never returns to a task that would read an empty `out`.                 *)
ResultBeforePost == posted \subseteq out

(* The requests of one fetch_many_async are in one batch: petitio.pengu,   *)
(* "transfers run concurrently in one multi engine".                       *)
CallInOneBatch ==
  \A c \in calls : c \cap Range(jobs) # {} => c \subseteq Range(jobs)

(* The dispatcher does not sleep, nor is it about to, over queued requests. *)
NoSleepOverJobs == dpc \in {"sleep", "waiting"} => jobs = <<>>

(* close finds nothing left to serve: it may abandon the stacks on which    *)
(* job records live.                                                        *)
DrainedWhenFreed ==
  opc = "freed" /\ dpc = "exited" => 1..(next - 1) \subseteq posted

(* The dispatcher is the helper the event loop relies on.                  *)
Service == INSTANCE RequestService WITH
  Requests <- Tokens,
  open     <- Range(jobs) \cup Range(batch),
  posted   <- posted,
  closed   <- (opc = "freed")

ServesRequests == Service!Spec

(* Every request is posted: a batch ends, and the next one starts.         *)
EveryRequestPosted == \A r \in Tokens : r < next ~> r \in posted

(* A shutdown that begins while a batch is in flight ends.                 *)
BusyCloseReturns ==
  opc = "stopping" /\ dpc \in {"engine", "transfer", "post"} ~> opc = "freed"

(* reactor.pengu:162-163: "`close` calls the destructor on the owner       *)
(* thread before freeing the reactor": the destructor returns.             *)
CloseReturns == opc = "stopping" ~> opc = "freed"
=============================================================================
