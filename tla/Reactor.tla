------------------------------- MODULE Reactor -------------------------------
(***************************************************************************)
(* The event loop, src/std/reactor.pengu, over the C half (ReactorPool).   *)
(*                                                                         *)
(* The loop thread runs main, EventLoop.run and the tasks, one at a time;  *)
(* lpc says which.  A task is a program: at every point it does any of the *)
(* operations in Ops, so a run covers every program built from them.       *)
(* Workers, the helper thread (the petitio dispatcher), descriptors and    *)
(* the clock move in between.                                              *)
(*                                                                         *)
(* Tokens: tasks, timers and offloads draw from one counter (next_token);  *)
(* the helper has a counter of its own (PetitioDispatcher.next).  A        *)
(* completion is <<origin, task, token>>; the code sees task and token.    *)
(*                                                                         *)
(* Abstracted: the tasks, timers and jobs tables are sets keyed by token   *)
(* (the swap-remove of _remove_task and _remove_timer only reorders them,  *)
(* so the order in which new tasks and due timers become ready is left     *)
(* open); the C stack of a task is the call it is suspended in (cont), what *)
(* that call waits for (goal: a token or a time) and, for a batch of       *)
(* helper requests, the last token to await (last).                        *)
(*                                                                         *)
(* Time: clock counts the milliseconds of the run.  The program reads it   *)
(* as an int, the low 32 bits of the milliseconds since boot (Now), and    *)
(* computes deadlines in ints; nothing traps, so they wrap.                *)
(***************************************************************************)
EXTENDS Integers, Sequences, FiniteSets, Functions, SequencesExt

CONSTANTS
  MaxToken,   \* bound: last value of next_token that is handed out
  MaxPost,    \* bound: last token of the helper's counter
  MaxTime,    \* bound: the clock stops here
  Sleeps,     \* durations passed to sleep_ms
  Uptime,     \* milliseconds from boot to the start of the program
  IntSpan,    \* an int is in -IntSpan..(IntSpan - 1); in C IntSpan is 2^31
  Fds,        \* descriptors tasks park on
  Workers, Helpers, None,
  Ops         \* operations tasks and main may use

Ids == 1..MaxToken

Jobs  == {"job"} \X Ids \X Ids
Posts == {"post"} \X Ids \X (1..MaxPost)

ASSUME ReactorAssumption ==
  /\ MaxToken \in Nat /\ MaxPost \in Nat /\ MaxTime \in Nat
  /\ Sleeps \subseteq Nat \ {0}
  /\ Uptime \in Nat /\ IntSpan \in Nat \ {0}
  /\ Workers # {} /\ IsFiniteSet(Workers)
  /\ None \notin Jobs \cup Posts \cup Fds

VARIABLES
  jobs, closing, pool_started, done, wake, wpc, wjob, hpc, opc,
  used, taken, dropped,   \* the C half: see ReactorPool
  tasks,       \* the task table: token -> Task
  timers,      \* live timers: [token, task, deadline]
  offloads,    \* the jobs table: [task, token, done]
  boxes,       \* offload contexts not released yet
  next_token,
  stopped,
  lpc,         \* what the loop thread executes
  ready,       \* the snapshot run resumes
  cur,         \* the task being executed
  requests,    \* handed to the helper, not posted yet
  next_post,   \* the helper's token counter
  reg,         \* descriptor -> task registered for it (0: none)
  fdready,     \* descriptors that are readable
  clock,       \* milliseconds since the program started
  panic        \* the message the program died with

Pool == INSTANCE ReactorPool WITH Backend <- "epoll"

poolVars == <<jobs, closing, pool_started, done, wake, wpc, wjob, hpc, opc,
              used, taken, dropped>>
tableVars == <<tasks, timers, offloads, boxes, next_token>>
ctlVars == <<stopped, lpc, ready, cur, panic>>
helperVars == <<requests, next_post>>
envVars == <<reg, fdready, clock>>
vars == <<poolVars, tableVars, ctlVars, helperVars, envVars>>

Int32 == (-IntSpan)..(IntSpan - 1)

\* What an int variable keeps of a value.
ToInt(x) == ((x + IntSpan) % (2 * IntSpan)) - IntSpan

\* `var now as int is calling pengu_c_reactor_now_ms`, which returns int64.
Now == ToInt(Uptime + clock)

\* How often an int that counts milliseconds from boot has run over by then.
Laps(time) == (Uptime + time + IntSpan) \div (2 * IntSpan)

\* struct Task, and the call the task is suspended in; since is the time of
\* its last sleep_ms.
Task ==
  [state   : {"none", "new", "ready", "fd", "timer", "offload"},
   waiting : 0..(MaxToken + MaxPost),
   pending : Nat,
   posted  : SUBSET (1..(MaxToken + MaxPost)),
   cont    : {"start", "run", "token", "posted", "slept", "io"},
   fd      : Fds \cup {None},
   goal    : 0..(MaxToken + MaxPost + MaxTime),
   since   : 0..MaxTime,
   last    : 0..MaxPost]

NoTask == [state |-> "none", waiting |-> 0, pending |-> 0, posted |-> {},
           cont |-> "start", fd |-> None, goal |-> 0, since |-> 0,
           last |-> 0]

Live == {t \in Ids : tasks[t].state # "none"}

TypeOK ==
  /\ Pool!TypeOK
  /\ tasks \in [Ids -> Task]
  /\ timers \subseteq [token : Ids, task : Ids, deadline : Int32]
  /\ offloads \subseteq [task : Ids, token : Ids, done : BOOLEAN]
  /\ boxes \subseteq Jobs
  /\ next_token \in 1..(MaxToken + 1)
  /\ stopped \in BOOLEAN
  /\ lpc \in {"main", "top", "harvest", "wait", "resume", "task", "closing",
              "closed", "dead"}
  /\ ready \in Seq(Ids)
  /\ cur \in Ids \cup {0}
  /\ requests \subseteq Posts
  /\ next_post \in 1..(MaxPost + 1)
  /\ reg \in [Fds -> Ids \cup {0}]
  /\ fdready \subseteq Fds
  /\ clock \in 0..MaxTime
  /\ panic \in {"", "finished with an offload in flight",
                "yielded without parking", "completion lost",
                "resumed before the offload finished"}

Init ==
  /\ Pool!Init
  /\ tasks = [t \in Ids |-> NoTask]
  /\ timers = {} /\ offloads = {} /\ boxes = {}
  /\ next_token = 1
  /\ stopped = FALSE
  /\ lpc = "main"
  /\ ready = <<>>
  /\ cur = 0
  /\ requests = {} /\ next_post = 1
  /\ reg = [f \in Fds |-> 0]
  /\ fdready = {}
  /\ clock = 0
  /\ panic = ""

-----------------------------------------------------------------------------
(* Main: spawn, run, close.                                                *)

\* EventLoop.spawn: the task is entered as new, never run inline.
Spawn ==
  /\ next_token <= MaxToken
  /\ tasks' = [tasks EXCEPT ![next_token] = [NoTask EXCEPT !.state = "new"]]
  /\ next_token' = next_token + 1

MainSpawns ==
  /\ lpc = "main" /\ opc = "busy"
  /\ Spawn
  /\ UNCHANGED <<poolVars, timers, offloads, boxes, ctlVars, helperVars, envVars>>

\* run is called, or comes back to its loop condition.
LoopTop ==
  /\ lpc \in {"main", "top"} /\ opc = "busy"
  /\ IF (Live # {} \/ timers # {}) /\ ~stopped
       THEN lpc' = "harvest" /\ Pool!BeginHarvest
       ELSE lpc = "top" /\ lpc' = "main" /\ UNCHANGED poolVars
  /\ UNCHANGED <<tableVars, stopped, ready, cur, panic, helperVars, envVars>>

\* EventLoop.close: aux_free has joined the helper; the boxes of the jobs
\* table are released, the tasks abandoned, and then the pool is joined.
Close ==
  /\ "close" \in Ops
  /\ lpc = "main" /\ requests = {}
  /\ Pool!BeginFree
  /\ boxes' = boxes \ {<<"job", o.task, o.token>> : o \in offloads}
  /\ offloads' = {}
  /\ tasks' = [t \in Ids |-> NoTask]
  /\ timers' = {}
  /\ lpc' = "closing"
  /\ UNCHANGED <<next_token, stopped, ready, cur, panic, helperVars, envVars>>

CloseReturns ==
  /\ lpc = "closing"
  /\ Pool!JoinAndFree
  /\ lpc' = "closed"
  /\ UNCHANGED <<tableVars, stopped, ready, cur, panic, helperVars, envVars>>

-----------------------------------------------------------------------------
(* EventLoop.run.                                                          *)

WakesWithoutState(t) == [tasks[t] EXCEPT !.waiting = 0]
WakesToSentinel(t)   == [tasks[t] EXCEPT !.state = "ready", !.waiting = -1]

Wakes(t) == [tasks[t] EXCEPT !.state = "ready", !.waiting = 0]

MatchesAnyWait(task, token) == tasks[task].waiting # 0

Matches(task, token) == tasks[task].waiting = token

\* Step 1, one iteration: a completion is taken and matched by task and
\* token against the jobs table and against what the task waits for.
Harvest ==
  /\ lpc = "harvest" /\ Pool!Take
  /\ LET task  == Head(done)[2]
         token == Head(done)[3]
         mine  == {o \in offloads : o.task = task /\ o.token = token}
     IN /\ offloads' = (offloads \ mine) \cup
                         {[o EXCEPT !.done = TRUE] : o \in mine}
        /\ CASE task \notin Live -> UNCHANGED <<tasks, ready>>
             [] task \in Live /\ Matches(task, token) ->
                  /\ tasks' = [tasks EXCEPT ![task] = Wakes(task)]
                  /\ ready' = Append(ready, task)
             [] task \in Live /\ ~Matches(task, token) ->
                  /\ tasks' = IF mine = {}
                       THEN [tasks EXCEPT ![task].posted = @ \cup {token}]
                       ELSE [tasks EXCEPT ![task].pending = @ + 1]
                  /\ ready' = ready
  /\ UNCHANGED <<timers, boxes, next_token, stopped, lpc, cur, panic,
                 helperVars, envVars>>

HarvestEnds ==
  /\ lpc = "harvest" /\ Pool!TakeNone
  /\ UNCHANGED <<tableVars, ctlVars, helperVars, envVars>>

DueEarly(m) == m.deadline <= Now + 1

Due(m) == m.deadline <= Now

\* Steps 2 to 4: new tasks and due timers become ready; the loop blocks only
\* if nothing is.
Gather ==
  /\ lpc = "harvest" /\ opc = "swept"
  /\ LET due   == {m \in timers : Due(m)}
         new   == {t \in Live : tasks[t].state = "new"}
         slept == {m.task : m \in {n \in due : tasks[n.task].waiting = n.token}}
     IN /\ timers' = timers \ due
        /\ tasks' = [t \in Ids |-> IF t \in new \cup slept THEN Wakes(t)
                                                           ELSE tasks[t]]
        /\ \E s \in SetToSeqs(new), u \in SetToSeqs(slept) :
             ready' = ready \o s \o u
  /\ IF ready' = <<>>
       THEN lpc' = "wait" /\ Pool!BeginWait
       ELSE lpc' = "resume" /\ Pool!Resume
  /\ UNCHANGED <<offloads, boxes, next_token, stopped, cur, panic, helperVars,
                 envVars>>

WaitFdKeepsRegistration(f) ==
  /\ lpc = "wait" /\ Pool!WaitReturns
  /\ f \in fdready /\ reg[f] # 0 /\ reg[f] \in Live
  /\ tasks' = [tasks EXCEPT ![reg[f]].state = "ready", ![reg[f]].fd = None]
  /\ ready' = <<reg[f]>>
  /\ lpc' = "resume"
  /\ UNCHANGED <<timers, offloads, boxes, next_token, stopped, cur, panic,
                 helperVars, envVars>>

\* Step 4: epoll_wait returns the token of a one-shot registration; the
\* registration is deleted and its task becomes ready.
WaitFd(f) ==
  /\ lpc = "wait" /\ Pool!WaitReturns
  /\ f \in fdready /\ reg[f] # 0
  /\ LET t == reg[f]
     IN IF t \in Live
          THEN /\ reg' = [reg EXCEPT ![f] = 0]
               /\ tasks' = [tasks EXCEPT ![t].state = "ready", ![t].fd = None]
               /\ ready' = <<t>>
          ELSE UNCHANGED <<reg, tasks, ready>>
  /\ lpc' = "resume"
  /\ UNCHANGED <<timers, offloads, boxes, next_token, stopped, cur, panic,
                 helperVars, fdready, clock>>

WaitEnds ==
  /\ lpc' = "top"
  /\ UNCHANGED <<tableVars, stopped, ready, cur, panic, helperVars, envVars>>

WaitWoken == lpc = "wait" /\ Pool!DrainWake /\ WaitEnds

\* The timeout is the difference of the least deadline and the clock, 0 if
\* that is negative; without timers it is infinite.
TimeoutNever == FALSE

TimeoutOver ==
  \E first \in timers : /\ \A m \in timers : first.deadline <= m.deadline
                        /\ ToInt(first.deadline - Now) <= 0

WaitTimesOut ==
  /\ lpc = "wait" /\ TimeoutOver
  /\ Pool!WaitReturns /\ WaitEnds

\* EINTR is reported as "no event".
WaitInterrupted == lpc = "wait" /\ Pool!WaitReturns /\ WaitEnds

\* Step 5: resume the snapshot in order, stop after the current resume.
ResumeNext ==
  /\ lpc = "resume" /\ ready # <<>>
  /\ ready' = Tail(ready)
  /\ IF Head(ready) \in Live
       THEN cur' = Head(ready) /\ lpc' = "task"
       ELSE cur' = 0 /\ lpc' = lpc
  /\ UNCHANGED <<poolVars, tableVars, stopped, panic, helperVars, envVars>>

PassEnds ==
  /\ lpc = "resume" /\ ready = <<>>
  /\ lpc' = "top"
  /\ UNCHANGED <<poolVars, tableVars, stopped, ready, cur, panic, helperVars,
                 envVars>>

-----------------------------------------------------------------------------
(* Tasks.                                                                  *)

Me == tasks[cur]

\* The task runs user code: it is past the point it was resumed at.
Running == lpc = "task" /\ Me.cont = "run" /\ opc = "busy"

\* co.resume returns to the loop; after a stop the rest of the snapshot is
\* not resumed.
BackToLoop ==
  /\ cur' = 0
  /\ ready' = IF stopped THEN <<>> ELSE ready
  /\ lpc' = "resume"

Die(why) == panic' = why /\ lpc' = "dead"

\* The worker function is entered, or park_read or sleep_ms returns.  A task
\* may or may not read all that made its descriptor readable.
CallReturns ==
  /\ lpc = "task" /\ Me.cont \in {"start", "slept", "io"}
  /\ tasks' = [tasks EXCEPT ![cur].cont = "run"]
  /\ \/ fdready' = fdready
     \/ Me.cont = "io" /\ fdready' = {}
  /\ UNCHANGED <<poolVars, timers, offloads, boxes, next_token, ctlVars,
                 helperVars, reg, clock>>

\* _consume_job: the entry is removed and job_free releases the context.
Consume(o) ==
  /\ offloads' = offloads \ {o}
  /\ boxes' = boxes \ {<<"job", o.task, o.token>>}

\* await_token after its yield.
TokenReturns ==
  /\ lpc = "task" /\ Me.cont = "token"
  /\ LET mine == {o \in offloads : o.task = cur /\ o.token = Me.goal}
     IN \/ /\ mine = {}
           /\ Die("completion lost")
           /\ UNCHANGED <<tasks, offloads, boxes>>
        \/ \E o \in mine :
             \/ /\ ~o.done
                /\ Die("resumed before the offload finished")
                /\ UNCHANGED <<tasks, offloads, boxes>>
             \/ /\ o.done
                /\ Consume(o)
                /\ tasks' = [tasks EXCEPT ![cur].cont = "run",
                                          ![cur].pending = IF @ > 0 THEN @ - 1 ELSE @]
                /\ UNCHANGED <<lpc, panic>>
  /\ UNCHANGED <<poolVars, timers, next_token, stopped, ready, cur, helperVars,
                 envVars>>

\* loop.offload: the pool is created by the first call.
TaskStartsPool ==
  /\ "offload" \in Ops /\ next_token <= MaxToken
  /\ Running /\ Pool!PoolStart
  /\ UNCHANGED <<tableVars, ctlVars, helperVars, envVars>>

TaskOffloads ==
  /\ "offload" \in Ops /\ next_token <= MaxToken
  /\ lpc = "task" /\ Me.cont = "run"
  /\ LET j == <<"job", cur, next_token>>
     IN /\ Pool!Offload(j)
        /\ boxes' = boxes \cup {j}
  /\ offloads' = offloads \cup
       {[task |-> cur, token |-> next_token, done |-> FALSE]}
  /\ next_token' = next_token + 1
  /\ UNCHANGED <<tasks, timers, ctlVars, helperVars, envVars>>

ParkOnToken(o) ==
  /\ tasks' = [tasks EXCEPT ![cur].state = "offload",
                           ![cur].waiting = o.token,
                           ![cur].cont = "token",
                           ![cur].goal = o.token]
  /\ BackToLoop
  /\ UNCHANGED <<offloads, boxes, stopped, panic>>

TaskAwaitsEagerly(o) ==
  /\ Running /\ o.task = cur
  /\ Consume(o)
  /\ UNCHANGED <<poolVars, tasks, timers, next_token, ctlVars, helperVars, envVars>>

\* await_token: a job already done is consumed at once, else the task parks.
TaskAwaits(o) ==
  /\ Running /\ o.task = cur
  /\ IF o.done
       THEN Consume(o) /\ UNCHANGED <<tasks, ctlVars>>
       ELSE ParkOnToken(o)
  /\ UNCHANGED <<poolVars, timers, next_token, helperVars, envVars>>

TaskSleeps(ms) ==
  /\ "sleep" \in Ops /\ next_token <= MaxToken /\ clock + ms <= MaxTime
  /\ Running
  /\ timers' = timers \cup
       {[token |-> next_token, task |-> cur, deadline |-> ToInt(Now + ms)]}
  /\ next_token' = next_token + 1
  /\ tasks' = [tasks EXCEPT ![cur].state = "timer",
                           ![cur].waiting = next_token,
                           ![cur].cont = "slept",
                           ![cur].since = clock,
                           ![cur].goal = clock + ms]
  /\ BackToLoop
  /\ UNCHANGED <<poolVars, offloads, boxes, stopped, panic, helperVars, envVars>>

\* sleep_ms with ms <= 0 is a bare yield, and run panics on a task that
\* comes back still marked ready.
TaskSleepsZero ==
  /\ "sleep0" \in Ops
  /\ Running
  /\ Die("yielded without parking")
  /\ UNCHANGED <<poolVars, tableVars, stopped, ready, cur, helperVars, envVars>>

\* park_read: epoll_ctl(ADD) fails with EEXIST on a registered descriptor,
\* and then the call returns the error at once (no step).
TaskParks(f) ==
  /\ "park" \in Ops
  /\ Running /\ reg[f] = 0
  /\ reg' = [reg EXCEPT ![f] = cur]
  /\ tasks' = [tasks EXCEPT ![cur].state = "fd", ![cur].fd = f,
                           ![cur].cont = "io"]
  /\ BackToLoop
  /\ UNCHANGED <<poolVars, timers, offloads, boxes, next_token, stopped, panic,
                 helperVars, fdready, clock>>

TaskSpawns ==
  /\ "spawn" \in Ops
  /\ Running
  /\ Spawn
  /\ UNCHANGED <<poolVars, timers, offloads, boxes, ctlVars, helperVars, envVars>>

TaskStops ==
  /\ "stop" \in Ops
  /\ Running
  /\ stopped' = TRUE
  /\ UNCHANGED <<poolVars, tableVars, lpc, ready, cur, panic, helperVars, envVars>>

\* petitio send_async (n = 1) and fetch_many_async: n requests are handed to
\* the dispatcher, numbered by its own counter, then awaited in order.
TaskFetches(n) ==
  /\ "fetch" \in Ops /\ next_post + n - 1 <= MaxPost
  /\ Running
  /\ requests' = requests \cup {<<"post", cur, next_post + i>> : i \in 0..(n - 1)}
  /\ next_post' = next_post + n
  /\ tasks' = [tasks EXCEPT ![cur].state = "offload",
                           ![cur].waiting = next_post,
                           ![cur].cont = "posted",
                           ![cur].goal = next_post,
                           ![cur].last = next_post + n - 1]
  /\ BackToLoop
  /\ UNCHANGED <<poolVars, timers, offloads, boxes, next_token, stopped, panic,
                 envVars>>

PostedUnseen(token) == FALSE

Posted(token) == token \in Me.posted

\* await_posted returns: to the caller after the last request of the batch,
\* else to the next await_posted, which finds its token in `posted` or parks.
PostedReturns ==
  /\ lpc = "task" /\ Me.cont = "posted"
  /\ LET next == Me.goal + 1
     IN CASE Me.goal = Me.last ->
               /\ tasks' = [tasks EXCEPT ![cur].cont = "run"]
               /\ UNCHANGED ctlVars
          [] Me.goal # Me.last /\ Posted(next) ->
               /\ tasks' = [tasks EXCEPT ![cur].goal = next,
                                        ![cur].posted = @ \ {next}]
               /\ UNCHANGED ctlVars
          [] Me.goal # Me.last /\ ~Posted(next) ->
               /\ tasks' = [tasks EXCEPT ![cur].state = "offload",
                                        ![cur].waiting = next,
                                        ![cur].goal = next]
               /\ BackToLoop
               /\ UNCHANGED <<stopped, panic>>
  /\ UNCHANGED <<poolVars, timers, offloads, boxes, next_token, helperVars,
                 envVars>>

\* The worker function returns.
TaskFinishes ==
  /\ Running
  /\ IF \E o \in offloads : o.task = cur
       THEN /\ Die("finished with an offload in flight")
            /\ UNCHANGED <<tasks, ready, cur, stopped>>
       ELSE /\ tasks' = [tasks EXCEPT ![cur] = NoTask]
            /\ BackToLoop
            /\ UNCHANGED <<stopped, panic>>
  /\ UNCHANGED <<poolVars, timers, offloads, boxes, next_token, helperVars,
                 envVars>>

-----------------------------------------------------------------------------
(* Workers, helper, environment.                                           *)

WorkerStep(w) ==
  /\ Pool!WorkerStep(w) \/ Pool!SpuriousWakeup(w)
  /\ UNCHANGED <<tableVars, ctlVars, helperVars, envVars>>

HelperStep(h) ==
  /\ \/ \E p \in requests : Pool!HelperPosts(h, p) /\ requests' = requests \ {p}
     \/ Pool!HelperWakes(h) /\ UNCHANGED requests
  /\ UNCHANGED <<tableVars, ctlVars, next_post, envVars>>

Tick ==
  /\ clock < MaxTime
  /\ clock' = clock + 1
  /\ UNCHANGED <<poolVars, tableVars, ctlVars, helperVars, reg, fdready>>

FdReady(f) ==
  /\ f \notin fdready
  /\ fdready' = fdready \cup {f}
  /\ UNCHANGED <<poolVars, tableVars, ctlVars, helperVars, reg, clock>>

LoopStep ==
  \/ LoopTop \/ Harvest \/ HarvestEnds \/ Gather
  \/ WaitWoken \/ WaitTimesOut \/ (\E f \in Fds : WaitFd(f))
  \/ ResumeNext \/ PassEnds
  \/ CloseReturns

TaskStep ==
  \/ CallReturns \/ TokenReturns \/ PostedReturns
  \/ TaskStartsPool \/ TaskOffloads
  \/ (\E o \in offloads : TaskAwaits(o))
  \/ (\E ms \in Sleeps : TaskSleeps(ms))
  \/ TaskSleepsZero
  \/ (\E f \in Fds : TaskParks(f))
  \/ TaskSpawns
  \/ TaskStops
  \/ (\E n \in 1..2 : TaskFetches(n))
  \/ TaskFinishes

Next ==
  \/ MainSpawns \/ Close
  \/ LoopStep \/ WaitInterrupted
  \/ TaskStep
  \/ (\E w \in Workers : WorkerStep(w))
  \/ (\E h \in Helpers : HelperStep(h))
  \/ Tick
  \/ (\E f \in Fds : FdReady(f))

Spec == Init /\ [][Next]_vars

(***************************************************************************)
(* The loop and the task it runs are one thread that is never descheduled  *)
(* for good; workers and the helper are scheduled; offloaded functions and *)
(* transfers end; time passes.  Nothing is assumed of descriptors, of what *)
(* main does, or of spurious wakeups and interrupted waits.                *)
(***************************************************************************)
Fairness ==
  /\ WF_vars(LoopStep)
  /\ WF_vars(TaskStep)
  /\ \A w \in Workers : WF_vars(Pool!WorkerStep(w) /\ WorkerStep(w))
  /\ \A h \in Helpers : WF_vars(HelperStep(h))
  /\ WF_vars(Tick)

FairSpec == Spec /\ Fairness

-----------------------------------------------------------------------------
(* Properties.                                                             *)

LoopAlive == lpc \notin {"closing", "closed", "dead"}

(* Every suspended task has the one thing that will resume it: a place in  *)
(* the snapshot, a registered descriptor, a timer, or a completion still   *)
(* on its way.  run sleeps with an infinite timeout on this assumption; a  *)
(* task without a wake source would hang its program silently.             *)
NoOrphanTask ==
  LoopAlive => \A t \in Live \ {cur} :
    LET me == tasks[t]
    IN CASE me.state = "new" -> TRUE
         [] me.state = "ready" -> t \in Range(ready) \/ stopped
         [] me.state = "fd" -> me.fd \in Fds /\ reg[me.fd] = t
         [] me.state = "timer" ->
              \E m \in timers : m.task = t /\ m.token = me.waiting
         [] me.state = "offload" /\ me.cont = "token" ->
              <<"job", t, me.waiting>> \in used \ taken
         [] me.state = "offload" /\ me.cont = "posted" ->
              <<"post", t, me.waiting>> \in requests \cup (used \ taken)

(* What a suspended call waited for has happened when it returns: the      *)
(* completion with its own token was taken, or the time it was to sleep    *)
(* ("at least `ms` milliseconds", reactor.pengu:296) is over, unless the   *)
(* millisecond counter ran over during the sleep.  Harvest matches         *)
(* completions by task and token only, and resumes a task through one      *)
(* field (waiting) shared by timers, offloads and posts.  So the panics    *)
(* that await_token keeps for a wrong wakeup cannot happen.                *)
WokenForItsReason ==
  /\ panic \notin {"completion lost", "resumed before the offload finished"}
  /\ lpc = "task" =>
       /\ Me.cont = "token"  => <<"job", cur, Me.goal>> \in taken
       /\ Me.cont = "posted" => <<"post", cur, Me.goal>> \in taken
       /\ Me.cont = "slept"  => \/ Me.goal <= clock
                                \/ Laps(Me.since) # Laps(Me.goal)

(* A task is queued at most once per pass, and only if it is marked ready: *)
(* resuming a task twice would run it past a call that has not finished.   *)
SnapshotSound ==
  /\ IsInjective(ready)
  /\ \A t \in Range(ready) : t # cur /\ (t \in Live => tasks[t].state = "ready")
  /\ lpc = "task" => tasks[cur].state = "ready"

(* The context of an offload is alive while a worker may still use it.     *)
(* reactor.pengu:415-417: "`job_free` releases `ctx` after the completion  *)
(* is consumed."                                                           *)
ContextAlive ==
  \A j \in Jobs : (j \in Range(jobs) \/ \E w \in Workers : wjob[w] = j) => j \in boxes

(* A descriptor is registered exactly while a task is parked on it, so the *)
(* next park_read of it does not fail with EEXIST.                         *)
RegisteredIffParked ==
  LoopAlive => \A f \in Fds, t \in Ids :
    reg[f] = t <=> (tasks[t].state = "fd" /\ tasks[t].fd = f)

(* A call that suspends its task returns: whatever happens to workers,     *)
(* timers and other tasks, a task parked on an offload or a timer is       *)
(* resumed, unless the loop is stopped or the program dies.  A sleep that  *)
(* the millisecond counter runs over may miss its deadline for a whole     *)
(* turn of the counter; of a run it runs over nothing is claimed.          *)
CallsReturn ==
  \A t \in Ids : tasks[t].state \in {"offload", "timer"} ~>
                  \/ lpc = "task" /\ cur = t
                  \/ stopped \/ panic # "" \/ Laps(clock) # Laps(0)
=============================================================================
