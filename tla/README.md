# Verification of PenguScript's concurrent runtime

PenguScript is a compiled language: `psc` (written in PenguScript, under
`src/psc`) translates a program to C, and the result is linked with a C runtime
(`runtime/`) and a standard library (`std/*.pengu`, with C halves in `std_c/`).
Most of the repository is sequential: lexing, checking and code generation are
functions of a source tree. What is hard to get right and hard to test is the
runtime a compiled program runs on: an event loop with stackful tasks, a pool
of threads it offloads blocking calls to, a second thread that drives HTTP
transfers, and the threads, pool, locks and channels of `std.filum`. That is the
core this project models. Two parts of the compiler keep state on disk that
outlives the process and are modelled too: its build cache, which other
processes share, and the packages of a project.

Paths below are relative to the repository. Line numbers are those of the
commit the modules were translated from (version 0.36.0).

## 1. Inventory

### The system's parts

**Reactor, C half** (`runtime/pengu_reactor.c`, POSIX part 398-808).
State: a queue of jobs under `lock` with the condition `work_cv`, a list of
completions under `done_lock`, a wake descriptor, the flags `closing` and
`pool_started`. Operations: `offload` (starts the pool on the first job, queues,
signals), the worker loop, `post` (append a completion, then write the wake
descriptor), `take`, `wait` (epoll or poll), `free` (announce `closing`, join
the workers, free what is left). Shared by the loop thread, the workers and any
thread that posts. Correct when no completion is lost or reported twice, the
loop never blocks over a completion nobody will announce, a sleeping worker
never leaves a job waiting, and `free` returns with every accepted job executed.

**Event loop** (`std/reactor.pengu`). State: the tables of tasks, timers and
jobs, one counter for all tokens, the stop flag, the snapshot of tasks to
resume. Operations: `spawn`, `park_read`/`park_write`, `sleep_ms`, `offload`
with `await_token`, `await_posted`, `post_completion`, `stop`, `run`, `close`.
Everything but `post_completion` belongs to one thread. Correct when every
suspended task has the thing that will resume it, a call returns for the event
it waited for and no other, a task is resumed at most once per pass, and
closing releases nothing that is in use.

**petitio dispatcher** (`std/petitio.pengu` 2490-2800 and the multi engine in
`std_c/petitio.c` 1087-1337). One helper thread per loop: requests of tasks are
queued under a mutex, the thread takes the whole queue as a batch, runs it in
one libcurl multi engine and posts the completions to the loop. Job records
live on the stacks of the tasks that wait. Correct when each request is posted
once, after its result was written, no record is used after its call returned,
and shutting down drains the queue and returns.

**filum channels** (`runtime/pengu_runtime.c` 1140-1410, `std/filum.pengu`). A
channel is a ring under one mutex with two conditions; a channel of capacity 0
is a rendezvous. Correct when a channel is a bounded first-in first-out queue,
what `send` reports is what happened to the value, nobody sleeps on a condition
that holds, and closing lets every caller return.

**filum pool** (`runtime/pengu_runtime.c` 590-770). Workers, a queue of jobs and
one condition variable that idle workers and the callers of `pool_wait` share.
Operations: `submit` (by callers and by jobs), `wait`, `free`. Correct when a job
runs once, nobody sleeps over what it waits for whoever got the signal,
`pool_wait` returns only when everything submitted has run, and `pool_free`
runs what is queued before it returns.

**filum threads, WaitGroup and Once** (`runtime/pengu_runtime.c` 178-510 and
845-1000). Thread records in a table, reached by ids that any thread may use,
with a reference count; a counter under a mutex; a flag under a mutex.
Operations: `start`, `join`, `detach`, `is_finished`, `name`, `set_name`, `id`;
`add`, `done`, `wait`; `do_once`. Correct when a record is freed exactly when
nobody can reach it, nothing returns early, and everything returns.

**Coroutines** (`runtime/pengu_coro.c`, `std/coro.pengu`): an arena of slots
with generation counters and resume/yield/finish states; single-threaded by
contract.

**Build cache** (`src/psc/cache/cache.pengu`, `src/psc/cmd/gc.pengu`): entries
keyed by a digest of flags and sources, written by a copy to a temporary name
and a rename, and collected by another command that may run at the same time.
Shared by all `psc` processes of a machine through the file system only, and any
of them can be killed. The builds of one project also share `build/bundle.c`, the
C code on its way to the compiler. Correct when an entry that is found is whole and is what
its key says, and no command answers differently because of the cache.

**Packages** (`src/psc/cmd/deps.pengu`, `src/psc/pkg/`, and the dependency
section of `src/psc/driver/build.pengu`). State, all of it on disk: `pengu.toml`,
`pengu.lock`, one directory per package in `lib/`. Operations: `add`, `remove`,
`update`, `upgrade`, `verify`, `build`, `build --locked`. Each edits the manifest,
resolves it breadth first and installs what is missing or does not satisfy its
constraint, runs build scripts, writes the lock. Any step can fail and the
process can be killed. Correct when the lock that a successful command leaves
describes what the manifest asks for and what is installed, the commands that
check it agree, a failed `add` is undone, and there is a way back from whatever
a killed command leaves.

**Watch mode** (`src/psc/cmd/watch.pengu`) and the **language server**
(`src/psc/lsp/`): loops over file times and over requests, each with a table of
documents that must follow what the editor sent.

**Sequential parts**: lexer, parser, semantic analysis, code generation,
command line, formatter, documentation generator, containers, JSON/TOML and the
other data libraries. `PROJECT.json` lists every part with its state.

### How they interact

```
 tasks (coroutines) ──calls──▶ EventLoop (std/reactor.pengu) ──▶ ReactorPool (C)
      │                              ▲  close / set_aux            │ offload
      │ send_async, fetch_many_async │                             ▼
      └──────────▶ dispatcher ───────┘ post(task, token)      worker threads
                   (helper thread, filum mutex + cond)
 filum threads ──send/recv/close──▶ channels
      ├──submit/wait/free──▶ pool          ├──do_once──▶ Once
      └──start/join/detach──▶ thread table └──add/done/wait──▶ WaitGroup
 psc processes ──get/has, put/mark──▶ cache directory ◀──deletes── psc gc
 psc add/remove/update/upgrade/verify/build ──▶ pengu.toml, lib/*, pengu.lock
```

The loop reaches the C half through calls (`offload`, `take`, `wait`, `free`).
Workers and the dispatcher reach the loop only by posting a pair (task, token)
and writing the wake descriptor. The dispatcher shares its queue with the loop
thread and holds pointers into task stacks. The loop calls the dispatcher's
destructor (`set_aux`) from `close`.

### What is hard

* Wakeups: every wait (worker, loop, dispatcher, sender, receiver) sleeps on a
  condition another thread makes true, with a signal, a broadcast or a byte in a
  descriptor. Losing one is a hang that shows once in a million runs.
* Identity: completions are matched by (task, token), with two counters that
  hand out tokens, and one field of a task for timers, offloads and posts.
* Lifetime: contexts and job records belong to the loop thread, and other
  threads hold pointers to them while the loop may stop, close or return.
* Shutdown at any moment: jobs queued, running, posted; callers blocked.
* Wake-ups without cause, and threads that come in between a signal and the
  thread it woke.
* Files that several processes read, truncate, rename and delete, with a process
  gone between any two system calls.
* Commands of a dozen steps on three files, each of which can fail, with an undo
  that starts from the step that failed.

`PROJECT.json` ("hazards") lists them line by line with the properties that
watch them.

## 2. Modules

| Module | What it is |
|---|---|
| `OffloadService` | abstract: jobs run once and are reported once |
| `ReactorPool` | the C half: queues, conditions, wake descriptor, workers, helpers, owner |
| `Reactor` | the event loop over `ReactorPool`; tasks are arbitrary programs |
| `RequestService` | abstract: the contract between loop and dispatcher |
| `PetitioDispatcher` | the dispatcher thread, its callers, its shutdown |
| `Channel` | abstract: a bounded queue that can be closed |
| `FilumChan` | channels with their ring, lock, conditions and callers |
| `FilumPool` | the filum worker pool and its callers |
| `FilumThread` | the table of thread records, their reference counts, start, join, detach, polling |
| `FilumSync` | WaitGroup and Once |
| `FilumProgram` | threads, WaitGroup and Once in one program, used as the library asks |
| `BuildCache` | the artifact cache: builds, checks, kills and collections |
| `PkgProject` | the packages of a project: manifest, lock, directories, and the commands on them |
| `*_proofs` | theorems of the module they are named after |
| `MC*` | instances for TLC: small sets of threads, jobs and values |

How they compose:

* `Reactor` instantiates `ReactorPool` (`Pool`) with the same variables: each
  call the loop makes is the pool's action conjoined with what the loop does.
  By this construction the loop calls the pool only in ways `ReactorPool` allows
  its owner. No run repeats it: it is the lemma `StepUsesPool`, and what is proved of
  the pool holds under the loop (`PoolInLoop`, `ServiceInLoop`).
* `Reactor` knows the dispatcher only as `RequestService`: requests are handed
  over together, posted once each, and the helper is gone only when none is
  open. `PetitioDispatcher` is shown to implement that contract
  (`ServesRequests`); the helper's actions in `Reactor` are those of the
  contract. The guard `requests = {}` of `Reactor!Close` is therefore not an assumption of
  its own: it is what the destructor's drain establishes (theorem
  `DrainedWhenFreedCorrect`).
* `ReactorPool` and `FilumPool` both refine `OffloadService`, `FilumChan` refines
  `Channel`, by the mappings at the end of each module. (The filum pool reports
  nothing: its jobs are done when they have run, and freeing the pool gives up
  the finished ones.)
* `FilumProgram` extends `FilumThread` and `FilumSync` and conjoins their actions:
  an actor raises the counter, then starts a thread; the thread passes the
  Once, works, calls `done` and ends; any actor waits, joins, detaches or polls.

### Correspondence with the code

A critical section (between lock and unlock, or between two waits) is one
action. A thread in `pthread_cond_wait` has a program counter of its own; a
signal moves one such thread to "about to lock", a broadcast moves all, and
`SpuriousWakeup` moves one at any time. Where the code acts without the lock,
the steps are separate: `post` appends and then writes the descriptor
(`WorkerPosts`, `WorkerWakes`), and the dispatcher's destructor sets `stopping`
and broadcasts in two steps (`FreeStops`, `FreeBroadcasts`) that can fall
between the dispatcher's test (`SeesNothing`) and its wait (`Sleeps`).

`ReactorPool`: `jobs`, `closing`, `pool_started`, `done`, `wake` are the fields
of the C structure; `wpc`/`wjob`, `hpc` and `opc` are where the workers, the
posting threads and the owner are. `used`, `taken`, `dropped` are history. The
owner's pc is `busy` while control is in `reactor.pengu`.

`Reactor`: `tasks`, `timers`, `offloads` are the three tables (keyed by token,
so the order swap-remove leaves them in is open), `ready` is the snapshot of
`run`, `lpc` is the statement of `run`, of `main` or of a task that is executing.
A task is not a fixed script: when it runs it may do any operation in `Ops`, so
a run covers every program built from those operations within the bounds. The
stack of a suspended task is the call it is in (`cont`) and what that call waits
for (`goal`, `last`). `boxes` are the offload contexts not yet released. `clock` counts
the milliseconds of the run; what the program sees is `Now`, the low bits of the
milliseconds since boot as an `int` (`reactor.pengu:90`, an `extern` of type `int` for
a C function that returns 64 bits), and deadlines are sums of ints that wrap
(`ToInt`). The constants `IntSpan` and `Uptime` are the width and the start.

`PetitioDispatcher`: a request is its token; `calls` are the calls of tasks in
flight with the tokens of each, `freed` the requests whose job record is gone.
`Failures` says what may go wrong: the thread is not created, the multi engine
or a handle is not created, or `petitio_multi_add` refuses (out of memory).

`FilumChan`: `slot`, `head`, `tail`, `size`, `closed`, `active` are the fields;
`spc`/`rpc` are where senders and receivers are, `retry` and `recheck` being a
thread that was woken and has not got the mutex yet. A message is the number of
its send call. `accepted`, `refused`, `received` and `ended` record what callers were told.

`FilumPool`: `queue`, `active`, `shutdown` are the fields of the C structure, and
one `pc` covers workers and callers because they share the condition variable:
`Signal` picks any sleeper, worker or caller. `pengu_pool_worker` takes the lock
three times per job (test, take, settle), which are three steps. `submitted` and
`finished` are history.

`FilumThread`: `table` is `g_threads`, `refs` and `live` the reference count and
whether the record is still allocated, `finished` the flag; `tpc` is where the
thread itself is between its function and its last release, `apc`/`on` where an
actor is inside a call and the record it holds a pointer to. `is_finished` is
two lookups (`PollBegins`, `PollFinds`), as in `filum.pengu`, so another call can
come in between. `start` reads `t->id` after it has given the record to the table
and the thread (`StartReturns`).

`FilumSync`: `count`, `done`, `running` are the fields; `gpc` and `opc` where each
user is in `wait_group_wait` and in `do_once`. `FilumProgram!plan` says how far a
thread is, and which actor has counted it.

`BuildCache`: `app`, `tmp`, `bundle`, `out`, `dirs` are the files: an entry, a process's
temporary file, the project's `build/bundle.c`, an artifact, an entry directory. A
file's content is `Absent`, `Partial` or the command (flags and version of the
sources) it was made for, so that "right content" can be said. A key is less than
a command: `compute_cache_key` (`driver/build.pengu:338-462`) leaves out the `-D` of
the command line, so `Hashed` maps flags to what is hashed of them. A build is the
steps of the driver: sema, `write_text` of `bundle.c` (truncate, then write), the
compiler that reads what is there by then, the linker that creates the artifact and
fills it, then `put`. Sema, code generation, the compiler and the linker can refuse
(`Faulty`, `Broken`, `CompileFails`). One step is one system call as the archivum
helpers of `pengu_runtime.h` make them: `copy_file` reads the whole file, then
truncates the target, then writes it; `move_file` with overwrite unlinks the target,
then renames. `Killed` may come between any two. `Collects` may delete any entry at
any time, which covers `psc gc` whatever its size limit and order, and
`--clear-cache`.

`PkgProject`: `manifest`, `lock` and `lib` are what is on disk, and all that is left
after `Killed`. A command is the list `todo` of the steps it has left, with what
`run_add` and its like keep in locals in `cmd` (`before`, `as`, `force`; `found` is the
`lib` the command began with, which also stands for the backup directory); a step
that fails replaces the list (`FailsWith`), for `add` by its rollback. A step of the
rollback can fail too and is then skipped, as in the code, which looks at no result
there (`RestoreFails`, `StashFails`, `UnstashFails`, `DeleteFails`); the result is
then "unrestored". `queue`, `graph` and `stage` are the resolver's queue, its result
and the staging directory. A file is unlinked and then renamed into place
(`Unlinks`, `Publish`; `WriteLock`, `Seal`), a directory is deleted bit by bit
(`Erodes`). A tree stands for all files of a package with its `.git`; the lock has its
commit and hash, and since `tree_hash` leaves out paths with `lib` or `build`
(`pkg/lock.pengu:50-63`), trees are compared by `Hash`. `Remains` says what deleting a
part of a tree can leave, `Builds` what its `build.pengu`, which runs in the package's
directory (`ScriptWrites`), can make of it. Constraint arithmetic is the constant
`Accepts`. `Fetched` may offer several trees for one spec, because a branch moves
between two installations.

## 3. Runs

Passing runs:

| Run | Asks | Bounds |
|---|---|---|
| `pool` | does the offload pool lose, duplicate or strand a completion, does it close, is it `OffloadService` | 3 jobs, 2 workers, 1 helper with 1 post |
| `loop_offload` | are the loop's tables and contexts sound, with programs of offload, await, sleep and close; does every await and sleep return | 4 tokens, 2 workers, clock to 1 |
| `loop_tasks` | can a task be orphaned, with programs of spawn, park, sleep (also of zero), requests and stop; what do sleeps do when the millisecond counter runs over | 4 tokens, 2 requests, 1 worker, 1 descriptor, clock to 3, an int of 3 bits that runs over during the run |
| `dispatcher` | is every request served once, with its record alive, and is that `RequestService` | 4 requests in calls of 1 or 2, failing engine and handles |
| `chan` | is a channel a queue, and can a caller sleep in vain or be left behind by close | capacities 0, 1, 2; 2 senders, 2 receivers, 4 sends |
| `filum_pool` | can a signal that reaches the wrong sleeper strand a job or a caller; does wait mean done; is it `OffloadService` | 3 workers, 2 callers, 3 jobs |
| `filum_threads` | is a record used after free or leaked, does a join, wait or Once return early, does each return | 2 threads, 2 actors |
| `cache` | is an entry ever broken or wrong, does the cache ever change an answer but among builds that share a key | 2 processes, 3 versions of the sources (one with an error), check, build, and a build with a `-D` of its own and code that the C compiler refuses |
| `pkg` | is the lock a command leaves consistent and accepted, is a failed `add` undone, does `update` repair | 3 names, 6 trees, 3 specs with a cycle of needs, two `build.pengu`, every failure, kills |

Why these bounds are enough for the cases at stake. Two workers are the least
with which one signal can go to the wrong thread, and three jobs keep one queued
while both are busy. In the filum pool a third worker allows a worker asleep,
one that runs and one on its way, and a second caller allows a signal to reach
somebody inside `pool_wait` while another submits. Four tokens give two tasks
with an offload or timer each. Four requests in calls of at most two give a
batch in flight, a call queued behind it and one more. Capacity 2 wraps the ring
with four messages, capacity 0 and 1 are the boundaries, and with two threads on
each side a third party can always come in between a signal and the thread it
woke. Two actors are the least that race for one handle (a join against a
detach or the two lookups of a poll), and the threads themselves race for the
Once. Two processes are the least that race for an entry, with a collector
between any two of their steps; two good versions tell an entry's key from the
sources, and the third has an error. Two of the three command lines share their
keys, and one of the two has a version that does not compile, so a hit of one on
the entry of the other happens. The packages are the smallest project
with a package that is adopted under another name, a dependency of it that the
user also adds at a version it does not accept, a cycle, a branch that moves, a
tag whose text differs from the declared version, a tree whose `pengu.toml`
survives a part of its deletion, a `build.pengu` that changes what is hashed and
one that does not. It has 5,261,234 states. An `int` of 3 bits and a clock that
starts at 2 make the millisecond counter run over in the second of the
three milliseconds of `loop_tasks`.

The bounds (`MaxToken`, `MaxPost`, `MaxTime`, `MaxReq`, `MaxBatch`, `MaxMsg`) limit
how many tokens, posts, clock ticks, requests and sends there are; they appear
as guards of the actions that hand these out and in no other place. The filum
modules, the cache and the packages have no such bound: a job or a thread is
started once and everything else is repeated freely. `CHECK_DEADLOCK FALSE` stands
in every cfg but those of the cache and the packages: a freed pool, a closed loop, a channel nobody uses and a
program whose threads have ended stop, and the bounds stop the rest.

Runs that find a disagreement between the code and what it says of itself:

| Run | What the code does |
|---|---|
| `dispatcher_close` | `stopping` is set and announced without the mutex; a dispatcher about to wait misses it and `close` never returns (`petitio.pengu:2629`) |
| `chan_closed` | a rendezvous sender takes the slot's state for that of its own value: at close, `send` returns false for a value that was received and true for one that was discarded (`pengu_runtime.c:1217`) |
| `cache_shared` | a debug and a release build of one project share the output path, and `put` copies from it: an entry can be a truncated file of the other build (`cache.pengu:123`) |

Disagreements seen in the models that no run repeats, each listed under
"hazards":

* on POSIX systems without epoll `wake_fd` is the read end of the pipe,
  so a completion never ends the loop's wait (theorem `PollNeverWakes`);
* offloads and petitio requests of one task take tokens from different counters,
  so one may be taken for the other (`reactor.pengu:462`);
* a loop that is stopped and closed with an offload in flight frees its context under the worker
  (`reactor.pengu:146`);
* the milliseconds since boot are kept in a 32-bit `int`: a deadline computed
  shortly before 24.8 days of uptime wraps and the sleep returns at once, although
  `reactor.pengu:296` says "at least"; one that is due shortly before and not
  looked at in time looks weeks away afterwards (`reactor.pengu:309`);
* the cache key leaves out the `-D` of the command line, although
  `docs/BUILD_CACHE.md:29-30` lists the defines among its parts: two builds that differ in one
  get each other's artifacts, and one whose code does not compile succeeds
  (`driver/build.pengu:338`);
* two builds of one project share `build/bundle.c` whatever their outputs: the
  compiler of one can read the code of the other, or half of it
  (`driver/build.pengu:1404`);
* a hit truncates the output path and copies into it, although
  `docs/BUILD_CACHE.md:46-47` calls that atomic (`cache/cache.pengu:123`);
* after an `add` with a tag like `v1.2.0`, or with a `build.pengu` that writes outside
  `lib/` and `build/`, `build --locked` refuses the project until a build has written
  the lock again (`driver/build.pengu:1003`);
* `build --locked` accepts any `pengu.lock` when the manifest has no dependencies,
  although `docs/psc/CLI.md:85-87` says that it fails when the lock does not
  agree (`driver/build.pengu:955`; hazard at `pkg/resolve.pengu:88`);
* an `add` that fails in its second sync, after it has adopted the import name,
  leaves `lib/<import>` behind, whole or half replaced, although
  `docs/psc/CLI.md:78-79` and the comment at `deps.pengu:295-296` say otherwise; and it
  looks at no result of its rollback (`cmd/deps.pengu:294`);
* a command killed while it deletes or replaces a package can leave a part of it
  that a build accepts and locks (`pkg/install.pengu:71`), and one killed between
  unlink and rename leaves the project without `pengu.toml` or `pengu.lock`
  (`pkg/lock.pengu:198`).

What the properties mean is said above each of them in its module. Some are
conditional on these findings: `BusyCloseReturns` claims that the dispatcher's
shutdown ends when it begins while a batch is being served (the broadcast is
not needed then), and `SendTold` claims what `send` reports for buffered
channels, and for a rendezvous as long as it is open. `ContextAlive` is checked
in `loop_offload`, whose programs do not call `stop`: without it the loop closes
only when nothing is in flight. `WokenForItsReason` says of a sleep that it
lasts its duration unless the millisecond counter runs over during it. `EntrySound`
and `AnswersRight` are claimed of
processes with distinct output paths that need `bundle.c` one at a time, sources
that do not change while a command runs, and a disk with room. Each of the four is
a constant of `BuildCache` (`Output`, `BundlesOverlap`, `EditsDuringBuilds`, `DiskFills`),
and with any of them the other way TLC finds one of the two violated. `AnswersRight`
speaks of an artifact of the sources with flags that hash like the build's own;
that it is the build's own (`AnswersOwn`) TLC refutes in the configuration of
`cache`, where two command lines share a key. `LockSound` excepts `build --locked` without
dependencies, and a package may differ from its lock by what its `build.pengu`
wrote since; `LockAccepted` has as conditions that the lock has the versions the
packages declare and that scripts leave the hashes alone; `AddRollsBack` speaks of
an `add` whose rollback does not fail too, and of directories other than the
package's own only before an import name is adopted; `Repaired` counts what a
`build.pengu` makes of a delivered tree as that tree. Without any of these the
properties are violated, by the code behaviour listed above. `IdleWorkersCome` is claimed while nobody is
inside `pool_wait`: a caller there can take the signal, a worker then sleeps over
a queued job, and what remains is `NobodySleepsInVain`: some worker is awake.

### Fairness

Weak fairness of each thread's own steps: the operating system schedules every
thread and a mutex is obtained in the end; a job's function, a thread's function
and the function of a Once return; a transfer ends (libcurl has time limits). In
`Reactor` the clock also advances, and in `FilumProgram` an actor that raised the
counter for a thread starts it. Nothing is assumed that the code cannot count
on: no program has to offload, send, submit, join, close or free anything,
wake-ups without cause are never fair, and a descriptor never has to become
readable. That a parked task is resumed once its descriptor is readable is not
claimed: `run` polls descriptors only in a pass that has nothing to resume
(`reactor.pengu:507`). That a sleep returns is claimed in `loop_offload`, where the counter does
not run over; when it does, a sleep may last for weeks and still returns. Nothing of
the build cache is claimed to happen in the
end, since any process may be killed.

## 4. Proofs

TLAPS checks every theorem for all values of the constants: any number of
threads, jobs, requests, messages and processes, any capacities.

**`ReactorPool_proofs`.** `TypeOK` is inductive. `Phases` describes the pool's
life: nothing is queued and no worker exists before the pool is started,
`closing` holds exactly while the owner is in the destructor, and a worker has
exited only from an empty queue that nothing is appended to any more. It is what
makes the destructor's step a step of `OffloadService`. `ExactlyOnce` is inductive
with `TypeOK`; each action moves a completion from one place to the next, and
lemmas on queues say what append and pop do to the range of an
injective sequence. `NoLostWakeup` is not inductive: the strengthening
`WakeOwed` says that from the last empty `take` to the end of the wait a nonempty
completion list has a written descriptor or a thread about to write it. It is proved for the epoll
backend; of the other one `PollNeverWakes` says that the descriptor never becomes
readable at all. `WorkConserving` counts the workers on
their way to the lock; it is inductive because an offload adds one job and, if
somebody sleeps, one such worker. `ServiceImplemented` maps every step to a step
of `OffloadService` or to a stutter.

**`Reactor_proofs`.** Every step of the loop is a step of the pool or leaves it
alone (`StepUsesPool`, by construction), so what is proved of the pool holds under
any loop program: `PoolInLoop` has its safety properties, `ServiceInLoop` the refinement
of `OffloadService`. About the loop
itself the argument is a chain of invariants, each inductive relative to the ones
before it. The thirty actions are brought to a few kinds by what they do to the
tasks (`StepKinds`), and an invariant has one case per kind.

1. `Base`: types, the shape of each task (what its state says of the call it is
   in), the snapshot, the registrations, and that a token not yet handed out
   names no task. It contains `SnapshotSound`, `RegisteredIffParked` and most of
   `TypeOK`, none of which is inductive alone: a task is queued once because
   harvesting and the timers match only a nonzero `waiting`, and waking clears it.
2. `Numbered`, `PostsNumbered`: tokens of timers and offloads are below
   `next_token` and never shared, and requests are below their own counter. Each
   entry of the jobs table is of a job that was submitted.
3. `AllPaired`: what each task waits for agrees with its timer (`TimerPaired`), its
   entries in the jobs table and their `done` flags (`EntriesPaired`), its open
   requests and the numbers already posted (`BatchPaired`), and a ready task is
   ready for what has happened (`ReasonPaired`). `WokenForItsReason` follows, for
   every width of the counter and every uptime: a deadline stands for the time it
   was computed for as long as the counter has not run over since.
4. `Queued`: a ready task is in the snapshot, or the loop was stopped. With
   `AllPaired` this is `NoOrphanTask`.
5. `Boxes` and `HeldWhileRun`: the context of a job is there until the job was
   taken, and a worker holds a job only while it executes it: `ContextAlive`.

From step 3 on the theorems have a hypothesis on the run, because the code alone
does not give it. `Apart`: no task has an offload in the jobs table and an open
petitio request of the same number. The two come from different counters, completions carry only the
number, and with both in use TLC finds runs where one is taken for the other.
`ContextAlive` also needs `Drained`: `close` finds no offload in flight. After a
`stop` it may, and then frees contexts under the workers. Both are listed as
hazards. `ApartByUse`, `ApartByOrder` and `DrainedByUse` show of which programs the hypotheses
hold: those that use only one of the two services, those whose tasks await their
offloads before they call petitio (`AwaitsFirst`; the invariant is `NoneOpen`: a
task inside a petitio call has no entry in the jobs table), and those that never call
`stop`. The `...ByUse` theorems after them state the three properties of such
programs with no hypothesis but the operations used. `DrainedByUse` has an
invariant of its own: entries of the jobs table belong to live tasks (`Owned`), so
`run` comes back to `main` with an empty table.

**`PetitioDispatcher_proofs`.** The inductive invariant is
`TypeOK /\ Flow /\ RequestsOnce /\ CallsWhole`: `Flow` ties the dispatcher's pc
to its mutex, queue, batch and results, `CallsWhole` says that of each call in
flight all requests are queued or none is. From it follow
`JobsAlive`, `ResultBeforePost`, `NoSleepOverJobs`, that the requests of one call
are taken into one batch (`CallInOneBatchCorrect`) and that the queue is drained
when the destructor returns (`DrainedWhenFreedCorrect`), whatever fails. `ServiceImplemented` is the refinement of
`RequestService`, under the condition that the thread was started (if it was
not, the destructor returns with requests open: a hazard that is listed).

**`FilumChan_proofs`.** The inductive invariant is `TypeOK /\ RInv`: the tail is
`size` places behind the head, the occupied places hold messages, and a thread
inside `send` carries a message. Lemmas on the ring (distinct places modulo the
stride) give that writing at the tail appends to the abstract queue and moving
the head takes its first value, which yields `ChannelImplemented` for every
capacity. `NobodySleepsInVain` and `ActiveCounted` are counting arguments: one
lemma says how the number of threads at a place changes when one thread moves,
and every action is brought to it. `SendTold` needs the invariant `Told`:
messages of calls in flight are numbered apart and are new (`Numbered`), on a
buffered channel a call in flight has not put its message yet (`BufferedTold`),
and on an open rendezvous channel an offered message is in the slot or taken
(`OfferTold`). `EndIsFinal` follows from it and from `EndReached`, which says
that an end is reported of a closed and empty channel and that such a channel
stays so.

**`FilumPool_proofs`.** Over `TypeOK`, `Phases` says that somebody has begun
`pool_free` exactly when `shutdown` holds, and that a worker has exited only from
an empty queue. `Accounts` says what happened to every job (queued, held, or
finished, and in one of these only) and that `active` is the number of workers
with a job. Together with `NobodySleepsInVain` it is inductive: the signal of a
submit may reach a caller, but then a worker was awake already or the caller is,
finds the pool busy and sleeps again, and the worker that leaves the pool idle
wakes everybody. `WaitMeansDone` is the accounting at an empty queue and
`active = 0`. `IdleWorkersCome` is a counting argument like `WorkConserving`.

**`FilumProgram_proofs`.** `ThreadInvariant` is `ThreadTypeOK /\ Shape /\ Counted
/\ PollHonest`: `Shape` relates where a thread is to whether its id is known,
`Counted` says that `refs` is the number of places that own a reference (the
table, the thread, calls in flight), with the exception of `start`, which reads
the record without one but before its id is known, so nobody else can have
consumed it. A lemma says that each step changes that number by what it does to
`refs`; `RecordLifetime` follows, since the record is freed when the last one
goes. `OnceShape` (`running` exactly while one user is between call and settle,
`done` only after `fn` returned) gives `InitializedOnce`; `GroupShape` (the counter
is the number of threads counted and not done) gives the second half of
`NoEarlyReturn`, and the first is `JoinLeavesBySeeing`.

**`BuildCache_proofs`.** The inductive invariant is `EntrySound` with `AllSound`,
which says for each process what its command, buffer, temporary file and output path
hold at each of its steps, and what `bundle.c` holds while the process needs it. The
theorems have four hypotheses (`Undisturbed`): distinct output paths
(`OutputsDistinct`), builds that need `bundle.c` one at a time, no edits during
builds, and a disk with room. A fifth, `KeysTell` (flags that hash alike are the same),
gives `AnswersOwn`: what the cache would answer if `-D` were hashed. `EntryWhole`, the
sentence of docs/BUILD_CACHE.md, has no theorem: it is a part of `EntrySound` and
needs hypotheses that the sentence does not have.

**`PkgProject_proofs`.** A command is always at one of a few lists of steps, which
`Plan` gives for each kind (on course, or rolling back); `TypeOK /\ Plan` is
inductive and tells the other invariants what can come next. `Rollback` says what
a failed `add` still has to put back at each of its steps, and what it has kept
for that while it runs; `Newcomers`, that a directory that the add did not find is
whole, but for the package's own while a failed add undoes it, and is one the
resolver has been at, so that it is not replaced once more.
At the end of the list they are `AddRollsBack`.
`LockSound` rests on `Resolving`, an invariant of the queue while directories are
replaced: a resolved package is in `lib` as resolved, up to what its script writes (`Fits`,
and to the letter until the scripts run, `Fresh`); whatever the
manifest and the resolved packages ask for is in the queue or resolved at a
version that will do (`Pending`); and any set that contains what they ask for
contains what is resolved and queued (`Reached`). With an empty queue the second
makes the lock closed and the third makes it the least closed set. `Sealed`
carries that to `settled` and to the end of `build --locked`, which has compared the
hashes too (`Exact`). `LockAccepted` has
the invariant `Accepting`: a resolution of a settled project visits only packages
of the lock, finds each installed and suitable, and ends with a graph of the versions and hashes
of the lock, since the scripts leave the hashes alone.
`Repaired` has one invariant per kind of command: an update replaces
each package before it resolves it (`UpdateDelivers`); the first round of an add
has put the old directory aside, so the new package, first in `pengu.toml`, is
fetched (`AddDelivers`); the second round may keep the renamed directory, or
replace it because another package asks for the name (`AdoptDelivers`). That last
case is why `Repaired` speaks of the added package only if the lock has it under
the source the user gave.

Assumptions: only those named in the modules (`PoolAssumption`, `ReactorAssumption`,
`DispatcherAssumption`, `ChanAssumption`, `FilumPoolAssumption`,
`FilumThreadAssumption`, `ProgramAssumption`, `BuildCacheAssumption`,
`FileAssumption`, `PkgAssumption`, `BuildAssumption`, which says that a `build.pengu` and
the hash leave alone what `pengu.toml` declares, and `NoneAssumption`, which says that `None` is
no list, graph or record), which TLC evaluates on every run, and the hypotheses
named above.

Model-checked only: the liveness properties (`CallsReturn`, `CloseTerminates`,
`EveryRequestPosted`, `BusyCloseReturns`, `CloseReleases`). They need fairness and
ENABLED, which the provers do not handle. Every safety property that a passing run
checks is stated by a theorem, three of them under the hypotheses above.

## 5. What is not modelled

* The Windows half of each runtime file. It has the same structure with other
  primitives (`WakeConditionVariable`, events).
* Failing `malloc`, and `pthread_create` failing half-way through `pool_start`.
  The dispatcher's two unhandled failures (thread not created, `multi_add`
  refusing) are in the model as members of `Failures` and in the safety proofs,
  but in no liveness run: they do hang, and no text promises otherwise.
* `chan_free` reads `active` without the mutex. The model reads a value between
  two critical sections; a caller between its last decrement and its unlock is
  not distinguished. The typed wrappers of `std/filum.pengu` add a loop thread's
  view of the handle only.
* Payloads, HTTP contents, cookies and sessions, job results: a job or message
  is its identity.
* `filum` mutexes, read-write locks, conditions and thread-local storage are one
  call of the operating system each. `parallel_for` and `go` start threads and
  join or forget them; freeing a WaitGroup or a Once is the caller's affair. A
  failing `pthread_create` in `thread_start` or `pool_new` leaves nothing behind
  and is not a step.
* The contract that a job does not wait for its own pool, and that nobody calls
  a pool that is being freed, is taken from the code's own use.
* The fast path of `psc run` and the cached objects of project units go through
  the same `get`, copy and `put` as an artifact; `chmod` inside `copy_file` changes
  no content. A temporary file that a killed process left is never read.
* Of the packages: `psc vendor` and `--frozen`; the arithmetic of semver, a constant
  of the model; two commands in one project at a time, which nothing in the code
  excludes or orders; manifests with a section `[dependencies.x]` per package; and
  a `build.pengu` that writes outside its own package or in its `pengu.toml`.
* Of builds: `--split`, which has several files in place of `bundle.c` with the same
  steps, and objects and libraries, which the compiler or the archiver writes in the
  linker's place.
* Coroutine slots, watch mode, language server: see the plan. The compiler's front
  and back end are functions on trees and out of a model checker's reach.

## 6. Plan

Done, in this order: `OffloadService`, `ReactorPool` with its proofs; `Reactor`
over it; `RequestService`, `PetitioDispatcher` with its proofs and both sides of
the contract, and the proofs of `Reactor`; `Channel`, `FilumChan` with its proofs; `FilumPool`, `FilumThread`,
`FilumSync`, `FilumProgram`, `BuildCache` and `PkgProject`, each with its proofs.

Next, proving more: which hypotheses can be given up, as the channels' and the thread
table's invariants for programs that close or free while others are inside.

Candidates for more models, of less weight than what is there because nothing
in them runs concurrently: `CoroArena` (`pengu_coro.c`: slots and generations, a
stale handle never resumes another coroutine), `Semver` (constraint matching as
operators against a reference definition), `LspServer` and `Watch` (the document
table follows the notifications).
