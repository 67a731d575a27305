--------------------------- MODULE FilumPool_proofs ---------------------------
(***************************************************************************)
(* Proofs about the pool of filum (module FilumPool), for any jobs, any    *)
(* finite set of workers and any callers.  Each invariant is proved from   *)
(* the ones before it:                                                     *)
(*   TypeOK, Phases, Accounts (what happened to every job, and `active` is *)
(*   the number of workers with a job), NobodySleepsInVain,                *)
(*   IdleWorkersCome, WaitMeansDone and the refinement of OffloadService.  *)
(***************************************************************************)
EXTENDS FilumPool, FiniteSetTheorems, TLAPS

USE FilumPoolAssumption DEF Threads

-----------------------------------------------------------------------------
(* Queues.                                                                 *)

\* The elements of the empty queue.
LEMMA EmptyQueue ==
  Range(<<>>) = {} /\ IsInjective(<<>>)
  BY DEF Range, IsInjective

\* Appending adds the element, and keeps elements distinct if it is new.
LEMMA AppendToQueue ==
  ASSUME NEW S, NEW q \in Seq(S), NEW x \in S
  PROVE  /\ Append(q, x) \in Seq(S)
         /\ Len(Append(q, x)) = Len(q) + 1
         /\ Append(q, x) # <<>>
         /\ Range(Append(q, x)) = Range(q) \cup {x}
         /\ IsInjective(q) /\ x \notin Range(q) => IsInjective(Append(q, x))
<1>1. /\ Append(q, x) \in Seq(S) /\ Len(Append(q, x)) = Len(q) + 1
      /\ Append(q, x) # <<>> /\ Len(q) \in Nat
      /\ DOMAIN q = 1..Len(q) /\ DOMAIN Append(q, x) = 1..(Len(q) + 1)
      /\ \A i \in DOMAIN q : Append(q, x)[i] = q[i]
      /\ Append(q, x)[Len(q) + 1] = x
  OBVIOUS
<1>2. Range(q) \cup {x} \subseteq Range(Append(q, x))
  BY <1>1 DEF Range
<1>3. Range(Append(q, x)) \subseteq Range(q) \cup {x}
  BY <1>1 DEF Range
<1>. QED BY <1>1, <1>2, <1>3 DEF Range, IsInjective

\* Popping removes the head, and nothing else if elements are distinct.
LEMMA PopFromQueue ==
  ASSUME NEW S, NEW q \in Seq(S), q # <<>>
  PROVE  /\ Head(q) \in S
         /\ Tail(q) \in Seq(S)
         /\ Len(Tail(q)) = Len(q) - 1
         /\ Range(q) = {Head(q)} \cup Range(Tail(q))
         /\ IsInjective(q) => /\ IsInjective(Tail(q))
                              /\ Head(q) \notin Range(Tail(q))
<1>1. /\ Head(q) = q[1] /\ q[1] \in S /\ Len(q) \in Nat \ {0}
      /\ Tail(q) \in Seq(S) /\ Len(Tail(q)) = Len(q) - 1
      /\ \A i \in 1..Len(Tail(q)) : Tail(q)[i] = q[i + 1]
  OBVIOUS
<1>2. DOMAIN q = 1..Len(q) /\ DOMAIN Tail(q) = 1..(Len(q) - 1)
  BY <1>1
<1>3. Range(q) = {Head(q)} \cup Range(Tail(q))
  <2>1. ASSUME NEW i \in DOMAIN q, i # 1
        PROVE  q[i] \in Range(Tail(q))
    <3>1. i - 1 \in DOMAIN Tail(q) /\ Tail(q)[i - 1] = q[i]
      BY <1>1, <1>2, <2>1
    <3>. QED BY <3>1 DEF Range
  <2>2. ASSUME NEW x \in Range(q)
        PROVE  x \in {Head(q)} \cup Range(Tail(q))
    <3>1. PICK i \in DOMAIN q : x = q[i]
      BY DEF Range
    <3>. QED BY <1>1, <2>1, <3>1
  <2>3. Head(q) \in Range(q)
    BY <1>1, <1>2 DEF Range
  <2>4. Range(Tail(q)) \subseteq Range(q)
    BY <1>1, <1>2 DEF Range
  <2>. QED BY <2>2, <2>3, <2>4
<1>4. ASSUME IsInjective(q)
      PROVE  IsInjective(Tail(q)) /\ Head(q) \notin Range(Tail(q))
  BY <1>1, <1>2, <1>4 DEF IsInjective, Range
<1>. QED BY <1>1, <1>3, <1>4

-----------------------------------------------------------------------------
(* Type correctness.                                                       *)

\* A signal or a broadcast takes threads from "waiting" to "lock", and
\* touches no other thread.
LEMMA SignalFacts ==
  ASSUME TypeOK, Signal
  PROVE  /\ pc' \in [Threads -> {"test", "lock", "waiting", "run", "settle",
                                 "exited", "out", "joining", "freed"}]
         /\ \A t \in Threads :
              pc'[t] = pc[t] \/ (pc[t] = "waiting" /\ pc'[t] = "lock")
  BY DEF TypeOK, Signal, Sleeping

LEMMA AwokenFacts ==
  ASSUME TypeOK
  PROVE  /\ Awoken \in [Threads -> {"test", "lock", "run", "settle",
                                    "exited", "out", "joining", "freed"}]
         /\ \A t \in Threads :
              Awoken[t] = IF pc[t] = "waiting" THEN "lock" ELSE pc[t]
  BY DEF TypeOK, Awoken

\* What submit does to the queue and to the history.
LEMMA SubmitFacts ==
  ASSUME TypeOK, NEW t \in Threads, NEW j \in Jobs, Submit(t, j)
  PROVE  /\ queue' \in Seq(Jobs) /\ queue' # <<>>
         /\ Len(queue') = Len(queue) + 1
         /\ Range(queue') = Range(queue) \cup {j}
         /\ IsInjective(queue) /\ j \notin Range(queue) => IsInjective(queue')
         /\ job' = job
         /\ pc' \in [Threads -> {"test", "lock", "waiting", "run", "settle",
                                 "exited", "out", "joining", "freed"}]
         /\ \A u \in Threads :
              pc'[u] = pc[u] \/ (pc[u] = "waiting" /\ pc'[u] = "lock")
  BY SignalFacts, AppendToQueue DEF Submit, TypeOK

(* The fields of struct PenguPool and the places of the threads stay in    *)
(* their ranges; a worker that executes has a job.                         *)
THEOREM TypeCorrect == Spec => []TypeOK
<1>1. Init => TypeOK
  <2> SUFFICES ASSUME Init
               PROVE  TypeOK
    OBVIOUS
  <2>0. <<>> \in Seq(Jobs)
    OBVIOUS
  <2>1. queue \in Seq(Jobs) /\ active \in Int
    BY <2>0 DEF Init
  <2>4. shutdown \in BOOLEAN
    BY DEF Init
  <2>2. /\ pc \in [Threads -> {"test", "out"}]
        /\ job \in [Workers -> {None}]
        /\ \A w \in Workers : pc[w] = "test"
        /\ \A c \in Callers : pc[c] = "out"
    BY DEF Init
  <2>3. submitted \subseteq Jobs /\ finished \subseteq Jobs
    BY DEF Init
  <2>. QED BY <2>1, <2>2, <2>3, <2>4 DEF TypeOK
<1>2. TypeOK /\ [Next]_vars => TypeOK'
  <2> SUFFICES ASSUME TypeOK, [Next]_vars
               PROVE  TypeOK'
    OBVIOUS
  <2>1. ASSUME NEW t \in Threads, NEW j \in Jobs, Submit(t, j)
        PROVE  TypeOK'
    <3>1. UNCHANGED <<active, shutdown, job, finished>>
          /\ submitted' = submitted \cup {j}
      BY <2>1 DEF Submit
    <3>. QED BY <2>1, <3>1, SubmitFacts DEF TypeOK
  <2>2. ASSUME NEW c \in Callers,
               WaitCalled(c) \/ WaitSleeps(c) \/ WaitReturns(c)
        PROVE  TypeOK'
    BY <2>2 DEF WaitCalled, WaitSleeps, WaitReturns, TypeOK
  <2>3. ASSUME NEW c \in Callers, FreeBegins(c)
        PROVE  TypeOK'
    BY <2>3, AwokenFacts DEF FreeBegins, TypeOK
  <2>4. ASSUME NEW c \in Callers, FreeReturns(c)
        PROVE  TypeOK'
    <3>1. queue' \in Seq(Jobs)
      BY <2>4 DEF FreeReturns
    <3>. QED BY <2>4, <3>1 DEF FreeReturns, TypeOK
  <2>5. ASSUME NEW w \in Workers, Tests(w) \/ Sleeps(w) \/ GivesUp(w)
        PROVE  TypeOK'
    BY <2>5 DEF Tests, Sleeps, GivesUp, TypeOK
  <2>6. ASSUME NEW w \in Workers, Pops(w)
        PROVE  TypeOK'
    BY <2>6, PopFromQueue DEF Pops, TypeOK
  <2>7. ASSUME NEW w \in Workers, Returns(w)
        PROVE  TypeOK'
    BY <2>7 DEF Returns, TypeOK
  <2>8. ASSUME NEW w \in Workers, Settles(w)
        PROVE  TypeOK'
    <3>1. CASE active' = 0 /\ queue = <<>>
      BY <2>8, <3>1, AwokenFacts DEF Settles, TypeOK
    <3>2. CASE ~(active' = 0 /\ queue = <<>>)
      BY <2>8, <3>2 DEF Settles, TypeOK
    <3>. QED BY <3>1, <3>2
  <2>9. ASSUME NEW t \in Threads, SpuriousWakeup(t)
        PROVE  TypeOK'
    BY <2>9 DEF SpuriousWakeup, TypeOK
  <2>10. CASE UNCHANGED vars
    BY <2>10 DEF vars, TypeOK
  <2>. QED
    BY <2>1, <2>2, <2>3, <2>4, <2>5, <2>6, <2>7, <2>8, <2>9, <2>10
       DEF Next, WorkerStep
<1>. QED BY <1>1, <1>2, PTL DEF Spec

-----------------------------------------------------------------------------
(* The phases of the pool's life: workers exit and pool_free runs only     *)
(* after the shutdown, when no caller is inside pool_wait any more.        *)
Phases ==
  /\ \A w \in Workers : pc[w] = "exited" => shutdown
  /\ \A c \in Callers : pc[c] \in {"lock", "waiting"} => ~shutdown
  /\ \A c \in Callers : pc[c] \in {"joining", "freed"} => shutdown
  /\ Freed => \A w \in Workers : pc[w] = "exited"

LEMMA PhasesInductive == Phases /\ TypeOK /\ [Next]_vars => Phases'
<1> SUFFICES ASSUME Phases, TypeOK, [Next]_vars
             PROVE  Phases'
  OBVIOUS
<1> USE DEF Phases, Freed
<1>1. ASSUME NEW t \in Threads, NEW j \in Jobs, Submit(t, j)
      PROVE  Phases'
  BY <1>1, SubmitFacts DEF Submit
<1>2. ASSUME NEW c \in Callers,
             WaitCalled(c) \/ WaitSleeps(c) \/ WaitReturns(c)
      PROVE  Phases'
  BY <1>2 DEF WaitCalled, WaitSleeps, WaitReturns, TypeOK
<1>3. ASSUME NEW c \in Callers, FreeBegins(c)
      PROVE  Phases'
  BY <1>3, AwokenFacts DEF FreeBegins, TypeOK
<1>4. ASSUME NEW c \in Callers, FreeReturns(c)
      PROVE  Phases'
  BY <1>4 DEF FreeReturns, TypeOK
<1>5. ASSUME NEW w \in Workers,
             \/ Tests(w) \/ Sleeps(w) \/ GivesUp(w) \/ Pops(w) \/ Returns(w)
      PROVE  Phases'
  BY <1>5 DEF Tests, Sleeps, GivesUp, Pops, Returns, MustStop, TypeOK
<1>6. ASSUME NEW w \in Workers, Settles(w)
      PROVE  Phases'
  <2>1. /\ shutdown' = shutdown /\ pc[w] = "settle" /\ pc'[w] = "test"
        /\ \A t \in Threads \ {w} :
             pc'[t] = pc[t] \/ (pc[t] = "waiting" /\ pc'[t] = "lock")
    BY <1>6, AwokenFacts DEF Settles, TypeOK
  <2>. QED BY <2>1
<1>7. ASSUME NEW t \in Threads, SpuriousWakeup(t)
      PROVE  Phases'
  BY <1>7 DEF SpuriousWakeup, TypeOK
<1>8. CASE UNCHANGED vars
  BY <1>8 DEF vars
<1>. QED
  BY <1>1, <1>2, <1>3, <1>4, <1>5, <1>6, <1>7, <1>8 DEF Next, WorkerStep

THEOREM PhasesCorrect == Spec => []Phases
<1>1. Init => Phases
  BY DEF Init, Phases, Freed
<1>. QED BY <1>1, PhasesInductive, TypeCorrect, PTL DEF Spec

-----------------------------------------------------------------------------
(* What happened to every job.                                             *)

Engaged == {w \in Workers : pc[w] \in {"run", "settle"}}

Accounts ==
  /\ active = Cardinality(Engaged)
  /\ submitted = Range(queue) \cup Held \cup finished
  /\ IsInjective(queue)
  /\ Range(queue) \cap Held = {}
  /\ (Range(queue) \cup Held) \cap finished = {}
  /\ \A u, v \in Workers :
       pc[u] = "run" /\ pc[v] = "run" /\ job[u] = job[v] => u = v

LEMMA EngagedFinite ==
  /\ IsFiniteSet(Engaged) /\ Cardinality(Engaged) \in Nat
  /\ IsFiniteSet(Engaged') /\ Cardinality(Engaged') \in Nat
<1>1. IsFiniteSet(Engaged) /\ IsFiniteSet(Engaged')
  BY FS_Subset DEF Engaged
<1>. QED BY <1>1, FS_CardinalityType

\* A step that leaves the jobs alone, and moves workers only between places
\* in which they have none, changes nothing here.
LEMMA AccountsKept ==
  ASSUME Accounts, UNCHANGED <<queue, active, job, submitted, finished>>,
         \A w \in Workers : \/ pc'[w] = pc[w]
                            \/ /\ pc[w] \notin {"run", "settle"}
                               /\ pc'[w] \notin {"run", "settle"}
  PROVE  Accounts'
<1>1. Engaged' = Engaged
  BY DEF Engaged
<1>2. Held' = Held
  BY DEF Held
<1>3. \A w \in Workers : pc'[w] = "run" <=> pc[w] = "run"
  OBVIOUS
<1>. HIDE DEF Engaged, Held
<1>. QED BY <1>1, <1>2, <1>3 DEF Accounts

LEMMA AccountsInductive ==
  Accounts /\ NobodySleepsInVain /\ TypeOK /\ TypeOK' /\ [Next]_vars => Accounts'
<1> SUFFICES ASSUME Accounts, NobodySleepsInVain, TypeOK, TypeOK', [Next]_vars
             PROVE  Accounts'
  OBVIOUS
<1>1. ASSUME NEW t \in Threads, NEW j \in Jobs, Submit(t, j)
      PROVE  Accounts'
  <2>1. j \notin submitted /\ submitted' = submitted \cup {j}
        /\ active' = active /\ finished' = finished /\ job' = job
    BY <1>1 DEF Submit
  <2>2. Range(queue') = Range(queue) \cup {j} /\ IsInjective(queue')
    BY <1>1, <2>1, SubmitFacts DEF Accounts
  <2>3. \A w \in Workers : /\ pc'[w] = "run" <=> pc[w] = "run"
                           /\ pc'[w] = "settle" <=> pc[w] = "settle"
    BY <1>1, SubmitFacts
  <2>4. Held' = Held /\ Engaged' = Engaged
    BY <2>1, <2>3 DEF Held, Engaged
  <2>. QED BY <2>1, <2>2, <2>3, <2>4 DEF Accounts
<1>2. ASSUME NEW c \in Callers,
             WaitCalled(c) \/ WaitSleeps(c) \/ WaitReturns(c)
      PROVE  Accounts'
  BY <1>2, AccountsKept DEF WaitCalled, WaitSleeps, WaitReturns, TypeOK
<1>3. ASSUME NEW c \in Callers, FreeBegins(c)
      PROVE  Accounts'
  BY <1>3, AccountsKept, AwokenFacts DEF FreeBegins, TypeOK
<1>4. ASSUME NEW w \in Workers, Tests(w) \/ Sleeps(w) \/ GivesUp(w)
      PROVE  Accounts'
  BY <1>4, AccountsKept DEF Tests, Sleeps, GivesUp, TypeOK
<1>5. ASSUME NEW w \in Workers, Pops(w)
      PROVE  Accounts'
  <2>1. /\ Range(queue) = {Head(queue)} \cup Range(queue')
        /\ Head(queue) \in Jobs
        /\ IsInjective(queue') /\ Head(queue) \notin Range(queue')
    BY <1>5, PopFromQueue DEF Pops, TypeOK, Accounts
  <2>2. /\ pc[w] = "lock" /\ pc'[w] = "run" /\ job'[w] = Head(queue)
        /\ \A v \in Workers \ {w} : pc'[v] = pc[v] /\ job'[v] = job[v]
    BY <1>5 DEF Pops, TypeOK
  <2>3. Held' = Held \cup {Head(queue)} /\ Head(queue) \notin Held
    BY <2>1, <2>2 DEF Held, Accounts
  <2>4. Engaged' = Engaged \cup {w} /\ w \notin Engaged
    BY <2>2 DEF Engaged
  <2>5. active' = Cardinality(Engaged')
    BY <1>5, <2>4, EngagedFinite, FS_AddElement DEF Pops, Accounts
  <2>6. \A u, v \in Workers :
          pc'[u] = "run" /\ pc'[v] = "run" /\ job'[u] = job'[v] => u = v
    BY <2>2, <2>3 DEF Accounts, Held
  <2>7. submitted' = submitted /\ finished' = finished
    BY <1>5 DEF Pops
  <2>. QED BY <2>1, <2>3, <2>5, <2>6, <2>7 DEF Accounts
<1>6. ASSUME NEW w \in Workers, Returns(w)
      PROVE  Accounts'
  <2>1. /\ pc[w] = "run" /\ pc'[w] = "settle" /\ job[w] \in Held
        /\ \A v \in Workers \ {w} : pc'[v] = pc[v] /\ job'[v] = job[v]
    BY <1>6 DEF Returns, TypeOK, Held
  <2>2. Held' = Held \ {job[w]}
    BY <2>1 DEF Held, Accounts
  <2>3. Engaged' = Engaged
    BY <2>1 DEF Engaged
  <2>4. \A u, v \in Workers :
          pc'[u] = "run" /\ pc'[v] = "run" /\ job'[u] = job'[v] => u = v
    BY <2>1 DEF Accounts
  <2>5. /\ UNCHANGED <<queue, active, submitted>>
        /\ finished' = finished \cup {job[w]}
    BY <1>6 DEF Returns
  <2>. QED BY <2>1, <2>2, <2>3, <2>4, <2>5 DEF Accounts
<1>7. ASSUME NEW w \in Workers, Settles(w)
      PROVE  Accounts'
  <2>1. /\ pc[w] = "settle" /\ pc'[w] = "test"
        /\ \A v \in Workers \ {w} :
             pc'[v] = pc[v] \/ (pc[v] = "waiting" /\ pc'[v] = "lock")
    BY <1>7, AwokenFacts DEF Settles, TypeOK
  <2>2. Engaged' = Engaged \ {w} /\ w \in Engaged
    BY <2>1 DEF Engaged
  <2>3. active' = Cardinality(Engaged')
    BY <1>7, <2>2, EngagedFinite, FS_RemoveElement DEF Settles, Accounts
  <2>4. UNCHANGED <<queue, job, submitted, finished>>
    BY <1>7 DEF Settles
  <2>5. \A v \in Workers : pc'[v] = "run" <=> pc[v] = "run"
    BY <2>1
  <2>6. Held' = Held
    BY <2>4, <2>5 DEF Held
  <2>. QED BY <2>3, <2>4, <2>5, <2>6 DEF Accounts
<1>8. ASSUME NEW t \in Threads, SpuriousWakeup(t)
      PROVE  Accounts'
  BY <1>8, AccountsKept DEF SpuriousWakeup, TypeOK
<1>9. CASE UNCHANGED vars
  BY <1>9, AccountsKept DEF vars
<1>10. ASSUME NEW c \in Callers, FreeReturns(c)
       PROVE  Accounts'
  <2>1. queue = <<>> /\ queue' = <<>>
    BY <1>10 DEF FreeReturns, NobodySleepsInVain
  <2>. QED BY <1>10, <2>1, AccountsKept DEF FreeReturns, TypeOK
<1>. QED
  BY <1>1, <1>2, <1>3, <1>4, <1>5, <1>6, <1>7, <1>8, <1>9, <1>10
     DEF Next, WorkerStep

-----------------------------------------------------------------------------
(* The one condition variable loses nobody.                                *)

\* A signal that finds every worker asleep goes to a worker: no caller can be
\* waiting for an idle pool.
LEMMA SignalReachesWorker ==
  ASSUME TypeOK, Accounts, NobodySleepsInVain, Signal,
         \A w \in Workers : pc[w] = "waiting"
  PROVE  \E w \in Workers : pc'[w] = "lock"
<1>1. queue = <<>>
  BY DEF NobodySleepsInVain
<1>2. Engaged = {}
  BY DEF Engaged
<1>3. active = 0
  BY <1>2, FS_EmptySet DEF Accounts
<1>4. \A c \in Callers : pc[c] # "waiting"
  BY <1>1, <1>3 DEF NobodySleepsInVain, Busy
<1>5. Sleeping = Workers
  BY <1>4 DEF Sleeping
<1>. QED BY <1>5 DEF Signal, TypeOK

LEMMA NobodySleepsInductive ==
  /\ NobodySleepsInVain /\ Accounts /\ Accounts' /\ TypeOK /\ TypeOK' /\ Phases
  /\ [Next]_vars
  => NobodySleepsInVain'
<1> SUFFICES ASSUME NobodySleepsInVain, Accounts, Accounts', TypeOK, TypeOK',
                    Phases, [Next]_vars
             PROVE  NobodySleepsInVain'
  OBVIOUS
<1>0. active \in Nat /\ active' \in Nat
  BY EngagedFinite DEF Accounts
<1>1. ASSUME NEW t \in Threads, NEW j \in Jobs, Submit(t, j)
      PROVE  NobodySleepsInVain'
  <2>1. queue' # <<>>
    BY <1>1, SubmitFacts
  <2>2. \A u \in Threads : pc[u] \notin {"waiting", "exited"} => pc'[u] = pc[u]
    BY <1>1, SubmitFacts
  <2>3. \E w \in Workers : pc'[w] \notin {"waiting", "exited"}
    <3>1. CASE \E w \in Workers : pc[w] \notin {"waiting", "exited"}
      BY <2>2, <3>1
    <3>2. CASE \A w \in Workers : pc[w] \in {"waiting", "exited"}
      <4>1. ~shutdown
        BY <1>1, <3>2 DEF Submit, MaySubmit, TypeOK
      <4>2. \A w \in Workers : pc[w] = "waiting"
        BY <3>2, <4>1 DEF Phases
      <4>. QED BY <1>1, <4>2, SignalReachesWorker DEF Submit
    <3>. QED BY <3>1, <3>2
  <2>. QED BY <2>1, <2>3 DEF NobodySleepsInVain, Busy
<1>2. ASSUME NEW c \in Callers,
             WaitCalled(c) \/ WaitSleeps(c) \/ WaitReturns(c)
      PROVE  NobodySleepsInVain'
  BY <1>2 DEF WaitCalled, WaitSleeps, WaitReturns, NobodySleepsInVain, Busy,
              TypeOK
<1>3. ASSUME NEW c \in Callers, FreeBegins(c)
      PROVE  NobodySleepsInVain'
  BY <1>3, AwokenFacts DEF FreeBegins, NobodySleepsInVain, Busy
<1>4. ASSUME NEW c \in Callers, FreeReturns(c)
      PROVE  NobodySleepsInVain'
  BY <1>4 DEF FreeReturns, NobodySleepsInVain, Busy, TypeOK
<1>5. ASSUME NEW w \in Workers, Tests(w) \/ Sleeps(w) \/ GivesUp(w)
      PROVE  NobodySleepsInVain'
  BY <1>5 DEF Tests, Sleeps, GivesUp, MustStop, NobodySleepsInVain, Busy, TypeOK
<1>6. ASSUME NEW w \in Workers, Pops(w)
      PROVE  NobodySleepsInVain'
  BY <1>0, <1>6 DEF Pops, NobodySleepsInVain, Busy, TypeOK
<1>7. ASSUME NEW w \in Workers, Returns(w)
      PROVE  NobodySleepsInVain'
  BY <1>7 DEF Returns, NobodySleepsInVain, Busy, TypeOK
<1>8. ASSUME NEW w \in Workers, Settles(w)
      PROVE  NobodySleepsInVain'
  <2>1. pc'[w] = "test" /\ queue' = queue
    BY <1>8, AwokenFacts DEF Settles, TypeOK
  <2>2. CASE active' = 0 /\ queue = <<>>
    BY <1>8, <2>1, <2>2, AwokenFacts DEF Settles, NobodySleepsInVain
  <2>3. CASE ~(active' = 0 /\ queue = <<>>)
    BY <1>0, <2>1, <2>3 DEF NobodySleepsInVain, Busy
  <2>. QED BY <2>2, <2>3
<1>9. ASSUME NEW t \in Threads, SpuriousWakeup(t)
      PROVE  NobodySleepsInVain'
  BY <1>9 DEF SpuriousWakeup, NobodySleepsInVain, Busy, TypeOK
<1>10. CASE UNCHANGED vars
  BY <1>10 DEF vars, NobodySleepsInVain, Busy
<1>. QED
  BY <1>1, <1>2, <1>3, <1>4, <1>5, <1>6, <1>7, <1>8, <1>9, <1>10
     DEF Next, WorkerStep

\* The two invariants need each other: pool_free may drop the queue because
\* nobody slept over it.
LEMMA AccountsCorrect == Spec => [](Accounts /\ NobodySleepsInVain)
<1>1. Init => Accounts /\ NobodySleepsInVain
  <2> SUFFICES ASSUME Init
               PROVE  Accounts /\ NobodySleepsInVain
    OBVIOUS
  <2>1. queue = <<>> /\ \A t \in Threads : pc[t] \in {"test", "out"}
    BY DEF Init
  <2>2. Engaged = {} /\ Held = {}
    BY <2>1 DEF Engaged, Held
  <2>3. Range(queue) = {} /\ IsInjective(queue)
    BY <2>1, EmptyQueue
  <2>4. active = Cardinality(Engaged)
    BY <2>2, FS_EmptySet DEF Init
  <2>. QED BY <2>1, <2>2, <2>3, <2>4 DEF Init, Accounts, NobodySleepsInVain
<1>. QED
  BY <1>1, AccountsInductive, NobodySleepsInductive, TypeCorrect,
     PhasesCorrect, PTL DEF Spec

(* Whatever number of workers and callers share the condition variable, a  *)
(* queued job always has a worker that is awake, and a caller of pool_wait *)
(* sleeps only while the pool has something to do.                         *)
THEOREM NobodySleepsInVainCorrect == Spec => []NobodySleepsInVain
BY AccountsCorrect, PTL

(* When pool_wait returns, every job submitted so far has run to its end.  *)
THEOREM WaitMeansDoneCorrect == Spec => WaitMeansDone
<1>1. ASSUME TypeOK, Accounts, [Next]_vars,
             NEW c \in Callers, pc[c] = "lock", pc'[c] = "out"
      PROVE  finished = submitted
  <2>1. WaitReturns(c)
    <3>1. ASSUME NEW t \in Threads, NEW j \in Jobs, Submit(t, j)
          PROVE  FALSE
      BY <1>1, <3>1, SubmitFacts
    <3>2. ASSUME NEW d \in Callers, FreeBegins(d)
          PROVE  FALSE
      BY <1>1, <3>2, AwokenFacts DEF FreeBegins
    <3>3. ASSUME NEW w \in Workers, Settles(w)
          PROVE  FALSE
      BY <1>1, <3>3, AwokenFacts DEF Settles, TypeOK
    <3>. QED
      BY <1>1, <3>1, <3>2, <3>3 DEF Next, WorkerStep, WaitCalled, WaitSleeps,
         FreeReturns, Tests, Sleeps, GivesUp, Pops, Returns, SpuriousWakeup,
         WaitReturns, vars, TypeOK
  <2>2. queue = <<>> /\ active = 0
    BY <1>1, <2>1, EngagedFinite DEF WaitReturns, Busy, Accounts
  <2>3. Engaged = {}
    BY <1>1, <2>2, EngagedFinite, FS_EmptySet DEF Accounts
  <2>4. Held = {} /\ Range(queue) = {}
    BY <2>2, <2>3, EmptyQueue DEF Held, Engaged
  <2>. QED BY <1>1, <2>4 DEF Accounts
<1>2. TypeOK /\ Accounts /\ [Next]_vars =>
        [\A c \in Callers : pc[c] = "lock" /\ pc'[c] = "out" => finished = submitted]_vars
  BY <1>1
<1>. QED BY <1>2, TypeCorrect, AccountsCorrect, PTL DEF Spec, WaitMeansDone

-----------------------------------------------------------------------------
(* One signal per submit is enough.                                        *)

LEMMA ComingFinite ==
  /\ IsFiniteSet(Coming) /\ Cardinality(Coming) \in Nat
  /\ IsFiniteSet(Coming') /\ Cardinality(Coming') \in Nat
<1>1. IsFiniteSet(Coming) /\ IsFiniteSet(Coming')
  BY FS_Subset DEF Coming
<1>. QED BY <1>1, FS_CardinalityType

LEMMA IdleWorkersInductive ==
  IdleWorkersCome /\ TypeOK /\ TypeOK' /\ [Next]_vars => IdleWorkersCome'
<1> DEFINE Enough == Len(queue) <= Cardinality(Coming)
<1> SUFFICES ASSUME IdleWorkersCome, TypeOK, TypeOK', [Next]_vars, NobodyWaits',
                    NEW s \in Workers, pc'[s] = "waiting"
             PROVE  Enough'
  BY DEF IdleWorkersCome
<1>0. /\ Len(queue) \in Nat /\ Len(queue') \in Nat
      /\ IsFiniteSet(Coming) /\ IsFiniteSet(Coming')
      /\ Cardinality(Coming) \in Nat /\ Cardinality(Coming') \in Nat
  BY ComingFinite DEF TypeOK
<1>1. ASSUME queue' = <<>>
      PROVE  Enough'
  BY <1>0, <1>1
<1>2. ASSUME NobodyWaits, \E w \in Workers : pc[w] = "waiting",
             queue' = queue, Coming \subseteq Coming'
      PROVE  Enough'
  <2>1. Cardinality(Coming) <= Cardinality(Coming')
    BY <1>0, <1>2, FS_Subset
  <2>. QED BY <1>0, <1>2, <2>1 DEF IdleWorkersCome
<1>3. ASSUME NEW t \in Threads, NEW j \in Jobs, Submit(t, j)
      PROVE  Enough'
  <2>1. Len(queue') = Len(queue) + 1
    BY <1>3, SubmitFacts
  <2>2. pc[s] = "waiting" /\ s \in Sleeping
    BY <1>3, SubmitFacts DEF Sleeping
  <2>3. PICK u \in Sleeping : pc' = [pc EXCEPT ![u] = "lock"]
    BY <1>3, <2>2 DEF Submit, Signal
  <2>4. u \notin Callers /\ NobodyWaits
    BY <2>3 DEF NobodyWaits, Sleeping, TypeOK
  <2>5. Coming' = Coming \cup {u} /\ u \notin Coming
    BY <2>3, <2>4 DEF Coming, Sleeping, TypeOK
  <2>6. Cardinality(Coming') = Cardinality(Coming) + 1
    BY <1>0, <2>5, FS_AddElement
  <2>. QED BY <1>0, <2>1, <2>2, <2>4, <2>6 DEF IdleWorkersCome
<1>4. ASSUME NEW c \in Callers,
             WaitCalled(c) \/ WaitSleeps(c) \/ FreeReturns(c)
      PROVE  Enough'
  BY <1>1, <1>4 DEF WaitCalled, WaitSleeps, FreeReturns, NobodyWaits, TypeOK
<1>5. ASSUME NEW c \in Callers, WaitReturns(c)
      PROVE  Enough'
  BY <1>1, <1>5 DEF WaitReturns, Busy
<1>6. ASSUME NEW c \in Callers, FreeBegins(c)
      PROVE  Enough'
  BY <1>6, AwokenFacts DEF FreeBegins
<1>7. ASSUME NEW w \in Workers, Sleeps(w)
      PROVE  Enough'
  BY <1>1, <1>7 DEF Sleeps
<1>8. ASSUME NEW w \in Workers, Tests(w) \/ GivesUp(w) \/ Returns(w)
      PROVE  Enough'
  <2>1. /\ queue' = queue
        /\ \A t \in Threads \ {w} : pc'[t] = pc[t]
        /\ pc'[w] \in {"exited", "lock", "test", "settle"}
        /\ pc'[w] = "exited" => queue = <<>>
    BY <1>8 DEF Tests, GivesUp, Returns, MustStop, TypeOK
  <2>2. CASE pc'[w] = "exited"
    BY <1>1, <2>1, <2>2
  <2>3. CASE pc'[w] # "exited"
    <3>1. NobodyWaits /\ pc[s] = "waiting"
      BY <2>1 DEF NobodyWaits
    <3>2. Coming \subseteq Coming'
      BY <2>1, <2>3 DEF Coming
    <3>. QED BY <1>2, <2>1, <3>1, <3>2
  <2>. QED BY <2>2, <2>3
<1>9. ASSUME NEW w \in Workers, Pops(w)
      PROVE  Enough'
  <2>1. Len(queue') = Len(queue) - 1
    BY <1>9, PopFromQueue DEF Pops, TypeOK
  <2>2. /\ pc[w] = "lock" /\ pc'[w] = "run"
        /\ \A t \in Threads \ {w} : pc'[t] = pc[t]
    BY <1>9 DEF Pops, TypeOK
  <2>3. NobodyWaits /\ pc[s] = "waiting"
    BY <2>2 DEF NobodyWaits
  <2>4. Coming' = Coming \ {w} /\ w \in Coming
    BY <2>2 DEF Coming
  <2>5. Cardinality(Coming') = Cardinality(Coming) - 1
    BY <1>0, <2>4, FS_RemoveElement
  <2>. QED BY <1>0, <2>1, <2>3, <2>5 DEF IdleWorkersCome
<1>10. ASSUME NEW w \in Workers, Settles(w)
       PROVE  Enough'
  <2>1. /\ queue' = queue /\ pc[w] = "settle" /\ pc'[w] = "test"
        /\ \/ \A t \in Threads \ {w} : pc'[t] = pc[t]
           \/ queue = <<>>
    BY <1>10, AwokenFacts DEF Settles, TypeOK
  <2>2. CASE \A t \in Threads \ {w} : pc'[t] = pc[t]
    <3>1. NobodyWaits /\ pc[s] = "waiting"
      BY <2>1, <2>2 DEF NobodyWaits
    <3>2. Coming \subseteq Coming'
      BY <2>1, <2>2 DEF Coming
    <3>. QED BY <1>2, <2>1, <3>1, <3>2
  <2>3. CASE queue = <<>>
    BY <1>1, <2>1, <2>3
  <2>. QED BY <2>1, <2>2, <2>3
<1>11. ASSUME NEW t \in Threads, SpuriousWakeup(t)
       PROVE  Enough'
  <2>1. /\ queue' = queue /\ pc[t] = "waiting" /\ pc'[t] = "lock"
        /\ \A u \in Threads \ {t} : pc'[u] = pc[u]
    BY <1>11 DEF SpuriousWakeup, TypeOK
  <2>2. t \in Workers
    BY <2>1 DEF NobodyWaits
  <2>3. NobodyWaits
    BY <2>1, <2>2 DEF NobodyWaits
  <2>4. Coming \subseteq Coming'
    BY <2>1 DEF Coming
  <2>. QED BY <1>2, <2>1, <2>2, <2>3, <2>4
<1>12. CASE UNCHANGED vars
  BY <1>2, <1>12 DEF vars, NobodyWaits, Coming
<1>. QED
  BY <1>3, <1>4, <1>5, <1>6, <1>7, <1>8, <1>9, <1>10, <1>11, <1>12
     DEF Next, WorkerStep

(* While nobody is inside pool_wait, one signal per submit is enough for a *)
(* pool of any size: as many workers as there are queued jobs are awake.   *)
THEOREM IdleWorkersComeCorrect == Spec => []IdleWorkersCome
<1>1. Init => IdleWorkersCome
  BY DEF Init, IdleWorkersCome
<1>. QED BY <1>1, IdleWorkersInductive, TypeCorrect, PTL DEF Spec

-----------------------------------------------------------------------------
(* The pool implements OffloadService.                                     *)

LEMMA StepSimulation ==
  /\ [Next]_vars /\ TypeOK /\ Phases /\ Accounts /\ Accounts' /\ NobodySleepsInVain
  => [Service!Next]_(Service!svars)
<1> SUFFICES ASSUME [Next]_vars, TypeOK, Phases, Accounts, Accounts',
                    NobodySleepsInVain
             PROVE  [Service!Next]_(Service!svars)
  OBVIOUS
<1>0. Service!Known = submitted
  BY DEF Service!Known, Accounts
<1>1. ASSUME UNCHANGED <<queue, job, finished>>, Freed' = Freed,
             \A w \in Workers : pc'[w] = "run" <=> pc[w] = "run"
      PROVE  UNCHANGED Service!svars
  <2>1. Held' = Held
    BY <1>1 DEF Held
  <2>. QED BY <1>1, <2>1 DEF Service!svars
<1>2. ASSUME NEW t \in Threads, NEW j \in Jobs, Submit(t, j)
      PROVE  Service!Next
  <2>1. \A u \in Threads : pc'[u] \in {"run", "freed"} \/ pc[u] \in {"run", "freed"}
                            => pc'[u] = pc[u]
    BY <1>2, SubmitFacts
  <2>2. Freed' = Freed /\ Held' = Held
    BY <1>2, <2>1, SubmitFacts DEF Freed, Held
  <2>3. Range(queue') = Range(queue) \cup {j} /\ j \notin submitted
        /\ finished' = finished
    BY <1>2, SubmitFacts DEF Submit
  <2>4. Service!Accept(j)
    BY <1>0, <2>2, <2>3 DEF Service!Accept
  <2>. QED BY <2>4 DEF Service!Next
<1>3. ASSUME NEW c \in Callers,
             WaitCalled(c) \/ WaitSleeps(c) \/ WaitReturns(c)
      PROVE  UNCHANGED Service!svars
  BY <1>1, <1>3 DEF WaitCalled, WaitSleeps, WaitReturns, Freed, TypeOK
<1>4. ASSUME NEW c \in Callers, FreeBegins(c)
      PROVE  UNCHANGED Service!svars
  <2>1. \A u \in Threads : pc'[u] \in {"run", "freed"} \/ pc[u] \in {"run", "freed"}
                            => pc'[u] = pc[u]
    BY <1>4, AwokenFacts DEF FreeBegins, TypeOK
  <2>. QED BY <1>1, <1>4, <2>1 DEF FreeBegins, Freed
<1>5. ASSUME NEW c \in Callers, FreeReturns(c)
      PROVE  Service!Next
  <2>1. queue = <<>> /\ queue' = <<>> /\ finished' = finished
    BY <1>5 DEF FreeReturns, NobodySleepsInVain
  <2>2. \A w \in Workers : pc[w] = "exited" /\ pc'[w] = "exited"
    BY <1>5 DEF FreeReturns, TypeOK
  <2>3. Held = {} /\ Held' = {} /\ Range(queue) = {} /\ Range(queue') = {}
    BY <2>1, <2>2, EmptyQueue DEF Held
  <2>4. Freed'
    BY <1>5 DEF FreeReturns, Freed, TypeOK
  <2>5. Service!Close
    BY <2>1, <2>3, <2>4 DEF Service!Close
  <2>. QED BY <2>5 DEF Service!Next
<1>6. ASSUME NEW w \in Workers, Tests(w) \/ Sleeps(w) \/ GivesUp(w)
      PROVE  UNCHANGED Service!svars
  <2>1. /\ UNCHANGED <<queue, job, finished>>
        /\ pc[w] \notin {"run", "freed"} /\ pc'[w] \notin {"run", "freed"}
        /\ \A u \in Threads \ {w} : pc'[u] = pc[u]
    BY <1>6 DEF Tests, Sleeps, GivesUp, TypeOK
  <2>2. Freed' = Freed
    BY <2>1 DEF Freed
  <2>. QED BY <1>1, <2>1, <2>2
<1>7. ASSUME NEW w \in Workers, Pops(w)
      PROVE  UNCHANGED Service!svars
  <2>1. Range(queue) = {Head(queue)} \cup Range(queue')
    BY <1>7, PopFromQueue DEF Pops, TypeOK
  <2>2. /\ pc[w] = "lock" /\ pc'[w] = "run" /\ job'[w] = Head(queue)
        /\ \A u \in Threads \ {w} : pc'[u] = pc[u]
        /\ \A v \in Workers \ {w} : job'[v] = job[v]
    BY <1>7 DEF Pops, TypeOK
  <2>3. Held' = Held \cup {Head(queue)}
    BY <2>2 DEF Held
  <2>4. Freed' = Freed
    BY <2>2 DEF Freed
  <2>. QED BY <1>7, <2>1, <2>3, <2>4 DEF Pops, Service!svars
<1>8. ASSUME NEW w \in Workers, Returns(w)
      PROVE  Service!Next
  <2>1. /\ pc[w] = "run" /\ pc'[w] = "settle"
        /\ \A u \in Threads \ {w} : pc'[u] = pc[u]
        /\ \A v \in Workers \ {w} : job'[v] = job[v]
    BY <1>8 DEF Returns, TypeOK
  <2>2. job[w] \in Jobs /\ job[w] \in Held /\ job[w] \notin Range(queue)
    BY <2>1 DEF TypeOK, Held, Accounts
  <2>3. Held' = Held \ {job[w]}
    BY <2>1 DEF Held, Accounts
  <2>4. ~Freed /\ ~Freed'
    BY <2>1 DEF Freed, Phases
  <2>5. queue' = queue /\ finished' = finished \cup {job[w]}
    BY <1>8 DEF Returns
  <2>6. Service!Finish(job[w])
    BY <2>2, <2>3, <2>4, <2>5 DEF Service!Finish
  <2>. QED BY <2>2, <2>6 DEF Service!Next
<1>9. ASSUME NEW w \in Workers, Settles(w)
      PROVE  UNCHANGED Service!svars
  <2>1. \A u \in Threads : pc'[u] \in {"run", "freed"} \/ pc[u] \in {"run", "freed"}
                            => pc'[u] = pc[u]
    BY <1>9, AwokenFacts DEF Settles, TypeOK
  <2>. QED BY <1>1, <1>9, <2>1 DEF Settles, Freed
<1>10. ASSUME NEW t \in Threads, SpuriousWakeup(t)
       PROVE  UNCHANGED Service!svars
  BY <1>1, <1>10 DEF SpuriousWakeup, Freed, TypeOK
<1>11. CASE UNCHANGED vars
  BY <1>1, <1>11 DEF vars, Freed
<1>. QED
  BY <1>2, <1>3, <1>4, <1>5, <1>6, <1>7, <1>8, <1>9, <1>10, <1>11
     DEF Next, WorkerStep

(* Every behaviour of the pool is one of the abstract service: a job runs  *)
(* once, and freeing the pool gives up no job that did not run.            *)
THEOREM ServiceImplemented == Spec => ImplementsService
<1>1. Init => Service!Init
  BY EmptyQueue DEF Init, Service!Init, Held, Freed
<1>2. /\ [Next]_vars /\ TypeOK /\ Phases /\ Accounts /\ Accounts'
      /\ NobodySleepsInVain
      => [Service!Next]_(Service!svars)
  BY StepSimulation
<1>. QED
  BY <1>1, <1>2, TypeCorrect, PhasesCorrect, AccountsCorrect, PTL
     DEF Spec, ImplementsService, Service!Spec
=============================================================================
