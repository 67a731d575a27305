---------------------------- MODULE Reactor_proofs ----------------------------
(***************************************************************************)
(* Proofs about the event loop (module Reactor), for any bounds, durations,*)
(* descriptors, workers, helpers and any set of operations.  Each          *)
(* invariant is proved from the ones before it:                            *)
(*   the pool of the loop is the pool of ReactorPool_proofs (StepUsesPool),*)
(*   so what is proved there holds here;                                   *)
(*   DueInTime what the int clock says of a deadline;                      *)
(*   Base      types, the shape of every task, the snapshot and the        *)
(*             registered descriptors;                                     *)
(*   Handed, Numbered, PostsNumbered   tokens are fresh in each counter;   *)
(*   AllPaired what a task waits for, and what will wake it, agree;        *)
(*   Queued    a ready task is in the snapshot;                            *)
(*   Boxes     the context of a job is alive until the job has run.        *)
(*                                                                         *)
(* Two things the code does not ensure by itself are hypotheses.  Apart:   *)
(* tokens of offload and of petitio come from two counters, and a task     *)
(* that uses both may see the same number twice.  Drained: a loop that was *)
(* stopped can be closed with offloads in flight, whose contexts are then  *)
(* released under the workers.  ApartByUse, ApartByOrder and DrainedByUse  *)
(* say of which programs they hold, and the ...ByUse theorems after them   *)
(* are the properties of those programs without a hypothesis on the run.   *)
(*                                                                         *)
(* A step is classified by what it does to the tasks (StepKinds): most     *)
(* proofs below have one case per kind, not one per action.                *)
(***************************************************************************)
EXTENDS Reactor, SequenceTheorems, FiniteSetTheorems, TLAPS

-----------------------------------------------------------------------------
(* The millisecond counter.                                                *)

\* Quotient and remainder.
LEMMA DivMod == \A a \in Int, n \in Nat \ {0} : a = n * (a \div n) + (a % n)
OBVIOUS

\* How often a counter of Int32 has run over at x.
Turns(x) == (x + IntSpan) \div (2 * IntSpan)

\* What it shows, and how often it has run over.
LEMMA CounterSplit ==
  ASSUME NEW x \in Int
  PROVE  /\ ToInt(x) \in Int /\ Turns(x) \in Int
         /\ -IntSpan <= ToInt(x) /\ ToInt(x) < IntSpan
         /\ x = ToInt(x) + (2 * IntSpan) * Turns(x)
<1>1. /\ ToInt(x) \in Int /\ Turns(x) \in Int
      /\ -IntSpan <= ToInt(x) /\ ToInt(x) < IntSpan
  BY ReactorAssumption DEF ToInt, Turns
<1>2. 2 * IntSpan \in Nat \ {0} /\ x + IntSpan \in Int
  BY ReactorAssumption
<1>3. x + IntSpan = (2 * IntSpan) * Turns(x) + ((x + IntSpan) % (2 * IntSpan))
  BY <1>2, DivMod DEF Turns
<1>4. (x + IntSpan) % (2 * IntSpan) = ToInt(x) + IntSpan
  BY <1>2, ReactorAssumption DEF ToInt
<1>5. (2 * IntSpan) * Turns(x) \in Int
  BY <1>1, <1>2
<1>. QED BY <1>1, <1>3, <1>4, <1>5, ReactorAssumption

\* It never runs back.
LEMMA CounterOrdered ==
  ASSUME NEW x \in Int, NEW y \in Int, x <= y
  PROVE  Turns(x) <= Turns(y)
<1> SUFFICES ASSUME Turns(x) > Turns(y) PROVE FALSE
  BY CounterSplit
<1>1. PICK n \in Int : n = 2 * IntSpan
  BY ReactorAssumption
<1>2. /\ n > 0 /\ Turns(x) \in Int /\ Turns(y) \in Int
      /\ ToInt(x) \in Int /\ ToInt(y) \in Int /\ ToInt(y) - ToInt(x) < n
      /\ x = ToInt(x) + n * Turns(x) /\ y = ToInt(y) + n * Turns(y)
  <2>1. -IntSpan <= ToInt(x) /\ ToInt(y) < IntSpan /\ ToInt(x) \in Int /\ ToInt(y) \in Int
    BY CounterSplit
  <2>. QED BY <1>1, <2>1, CounterSplit, ReactorAssumption
<1>3. n * (Turns(x) - Turns(y)) >= n /\ n * (Turns(x) - Turns(y)) = n * Turns(x) - n * Turns(y)
  BY <1>2
<1>. QED BY <1>2, <1>3

\* It shows the only Int32 that differs from x by whole turns.
LEMMA CounterUnique ==
  ASSUME NEW x \in Int, NEW k \in Int, NEW r \in Int, x = r + (2 * IntSpan) * k,
         -IntSpan <= r, r < IntSpan
  PROVE  r = ToInt(x)
<1>1. PICK n \in Int : n = 2 * IntSpan
  BY ReactorAssumption
<1>2. /\ n > 0 /\ Turns(x) \in Int /\ ToInt(x) \in Int
      /\ ToInt(x) - r < n /\ r - ToInt(x) < n
      /\ r + n * k = ToInt(x) + n * Turns(x)
  BY <1>1, CounterSplit, ReactorAssumption
<1>3. CASE k > Turns(x)
  <2>1. n * (k - Turns(x)) >= n /\ n * (k - Turns(x)) = n * k - n * Turns(x)
    BY <1>2, <1>3
  <2>. QED BY <1>2, <2>1
<1>4. CASE k < Turns(x)
  <2>1. n * (Turns(x) - k) >= n /\ n * (Turns(x) - k) = n * Turns(x) - n * k
    BY <1>2, <1>4
  <2>. QED BY <1>2, <2>1
<1>. QED BY <1>2, <1>3, <1>4

\* Reading the counter and adding is reading it later.
LEMMA CounterAdds ==
  ASSUME NEW x \in Int, NEW y \in Int
  PROVE  ToInt(ToInt(x) + y) = ToInt(x + y)
<1>1. ToInt(x) \in Int /\ Turns(x) \in Int
  BY CounterSplit
<1>2. PICK z \in Int : z = ToInt(x) + y
  BY <1>1
<1>3. ToInt(z) \in Int /\ Turns(z) \in Int /\ -IntSpan <= ToInt(z) /\ ToInt(z) < IntSpan
  BY CounterSplit
<1>4. PICK k \in Int : k = Turns(x) + Turns(z)
  BY <1>1, <1>3
<1>5. PICK p \in Int : p = (2 * IntSpan) * Turns(x)
  BY <1>1, ReactorAssumption
<1>6. PICK q \in Int : q = (2 * IntSpan) * Turns(z)
  BY <1>3, ReactorAssumption
<1>7. (2 * IntSpan) * k = p + q
  BY <1>1, <1>3, <1>4, <1>5, <1>6, ReactorAssumption
<1>8. x = ToInt(x) + p /\ z = ToInt(z) + q
  BY <1>5, <1>6, CounterSplit
<1>9. x + y = ToInt(z) + (2 * IntSpan) * k
  BY <1>1, <1>2, <1>3, <1>7, <1>8
<1>. QED BY <1>2, <1>3, <1>4, <1>9, CounterUnique

\* What it shows is an int.
LEMMA Counter == \A x \in Int : ToInt(x) \in Int32
<1> SUFFICES ASSUME NEW x \in Int
             PROVE  ToInt(x) \in Int32
  OBVIOUS
<1>. QED BY CounterSplit, ReactorAssumption DEF Int32

\* A deadline that the counter has reached is over, unless the counter ran
\* over between the call and the deadline.
LEMMA DueInTime ==
  ASSUME NEW since \in Nat, NEW now \in Nat, NEW goal \in Nat, since <= now,
         ToInt(Uptime + goal) <= ToInt(Uptime + now)
  PROVE  goal <= now \/ Laps(since) # Laps(goal)
<1> SUFFICES ASSUME now < goal, Laps(since) = Laps(goal)
             PROVE  FALSE
  OBVIOUS
<1>1. PICK s \in Int, n \in Int, g \in Int :
        s = Uptime + since /\ n = Uptime + now /\ g = Uptime + goal
  BY ReactorAssumption
<1>2. s <= n /\ n < g /\ Turns(s) = Turns(g) /\ ToInt(g) <= ToInt(n)
  BY <1>1, ReactorAssumption DEF Laps, Turns
<1>3. Turns(n) = Turns(g)
  <2>1. /\ Turns(s) <= Turns(n) /\ Turns(n) <= Turns(g)
        /\ Turns(n) \in Int /\ Turns(g) \in Int
    BY <1>2, CounterOrdered, CounterSplit
  <2>. QED BY <1>2, <2>1
<1>4. PICK k \in Int : k = (2 * IntSpan) * Turns(n)
  BY CounterSplit, ReactorAssumption
<1>5. n = ToInt(n) + k /\ g = ToInt(g) + k
  BY <1>3, <1>4, CounterSplit
<1>6. ToInt(n) \in Int /\ ToInt(g) \in Int
  BY CounterSplit
<1>. QED BY <1>2, <1>5, <1>6

-----------------------------------------------------------------------------
(* Queues.                                                                 *)

\* Appending adds the element, and keeps elements distinct if it is new.
LEMMA AppendToQueue ==
  ASSUME NEW S, NEW q \in Seq(S), NEW x \in S
  PROVE  /\ Append(q, x) \in Seq(S)
         /\ Range(Append(q, x)) = Range(q) \cup {x}
         /\ IsInjective(q) /\ x \notin Range(q) => IsInjective(Append(q, x))
<1>1. /\ Append(q, x) \in Seq(S) /\ Len(q) \in Nat
      /\ DOMAIN q = 1..Len(q) /\ DOMAIN Append(q, x) = 1..(Len(q) + 1)
      /\ \A i \in DOMAIN q : Append(q, x)[i] = q[i]
      /\ Append(q, x)[Len(q) + 1] = x
  OBVIOUS
<1>2. Range(q) \cup {x} \subseteq Range(Append(q, x))
  BY <1>1 DEF Range
<1>3. Range(Append(q, x)) \subseteq Range(q) \cup {x}
  BY <1>1 DEF Range
<1>. QED BY <1>1, <1>2, <1>3 DEF Range, IsInjective

\* Popping removes the head, and nothing else if elements are distinct.
LEMMA PopFromQueue ==
  ASSUME NEW S, NEW q \in Seq(S), q # <<>>
  PROVE  /\ Head(q) \in S
         /\ Tail(q) \in Seq(S)
         /\ Range(q) = {Head(q)} \cup Range(Tail(q))
         /\ IsInjective(q) => /\ IsInjective(Tail(q))
                              /\ Head(q) \notin Range(Tail(q))
<1>1. /\ Head(q) = q[1] /\ q[1] \in S /\ Len(q) \in Nat \ {0}
      /\ Tail(q) \in Seq(S) /\ Len(Tail(q)) = Len(q) - 1
      /\ \A i \in 1..Len(Tail(q)) : Tail(q)[i] = q[i + 1]
  OBVIOUS
<1>2. DOMAIN q = 1..Len(q) /\ DOMAIN Tail(q) = 1..(Len(q) - 1)
  BY <1>1
<1>3. Range(q) = {Head(q)} \cup Range(Tail(q))
  <2>1. ASSUME NEW i \in DOMAIN q, i # 1
        PROVE  q[i] \in Range(Tail(q))
    <3>1. i - 1 \in DOMAIN Tail(q) /\ Tail(q)[i - 1] = q[i]
      BY <1>1, <1>2, <2>1
    <3>. QED BY <3>1 DEF Range
  <2>2. ASSUME NEW x \in Range(q)
        PROVE  x \in {Head(q)} \cup Range(Tail(q))
    <3>1. PICK i \in DOMAIN q : x = q[i]
      BY DEF Range
    <3>. QED BY <1>1, <2>1, <3>1
  <2>3. Head(q) \in Range(q)
    BY <1>1, <1>2 DEF Range
  <2>4. Range(Tail(q)) \subseteq Range(q)
    BY <1>1, <1>2 DEF Range
  <2>. QED BY <2>2, <2>3, <2>4
<1>4. ASSUME IsInjective(q)
      PROVE  IsInjective(Tail(q)) /\ Head(q) \notin Range(Tail(q))
  BY <1>1, <1>2, <1>4 DEF IsInjective, Range
<1>. QED BY <1>1, <1>3, <1>4

\* Two queues in a row.
LEMMA ConcatQueues ==
  ASSUME NEW S, NEW q \in Seq(S), NEW r \in Seq(S)
  PROVE  /\ q \o r \in Seq(S)
         /\ Range(q \o r) = Range(q) \cup Range(r)
         /\ IsInjective(q) /\ IsInjective(r) /\ Range(q) \cap Range(r) = {}
              => IsInjective(q \o r)
<1>1. /\ q \o r \in Seq(S) /\ Len(q) \in Nat /\ Len(r) \in Nat
      /\ DOMAIN q = 1..Len(q) /\ DOMAIN r = 1..Len(r)
      /\ DOMAIN (q \o r) = 1..(Len(q) + Len(r))
  OBVIOUS
<1>2. /\ \A i \in DOMAIN q : i \in DOMAIN (q \o r) /\ (q \o r)[i] = q[i]
      /\ \A i \in DOMAIN r : /\ Len(q) + i \in DOMAIN (q \o r)
                             /\ (q \o r)[Len(q) + i] = r[i]
  BY <1>1
<1>3. \A i \in DOMAIN (q \o r) :
        \/ i \in DOMAIN q /\ (q \o r)[i] = q[i]
        \/ i \notin DOMAIN q /\ i - Len(q) \in DOMAIN r
              /\ (q \o r)[i] = r[i - Len(q)]
  BY <1>1
<1>4. Range(q \o r) = Range(q) \cup Range(r)
  <2>1. ASSUME NEW x \in Range(q \o r)
        PROVE  x \in Range(q) \cup Range(r)
    BY <1>3 DEF Range
  <2>2. ASSUME NEW x \in Range(q)
        PROVE  x \in Range(q \o r)
    BY <1>2 DEF Range
  <2>3. ASSUME NEW x \in Range(r)
        PROVE  x \in Range(q \o r)
    BY <1>2 DEF Range
  <2>. QED BY <2>1, <2>2, <2>3
<1>5. ASSUME IsInjective(q), IsInjective(r), Range(q) \cap Range(r) = {}
      PROVE  IsInjective(q \o r)
  <2> SUFFICES ASSUME NEW i \in DOMAIN (q \o r), NEW j \in DOMAIN (q \o r),
                      (q \o r)[i] = (q \o r)[j]
               PROVE  i = j
    BY DEF IsInjective
  <2>1. (i \in DOMAIN q) <=> (j \in DOMAIN q)
    <3>1. \A k \in DOMAIN q, l \in DOMAIN r : q[k] # r[l]
      BY <1>5 DEF Range
    <3>. QED BY <1>3, <3>1
  <2>2. CASE i \in DOMAIN q
    BY <1>3, <1>5, <2>1, <2>2 DEF IsInjective
  <2>3. CASE i \notin DOMAIN q
    <3>1. i - Len(q) = j - Len(q)
      BY <1>3, <1>5, <2>1, <2>3 DEF IsInjective
    <3>. QED BY <1>1, <3>1
  <2>. QED BY <2>2, <2>3
<1>. QED BY <1>1, <1>4, <1>5

\* The queue of one element.
LEMMA OneInQueue ==
  ASSUME NEW S, NEW x \in S
  PROVE  <<x>> \in Seq(S) /\ Range(<<x>>) = {x} /\ IsInjective(<<x>>)
  BY DEF Range, IsInjective

\* A set laid out as a queue.
LEMMA SetAsQueue ==
  ASSUME NEW n \in Nat, NEW S \in SUBSET (1..n), NEW s \in SetToSeqs(S)
  PROVE  s \in Seq(1..n) /\ Range(s) = S /\ IsInjective(s)
<1> DEFINE D == 1..Cardinality(S)
<1>1. IsFiniteSet(S)
  <2>1. IsFiniteSet(1..n)
    BY FS_Interval
  <2>. QED BY <2>1, FS_Subset
<1>2. Cardinality(S) \in Nat
  BY <1>1, FS_CardinalityType
<1>3. IsFiniteSet(D) /\ Cardinality(D) = Cardinality(S)
  BY <1>2, FS_Interval
<1>4. s \in [D -> S] /\ \A i, j \in D : i # j => s[i] # s[j]
  BY DEF SetToSeqs
<1>5. IsInjective(s)
  BY <1>4 DEF IsInjective
<1>6. s \in Injection(D, S)
  BY <1>4, <1>5 DEF Injection
<1>7. s \in Surjection(D, S)
  BY <1>1, <1>3, <1>6, FS_Injection
<1>8. Range(s) = S
  BY <1>4, <1>7, ZenonT(40) DEF Surjection, Range
<1>9. s \in Seq(1..n)
  <2>1. s \in [1..Cardinality(S) -> 1..n]
    BY <1>4
  <2>. QED BY <1>2, <2>1, SeqDef, Zenon
<1>. QED BY <1>5, <1>8, <1>9

-----------------------------------------------------------------------------
(* The pool.                                                               *)

\* What is proved of the C half, for the loop's epoll backend.
PoolProofs == INSTANCE ReactorPool_proofs WITH Backend <- "epoll"

\* A completion of a job and a completion of the helper are never the same.
LEMMA JobsPostsApart == Jobs \cap Posts = {}
  BY DEF Jobs, Posts

\* The constants of the loop are constants the C half is proved for.
LEMMA PoolAssumed == PoolProofs!PoolAssumption
<1>1. PoolProofs!IsFiniteSet(Workers)
  BY ReactorAssumption DEF IsFiniteSet, PoolProofs!IsFiniteSet
<1>. QED
  BY <1>1, ReactorAssumption, JobsPostsApart DEF PoolProofs!PoolAssumption

\* The pool of Reactor is the pool ReactorPool_proofs is about.
LEMMA SameOwner == Pool!OwnerStep <=> PoolProofs!OwnerStep
  BY DEF Pool!OwnerStep, PoolProofs!OwnerStep,
     Pool!PoolStart, PoolProofs!PoolStart, Pool!Offload, PoolProofs!Offload,
     Pool!Enqueue, PoolProofs!Enqueue, Pool!Signal, PoolProofs!Signal,
     Pool!Waiting, PoolProofs!Waiting, Pool!BeginHarvest, PoolProofs!BeginHarvest,
     Pool!Take, PoolProofs!Take, Pool!TakeNone, PoolProofs!TakeNone,
     Pool!Resume, PoolProofs!Resume, Pool!BeginWait, PoolProofs!BeginWait,
     Pool!DrainWake, PoolProofs!DrainWake, Pool!WaitReturns, PoolProofs!WaitReturns,
     Pool!BeginFree, PoolProofs!BeginFree, Pool!Broadcast, PoolProofs!Broadcast,
     Pool!JoinAndFree, PoolProofs!JoinAndFree, Pool!Range, PoolProofs!Range,
     Pool!poolVars, PoolProofs!poolVars, Pool!doneVars, PoolProofs!doneVars,
     Pool!history, PoolProofs!history

\* The steps of a worker are the same in both readings of the pool.
LEMMA SameWorker ==
  ASSUME NEW w
  PROVE  /\ Pool!WorkerStep(w) <=> PoolProofs!WorkerStep(w)
         /\ Pool!SpuriousWakeup(w) <=> PoolProofs!SpuriousWakeup(w)
  BY DEF Pool!WorkerStep, PoolProofs!WorkerStep,
     Pool!SpuriousWakeup, PoolProofs!SpuriousWakeup,
     Pool!WorkerSleeps, PoolProofs!WorkerSleeps,
     Pool!WorkerExits, PoolProofs!WorkerExits,
     Pool!WorkerPops, PoolProofs!WorkerPops,
     Pool!WorkerPosts, PoolProofs!WorkerPosts,
     Pool!WorkerWakes, PoolProofs!WorkerWakes,
     Pool!WorkerSettles, PoolProofs!WorkerSettles,
     Pool!WriteWake, PoolProofs!WriteWake, Pool!poolVars, PoolProofs!poolVars,
     Pool!doneVars, PoolProofs!doneVars, Pool!history, PoolProofs!history

\* And so are those of a helper thread.
LEMMA SameHelper ==
  ASSUME NEW h
  PROVE  /\ Pool!HelperWakes(h) <=> PoolProofs!HelperWakes(h)
         /\ \A p : Pool!HelperPosts(h, p) <=> PoolProofs!HelperPosts(h, p)
  BY DEF Pool!HelperWakes, PoolProofs!HelperWakes,
     Pool!HelperPosts, PoolProofs!HelperPosts,
     Pool!WriteWake, PoolProofs!WriteWake, Pool!poolVars, PoolProofs!poolVars,
     Pool!doneVars, PoolProofs!doneVars, Pool!history, PoolProofs!history

\* The pool seen by Reactor and the pool of the proofs run alike.
LEMMA SamePool == Pool!Spec <=> PoolProofs!Spec
<1>1. Pool!Init <=> PoolProofs!Init
  BY DEF Pool!Init, PoolProofs!Init
<1>3. Pool!Next <=> PoolProofs!Next
  BY SameOwner, SameWorker, SameHelper DEF Pool!Next, PoolProofs!Next
<1>4. [Pool!Next]_(Pool!vars) <=> [PoolProofs!Next]_(PoolProofs!vars)
  BY <1>3 DEF Pool!vars, PoolProofs!vars
<1>. QED BY <1>1, <1>4, PTL DEF Pool!Spec, PoolProofs!Spec

\* Every step of the loop and its threads is a step of the pool or leaves
\* it alone.
LEMMA StepUsesPool == [Next]_vars => [Pool!Next]_(Pool!vars)
<1> SUFFICES ASSUME [Next]_vars
             PROVE  Pool!Next \/ UNCHANGED poolVars
  BY DEF Pool!vars, poolVars
<1>1. CASE LoopTop \/ HarvestEnds \/ Harvest \/ Gather \/ PassEnds \/ ResumeNext
  BY <1>1 DEF LoopTop, HarvestEnds, Harvest, Gather, PassEnds, ResumeNext,
              Pool!Next, Pool!OwnerStep
<1>2. CASE \/ WaitWoken \/ WaitTimesOut \/ WaitInterrupted
           \/ \E f \in Fds : WaitFd(f)
  BY <1>2 DEF WaitWoken, WaitTimesOut, WaitInterrupted, WaitFd, Pool!Next,
              Pool!OwnerStep
<1>3. CASE MainSpawns \/ Close \/ CloseReturns
  BY <1>3 DEF MainSpawns, Close, CloseReturns, Pool!Next, Pool!OwnerStep
<1>4. CASE TaskStartsPool
  BY <1>4 DEF TaskStartsPool, Pool!Next, Pool!OwnerStep
<1>5. CASE TaskOffloads
  <2>1. PICK j : Pool!Offload(j)
    BY <1>5 DEF TaskOffloads
  <2>2. j \in Jobs
    BY <2>1 DEF Pool!Offload
  <2>. QED BY <2>1, <2>2 DEF Pool!Next, Pool!OwnerStep
<1>6. CASE \/ CallReturns \/ TokenReturns \/ PostedReturns \/ TaskSleepsZero
           \/ TaskSpawns \/ TaskStops \/ TaskFinishes
  BY <1>6 DEF CallReturns, TokenReturns, PostedReturns, TaskSleepsZero,
              TaskSpawns, TaskStops, TaskFinishes
<1>7. CASE \/ \E o \in offloads : TaskAwaits(o)
           \/ \E ms \in Sleeps : TaskSleeps(ms)
           \/ \E f \in Fds : TaskParks(f)
           \/ \E n \in 1..2 : TaskFetches(n)
  BY <1>7 DEF TaskAwaits, TaskSleeps, TaskParks, TaskFetches
<1>8. ASSUME NEW w \in Workers, WorkerStep(w)
      PROVE  Pool!Next
  BY <1>8 DEF WorkerStep, Pool!Next
<1>9. ASSUME NEW h \in Helpers, HelperStep(h)
      PROVE  Pool!Next
  <2>1. ASSUME NEW p, Pool!HelperPosts(h, p)
        PROVE  p \in Posts
    BY <2>1 DEF Pool!HelperPosts
  <2>. QED BY <1>9, <2>1 DEF HelperStep, Pool!Next
<1>10. CASE Tick \/ \E f \in Fds : FdReady(f)
  BY <1>10 DEF Tick, FdReady
<1>11. CASE UNCHANGED vars
  BY <1>11 DEF vars
<1>. QED
  BY <1>1, <1>2, <1>3, <1>4, <1>5, <1>6, <1>7, <1>8, <1>9, <1>10, <1>11
     DEF Next, LoopStep, TaskStep

\* By the way the loop is composed of the pool's actions, a run of the loop is
\* a run of ReactorPool: what is proved there can be cited here.
LEMMA PoolRuns == Spec => Pool!Spec
<1>1. Init => Pool!Init
  BY DEF Init
<1>. QED BY <1>1, StepUsesPool, PTL DEF Spec, Pool!Spec

\* What is proved of the C half holds in the loop: a completion is in exactly
\* one place, no wakeup is lost, and no worker sleeps over a queued job.
THEOREM PoolInLoop ==
  Spec => []Pool!TypeOK /\ []Pool!ExactlyOnce /\ []Pool!NoLostWakeup
            /\ []Pool!WorkConserving
<1>1. Pool!TypeOK <=> PoolProofs!TypeOK
  BY DEF Pool!TypeOK, PoolProofs!TypeOK, Pool!Completions, PoolProofs!Completions
<1>2. Pool!ExactlyOnce <=> PoolProofs!ExactlyOnce
  BY DEF Pool!ExactlyOnce, PoolProofs!ExactlyOnce, Pool!Held, PoolProofs!Held,
         Pool!Range, PoolProofs!Range, Pool!IsInjective, PoolProofs!IsInjective
<1>3. Pool!NoLostWakeup <=> PoolProofs!NoLostWakeup
  BY DEF Pool!NoLostWakeup, PoolProofs!NoLostWakeup
<1>4. Pool!WorkConserving <=> PoolProofs!WorkConserving
  BY DEF Pool!WorkConserving, PoolProofs!WorkConserving, Pool!Waiting,
         PoolProofs!Waiting, Pool!Cardinality, PoolProofs!Cardinality
<1>5. PoolProofs!Spec => []PoolProofs!TypeOK /\ []PoolProofs!ExactlyOnce
  BY PoolAssumed, PoolProofs!TypeCorrect, PoolProofs!ExactlyOnceCorrect
<1>6. PoolProofs!Spec => []PoolProofs!NoLostWakeup /\ []PoolProofs!WorkConserving
  BY PoolAssumed, PoolProofs!NoLostWakeupCorrect, PoolProofs!WorkConservingCorrect
<1>. QED
  BY PoolRuns, SamePool, <1>1, <1>2, <1>3, <1>4, <1>5, <1>6, PTL

\* Under the loop too the C half is an OffloadService: every job submitted by
\* loop.offload runs once and is reported once, and close discards none that has
\* not run.
THEOREM ServiceInLoop == Spec => Pool!ImplementsService
<1>1. /\ Pool!Held = PoolProofs!Held /\ Pool!Completions = PoolProofs!Completions
      /\ \A q : Pool!Range(q) = PoolProofs!Range(q)
  BY DEF Pool!Held, PoolProofs!Held, Pool!Range, PoolProofs!Range,
         Pool!Completions, PoolProofs!Completions
<1>2. Pool!Service!Init <=> PoolProofs!Service!Init
  BY <1>1 DEF Pool!Service!Init, PoolProofs!Service!Init
<1>3. /\ Pool!Held' = PoolProofs!Held'
      /\ Pool!Range(jobs)' = PoolProofs!Range(jobs)'
      /\ Pool!Range(done)' = PoolProofs!Range(done)'
  BY DEF Pool!Held, PoolProofs!Held, Pool!Range, PoolProofs!Range
<1>4. [Pool!Service!Next]_(Pool!Service!svars)
        <=> [PoolProofs!Service!Next]_(PoolProofs!Service!svars)
  BY <1>1, <1>3
     DEF Pool!Service!Next, PoolProofs!Service!Next,
         Pool!Service!Accept, PoolProofs!Service!Accept,
         Pool!Service!Post, PoolProofs!Service!Post,
         Pool!Service!Finish, PoolProofs!Service!Finish,
         Pool!Service!Deliver, PoolProofs!Service!Deliver,
         Pool!Service!Close, PoolProofs!Service!Close,
         Pool!Service!Known, PoolProofs!Service!Known,
         Pool!Service!svars, PoolProofs!Service!svars
<1>5. Pool!ImplementsService <=> PoolProofs!ImplementsService
  BY <1>2, <1>4, PTL DEF Pool!ImplementsService, PoolProofs!ImplementsService,
     Pool!Service!Spec, PoolProofs!Service!Spec
<1>. QED
  BY PoolRuns, SamePool, <1>5, PoolAssumed, PoolProofs!ServiceImplemented, PTL

-----------------------------------------------------------------------------
(* What a step does.  The steps fall into those that leave the tasks alone *)
(* (Outside, Passing) and those that change one task or fill the snapshot. *)

\* Threads other than the loop's, and the environment.
Outside ==
  \/ \E w \in Workers : WorkerStep(w)
  \/ \E h \in Helpers : HelperStep(h)
  \/ Tick
  \/ \E f \in Fds : FdReady(f)
  \/ UNCHANGED vars

\* Steps of the loop thread that change only where it is.
Passing ==
  \/ LoopTop \/ HarvestEnds \/ PassEnds \/ CloseReturns
  \/ WaitWoken \/ WaitTimesOut \/ WaitInterrupted
  \/ TaskStartsPool \/ TaskStops \/ TaskSleepsZero

\* Where the loop thread is: it has a current task only while one runs, and
\* a snapshot only from Harvest to the end of the pass.
Control ==
  /\ lpc = "task" => cur \in Ids
  /\ lpc \notin {"task", "dead"} => cur = 0
  /\ lpc \in {"main", "top", "wait"} => ready = <<>>

\* What the fields of a task say together.
ShapeOf(me) ==
  /\ me.state = "none" => me = NoTask
  /\ me.state = "new" => me.cont = "start"
  /\ me.state \in {"new", "ready", "fd"} => me.waiting = 0
  /\ me.state = "fd" => me.cont = "io" /\ me.fd \in Fds
  /\ me.state = "timer" => me.cont = "slept" /\ me.waiting # 0
  /\ me.state = "offload" => /\ me.cont \in {"token", "posted"}
                             /\ me.waiting = me.goal /\ me.waiting # 0
  /\ me.cont = "posted" => me.goal <= me.last

\* Every task has that shape.
Shape == \A t \in Ids : ShapeOf(tasks[t])

\* A token that was not handed out is not the name of a task.
Fresh == \A t \in Ids : t >= next_token => tasks[t].state = "none"

\* SnapshotSound, with every task of the snapshot still marked ready.
Snapshot ==
  /\ IsInjective(ready)
  /\ \A t \in Range(ready) : t # cur /\ tasks[t].state = "ready"
  /\ lpc = "task" => tasks[cur].state = "ready"

\* Types of the tables and counters.
TablesOK ==
  /\ timers \subseteq [token : Ids, task : Ids, deadline : Int32]
  /\ offloads \subseteq [task : Ids, token : Ids, done : BOOLEAN]
  /\ next_token \in 1..(MaxToken + 1)
  /\ next_post \in 1..(MaxPost + 1)

\* Types of what the loop thread keeps.
LoopOK ==
  /\ ready \in Seq(Ids)
  /\ cur \in Ids \cup {0}
  /\ reg \in [Fds -> Ids \cup {0}]
  /\ clock \in 0..MaxTime
  /\ lpc \in {"main", "top", "harvest", "wait", "resume", "task", "closing",
              "closed", "dead"}
  /\ stopped \in BOOLEAN

\* The invariant everything below starts from.
Base ==
  /\ tasks \in [Ids -> Task] /\ TablesOK /\ LoopOK
  /\ Control /\ Shape /\ Fresh /\ Snapshot /\ RegisteredIffParked

\* Types that follow from Base.
LEMMA BaseFacts ==
  ASSUME Base
  PROVE  /\ Range(ready) \subseteq Ids
         /\ Ids \subseteq Nat \ {0} /\ 0 \notin Ids
         /\ next_token \in Nat \ {0} /\ next_post \in Nat \ {0}
         /\ clock \in Nat
         /\ \A t \in Ids : tasks[t] \in Task
  BY ReactorAssumption DEF Base, TablesOK, LoopOK, Range, Ids

\* The record of no task, and the record spawn enters.
LEMMA NewTask ==
  LET new == [NoTask EXCEPT !.state = "new"]
  IN  /\ NoTask \in Task /\ new \in Task
      /\ ShapeOf(NoTask) /\ ShapeOf(new)
      /\ NoTask.state = "none" /\ NoTask.waiting = 0
      /\ NoTask.cont = "start" /\ NoTask.posted = {}
      /\ new.state = "new" /\ new.waiting = 0
      /\ new.cont = "start" /\ new.posted = {}
<1>1. {} \subseteq (1..(MaxToken + MaxPost)) /\ 0 \in 0..(MaxToken + MaxPost)
      /\ 0 \in 0..MaxPost /\ 0 \in 0..(MaxToken + MaxPost + MaxTime) /\ 0 \in Nat
      /\ 0 \in 0..MaxTime
      /\ None \in Fds \cup {None}
  BY ReactorAssumption
<1>2. NoTask \in Task
  BY <1>1 DEF NoTask, Task
<1>3. [NoTask EXCEPT !.state = "new"] \in Task
  BY <1>1 DEF NoTask, Task
<1>. QED BY <1>2, <1>3 DEF NoTask, ShapeOf

\* The task that runs.
LEMMA CurFacts ==
  ASSUME Base, lpc = "task"
  PROVE  /\ cur \in Ids /\ tasks[cur] \in Task /\ tasks[cur].state = "ready"
         /\ tasks[cur].waiting = 0 /\ tasks[cur].goal \in Nat
         /\ tasks[cur].last \in Nat /\ tasks[cur].last <= MaxPost
         /\ ShapeOf(tasks[cur]) /\ cur < next_token /\ LoopAlive
         /\ DOMAIN tasks = Ids /\ Me = tasks[cur]
<1>1. /\ cur \in Ids /\ tasks[cur].state = "ready" /\ tasks[cur] \in Task
      /\ ShapeOf(tasks[cur]) /\ LoopAlive /\ DOMAIN tasks = Ids
  BY DEF Base, Control, Snapshot, Shape, LoopAlive
<1>2. /\ tasks[cur].goal \in Nat /\ tasks[cur].last \in Nat
      /\ tasks[cur].last <= MaxPost
  BY <1>1, ReactorAssumption DEF Task
<1>. QED BY <1>1, <1>2, BaseFacts DEF Base, Fresh, Me, ShapeOf

-----------------------------------------------------------------------------
(* How Base is kept.                                                       *)

\* A step that touches neither registrations nor who is parked on them.
LEMMA SameDescriptors ==
  ASSUME Base, LoopAlive' => LoopAlive, reg' = reg,
         \A t \in Ids : /\ tasks'[t].state = "fd" <=> tasks[t].state = "fd"
                        /\ tasks[t].state = "fd" => tasks'[t].fd = tasks[t].fd
  PROVE  RegisteredIffParked'
<1> SUFFICES ASSUME LoopAlive, NEW f \in Fds, NEW t \in Ids
             PROVE  reg[f] = t <=> (tasks'[t].state = "fd" /\ tasks'[t].fd = f)
  BY DEF RegisteredIffParked
<1>. QED BY DEF RegisteredIffParked, Base

\* Only the place of the loop thread changes.
LEMMA KeepsTasks ==
  ASSUME Base,
         UNCHANGED <<tasks, timers, next_token, ready, cur, reg, next_post>>,
         offloads' \subseteq [task : Ids, token : Ids, done : BOOLEAN],
         clock' = clock \/ (clock' = clock + 1 /\ clock < MaxTime),
         stopped' \in BOOLEAN,
         \/ lpc' = lpc
         \/ /\ lpc \in {"main", "top", "wait"}
            /\ lpc' \in {"harvest", "main", "top"}
         \/ lpc = "resume" /\ ready = <<>> /\ lpc' = "top"
         \/ lpc = "closing" /\ lpc' = "closed"
         \/ lpc = "task" /\ lpc' = "dead"
  PROVE  Base'
<1>1. LoopAlive' => LoopAlive
  BY DEF LoopAlive
<1>2. clock' \in 0..MaxTime
  BY ReactorAssumption DEF Base, LoopOK
<1>3. lpc' \in {"main", "top", "harvest", "wait", "resume", "task", "closing",
                "closed", "dead"}
  BY DEF Base, LoopOK
<1>4. LoopOK'
  BY <1>2, <1>3 DEF Base, LoopOK
<1>5. TablesOK'
  BY DEF Base, TablesOK
<1>6. Control'
  BY DEF Base, Control, LoopOK
<1>7. Shape' /\ Fresh'
  BY DEF Base, Shape, ShapeOf, Fresh
<1>8. Snapshot'
  BY DEF Base, Snapshot
<1>9. RegisteredIffParked'
  BY <1>1, SameDescriptors
<1>. QED BY <1>4, <1>5, <1>6, <1>7, <1>8, <1>9 DEF Base

\* One task changes: the shape of the others is the same.
LEMMA OneTask ==
  ASSUME Base, NEW i \in Ids, i < next_token \/ i < next_token',
         tasks' \in [Ids -> Task], \A t \in Ids \ {i} : tasks'[t] = tasks[t],
         ShapeOf(tasks'[i]), next_token' \in Nat, next_token <= next_token'
  PROVE  Shape' /\ Fresh'
<1>1. \A t \in Ids : t >= next_token' => t # i /\ t >= next_token
  BY BaseFacts
<1>. QED BY <1>1 DEF Base, Shape, Fresh

\* The task goes on.
LEMMA StaysRunning ==
  ASSUME Base, lpc = "task",
         tasks' \in [Ids -> Task], \A t \in Ids \ {cur} : tasks'[t] = tasks[t],
         tasks'[cur].state = "ready", ShapeOf(tasks'[cur]),
         UNCHANGED <<lpc, ready, cur, stopped, reg, clock>>,
         TablesOK', next_token <= next_token'
  PROVE  Base'
<1>1. Control' /\ Snapshot'
  BY BaseFacts DEF Base, Control, Snapshot
<1>2. next_token' \in Nat
  BY ReactorAssumption DEF TablesOK
<1>3. Shape' /\ Fresh'
  BY <1>2, OneTask, CurFacts
<1>4. RegisteredIffParked'
  BY SameDescriptors, CurFacts DEF LoopAlive
<1>. QED BY <1>1, <1>3, <1>4 DEF Base, LoopOK

\* The task goes back to the loop.
LEMMA LeavesTask ==
  ASSUME Base, lpc = "task",
         tasks' \in [Ids -> Task], \A t \in Ids \ {cur} : tasks'[t] = tasks[t],
         ShapeOf(tasks'[cur]), BackToLoop,
         UNCHANGED <<stopped, clock>>, RegisteredIffParked',
         reg' \in [Fds -> Ids \cup {0}],
         TablesOK', next_token <= next_token'
  PROVE  Base'
<1>1. Range(<<>>) = {} /\ IsInjective(<<>>)
  BY DEF Range, IsInjective
<1>2. /\ cur' = 0 /\ lpc' = "resume"
      /\ ready' = ready \/ ready' = <<>>
  BY DEF BackToLoop
<1>3. Snapshot'
  BY <1>1, <1>2, BaseFacts DEF Base, Snapshot
<1>4. Control'
  BY <1>2 DEF Control
<1>5. next_token' \in Nat
  BY ReactorAssumption DEF TablesOK
<1>6. Shape' /\ Fresh'
  BY <1>5, OneTask, CurFacts
<1>7. ready' \in Seq(Ids)
  <2>1. <<>> \in Seq(Ids) /\ ready \in Seq(Ids)
    BY DEF Base, LoopOK
  <2>. QED BY <1>2, <2>1
<1>8. LoopOK'
  BY <1>2, <1>7 DEF Base, LoopOK
<1>. QED BY <1>3, <1>4, <1>6, <1>8 DEF Base

-----------------------------------------------------------------------------
(* The steps of a task.                                                    *)

\* A completion as the code sees it: task and token.
JobOf(t, k)  == <<"job", t, k>>
PostOf(t, k) == <<"post", t, k>>

\* No task but the running one changes.
OthersSame == \A t \in Ids \ {cur} : tasks'[t] = tasks[t]

\* The loop thread goes on running the same task.
LoopStays == UNCHANGED <<lpc, ready, cur, stopped, reg, clock>>

\* Nothing is offloaded, fetched, posted or taken.
PoolStays == UNCHANGED <<used, taken, requests, next_post>>

\* A call returns to the task: what it awaited was done, and is consumed.
Continues ==
  /\ lpc = "task" /\ Me.cont \in {"start", "run", "slept", "io", "token", "posted"}
  /\ Me.cont = "posted" => Me.goal = Me.last
  /\ tasks' \in [Ids -> Task] /\ OthersSame
  /\ tasks'[cur].state = "ready" /\ tasks'[cur].waiting = 0
  /\ tasks'[cur].cont = "run" /\ tasks'[cur].posted = tasks[cur].posted
  /\ offloads' \subseteq offloads
  /\ \A o \in offloads \ offloads' : o.task = cur /\ o.done
  /\ LoopStays /\ PoolStays /\ UNCHANGED <<timers, next_token>>

\* The first resume, park_read and sleep_ms return.
LEMMA CallReturnsFacts ==
  ASSUME Base, CallReturns
  PROVE  Continues
<1>1. /\ lpc = "task" /\ Me.cont \in {"start", "slept", "io"}
      /\ UNCHANGED <<timers, offloads, next_token>> /\ LoopStays /\ PoolStays
      /\ tasks' = [tasks EXCEPT ![cur].cont = "run"]
  BY DEF CallReturns, poolVars, ctlVars, helperVars, LoopStays, PoolStays
<1>2. /\ tasks' \in [Ids -> Task] /\ OthersSame
      /\ tasks'[cur].state = "ready" /\ tasks'[cur].waiting = 0
      /\ tasks'[cur].cont = "run" /\ tasks'[cur].posted = tasks[cur].posted
  BY <1>1, CurFacts DEF Task, Base, OthersSame
<1>3. /\ offloads' \subseteq offloads
      /\ \A p \in offloads \ offloads' : p.task = cur /\ p.done
  BY <1>1
<1>. QED BY <1>1, <1>2, <1>3 DEF Continues

\* await_token dies on a completion that is not the one it waits for.
TokenDies ==
  /\ lpc = "task" /\ Me.cont = "token"
  /\ \/ /\ \A o \in offloads : ~(o.task = cur /\ o.token = Me.goal)
        /\ panic' = "completion lost"
     \/ /\ \E o \in offloads : o.task = cur /\ o.token = Me.goal /\ ~o.done
        /\ panic' = "resumed before the offload finished"
  /\ UNCHANGED <<tasks, timers, offloads, boxes, next_token, stopped, ready, cur,
                 reg, clock>>
  /\ lpc' = "dead" /\ PoolStays

\* await_token returns, or dies.
LEMMA TokenReturnsFacts ==
  ASSUME Base, TokenReturns
  PROVE  (Continues /\ panic' = panic) \/ TokenDies
<1> DEFINE mine == {o \in offloads : o.task = cur /\ o.token = Me.goal}
<1>1. /\ lpc = "task" /\ Me.cont = "token"
      /\ UNCHANGED <<timers, next_token, stopped, ready, cur, reg, clock>>
      /\ PoolStays
  BY DEF TokenReturns, poolVars, helperVars, envVars, PoolStays
<1>2. CASE /\ mine = {} /\ Die("completion lost")
           /\ UNCHANGED <<tasks, offloads, boxes>>
  BY <1>1, <1>2 DEF Die, TokenDies
<1>3. ASSUME NEW o \in mine, ~o.done,
             Die("resumed before the offload finished"),
             UNCHANGED <<tasks, offloads, boxes>>
      PROVE  TokenDies
  BY <1>1, <1>3 DEF Die, TokenDies
<1>4. ASSUME NEW o \in mine, o.done, Consume(o), UNCHANGED <<lpc, panic>>,
             tasks' = [tasks EXCEPT ![cur].cont = "run",
                          ![cur].pending = IF @ > 0 THEN @ - 1 ELSE @]
      PROVE  Continues
  <2>1. /\ tasks' \in [Ids -> Task] /\ OthersSame
        /\ tasks'[cur].state = "ready" /\ tasks'[cur].waiting = 0
        /\ tasks'[cur].cont = "run" /\ tasks'[cur].posted = tasks[cur].posted
    BY <1>1, <1>4, CurFacts DEF Task, Base, OthersSame
  <2>2. /\ offloads' \subseteq offloads
        /\ \A p \in offloads \ offloads' : p.task = cur /\ p.done
    BY <1>4 DEF Consume
  <2>. QED BY <1>1, <1>4, <2>1, <2>2 DEF Continues, LoopStays
<1>. QED BY <1>2, <1>3, <1>4 DEF TokenReturns

\* fetch_many_async goes on to the next request of the batch.
Advances ==
  /\ lpc = "task" /\ Me.cont = "posted" /\ Me.goal < Me.last
  /\ Me.goal + 1 \in Me.posted
  /\ tasks' \in [Ids -> Task] /\ OthersSame
  /\ tasks'[cur].state = "ready" /\ tasks'[cur].waiting = 0
  /\ tasks'[cur].cont = "posted" /\ tasks'[cur].goal = Me.goal + 1
  /\ tasks'[cur].last = Me.last
  /\ tasks'[cur].posted = Me.posted \ {Me.goal + 1}
  /\ LoopStays /\ PoolStays /\ UNCHANGED <<timers, offloads, next_token>>

\* fetch_many_async waits for the next request of the batch.
ParksOnPost ==
  /\ lpc = "task" /\ Me.cont = "posted" /\ Me.goal < Me.last
  /\ Me.goal + 1 \notin Me.posted
  /\ tasks' \in [Ids -> Task] /\ OthersSame
  /\ tasks'[cur].state = "offload" /\ tasks'[cur].waiting = Me.goal + 1
  /\ tasks'[cur].cont = "posted" /\ tasks'[cur].goal = Me.goal + 1
  /\ tasks'[cur].last = Me.last
  /\ tasks'[cur].posted = Me.posted
  /\ BackToLoop /\ PoolStays
  /\ UNCHANGED <<timers, offloads, next_token, stopped, reg, clock>>

\* await_posted returns, goes on or parks.
LEMMA PostedReturnsFacts ==
  ASSUME Base, PostedReturns
  PROVE  (Continues \/ Advances \/ ParksOnPost) /\ panic' = panic
<1>1. /\ lpc = "task" /\ Me.cont = "posted" /\ Me = tasks[cur]
      /\ UNCHANGED <<timers, offloads, next_token, reg, clock>> /\ PoolStays
      /\ panic' = panic /\ stopped' = stopped
  BY CurFacts DEF PostedReturns, poolVars, helperVars, envVars, PoolStays, ctlVars
<1>2. /\ Me.goal \in Nat /\ Me.last \in Nat /\ Me.last <= MaxPost
      /\ Me.goal <= Me.last
  BY <1>1, CurFacts DEF ShapeOf
<1>3. CASE Me.goal = Me.last
  <2>1. tasks' = [tasks EXCEPT ![cur].cont = "run"] /\ LoopStays
    BY <1>1, <1>3 DEF PostedReturns, ctlVars, LoopStays
  <2>2. /\ tasks' \in [Ids -> Task] /\ OthersSame
        /\ tasks'[cur].state = "ready" /\ tasks'[cur].waiting = 0
        /\ tasks'[cur].cont = "run" /\ tasks'[cur].posted = tasks[cur].posted
    BY <1>1, <2>1, CurFacts DEF Task, Base, OthersSame
  <2>3. /\ offloads' \subseteq offloads
        /\ \A p \in offloads \ offloads' : p.task = cur /\ p.done
    BY <1>1
  <2>. QED BY <1>1, <1>3, <2>1, <2>2, <2>3 DEF Continues
<1>4. CASE Me.goal # Me.last
  <2>1. Me.goal < Me.last /\ Me.goal + 1 \in 0..(MaxToken + MaxPost + MaxTime)
        /\ Me.goal + 1 \in 0..(MaxToken + MaxPost)
    BY <1>2, <1>4, ReactorAssumption
  <2>2. CASE Me.goal + 1 \in Me.posted
    <3>1. /\ tasks' = [tasks EXCEPT ![cur].goal = Me.goal + 1,
                                    ![cur].posted = @ \ {Me.goal + 1}]
          /\ LoopStays
      BY <1>1, <1>4, <2>2 DEF PostedReturns, ctlVars, LoopStays, Posted
    <3>2. /\ tasks' \in [Ids -> Task] /\ OthersSame
          /\ tasks'[cur].state = "ready" /\ tasks'[cur].waiting = 0
          /\ tasks'[cur].cont = "posted" /\ tasks'[cur].goal = Me.goal + 1
          /\ tasks'[cur].last = Me.last
          /\ tasks'[cur].posted = Me.posted \ {Me.goal + 1}
      BY <1>1, <2>1, <3>1, CurFacts DEF Task, Base, OthersSame
    <3>. QED BY <1>1, <2>1, <2>2, <3>1, <3>2 DEF Advances
  <2>3. CASE Me.goal + 1 \notin Me.posted
    <3>1. /\ tasks' = [tasks EXCEPT ![cur].state = "offload",
                                    ![cur].waiting = Me.goal + 1,
                                    ![cur].goal = Me.goal + 1]
          /\ BackToLoop
      BY <1>1, <1>4, <2>3 DEF PostedReturns, ctlVars, LoopStays, Posted
    <3>2. /\ tasks' \in [Ids -> Task] /\ OthersSame
          /\ tasks'[cur].state = "offload" /\ tasks'[cur].waiting = Me.goal + 1
          /\ tasks'[cur].cont = "posted" /\ tasks'[cur].goal = Me.goal + 1
          /\ tasks'[cur].last = Me.last
          /\ tasks'[cur].posted = Me.posted
      BY <1>1, <2>1, <3>1, CurFacts DEF Task, Base, OthersSame
    <3>. QED BY <1>1, <2>1, <2>3, <3>1, <3>2 DEF ParksOnPost
  <2>. QED BY <2>2, <2>3
<1>. QED BY <1>1, <1>3, <1>4

\* offload submits a job under the next token.
OffloadsJob ==
  /\ "offload" \in Ops
  /\ lpc = "task" /\ Me.cont = "run" /\ next_token \in Ids
  /\ tasks' = tasks
  /\ offloads' = offloads \cup
       {[task |-> cur, token |-> next_token, done |-> FALSE]}
  /\ next_token' = next_token + 1
  /\ used' = used \cup {JobOf(cur, next_token)}
  /\ boxes' = boxes \cup {JobOf(cur, next_token)}
  /\ LoopStays /\ UNCHANGED <<timers, taken, requests, next_post>>

\* That is what offload does.
LEMMA TaskOffloadsFacts ==
  ASSUME Base, TaskOffloads
  PROVE  OffloadsJob /\ panic' = panic
<1>1. next_token \in Ids
  BY BaseFacts, ReactorAssumption DEF TaskOffloads, Ids
<1>2. used' = used \cup {JobOf(cur, next_token)} /\ taken' = taken
  BY DEF TaskOffloads, Pool!Offload, JobOf
<1>3. boxes' = boxes \cup {JobOf(cur, next_token)}
  BY DEF TaskOffloads, JobOf
<1>. QED
  BY <1>1, <1>2, <1>3 DEF TaskOffloads, OffloadsJob, ctlVars, helperVars, envVars,
     LoopStays

\* await_token parks the task until its job is done.
ParksOnToken(o) ==
  /\ lpc = "task" /\ Me.cont = "run" /\ o \in offloads /\ o.task = cur /\ ~o.done
  /\ tasks' \in [Ids -> Task] /\ OthersSame
  /\ tasks'[cur].state = "offload" /\ tasks'[cur].waiting = o.token
  /\ tasks'[cur].cont = "token" /\ tasks'[cur].goal = o.token
  /\ tasks'[cur].posted = Me.posted
  /\ BackToLoop /\ PoolStays
  /\ UNCHANGED <<timers, offloads, next_token, stopped, reg, clock>>

\* await_token consumes a finished job at once, or parks.
LEMMA TaskAwaitsFacts ==
  ASSUME Base, NEW o \in offloads, TaskAwaits(o)
  PROVE  (Continues \/ ParksOnToken(o)) /\ panic' = panic
<1>1. /\ lpc = "task" /\ Me.cont = "run" /\ o.task = cur /\ Me = tasks[cur]
      /\ UNCHANGED <<timers, next_token, reg, clock>> /\ PoolStays
  BY CurFacts DEF TaskAwaits, Running, poolVars, helperVars, envVars, PoolStays
<1>2. CASE o.done
  <2>1. tasks' = tasks /\ LoopStays /\ panic' = panic
    BY <1>1, <1>2 DEF TaskAwaits, ctlVars, LoopStays
  <2>2. /\ offloads' \subseteq offloads
        /\ \A p \in offloads \ offloads' : p.task = cur /\ p.done
    BY <1>1, <1>2 DEF TaskAwaits, Consume
  <2>. QED BY <1>1, <2>1, <2>2, CurFacts DEF Continues, OthersSame, Base
<1>3. CASE ~o.done
  <2>1. /\ tasks' = [tasks EXCEPT ![cur].state = "offload",
                                  ![cur].waiting = o.token,
                                  ![cur].cont = "token",
                                  ![cur].goal = o.token]
        /\ BackToLoop /\ UNCHANGED <<offloads, stopped, panic>>
    BY <1>3 DEF TaskAwaits, ParkOnToken
  <2>2. /\ o.token \in 0..(MaxToken + MaxPost)
        /\ o.token \in 0..(MaxToken + MaxPost + MaxTime)
    BY ReactorAssumption DEF Base, TablesOK, Ids
  <2>3. /\ tasks' \in [Ids -> Task] /\ OthersSame
        /\ tasks'[cur].state = "offload" /\ tasks'[cur].waiting = o.token
        /\ tasks'[cur].cont = "token" /\ tasks'[cur].goal = o.token
        /\ tasks'[cur].posted = Me.posted
    BY <1>1, <2>1, <2>2, CurFacts DEF Task, Base, OthersSame
  <2>. QED BY <1>1, <1>3, <2>1, <2>3 DEF ParksOnToken
<1>. QED BY <1>2, <1>3

\* sleep_ms parks the task under a timer of its own.
ParksOnTimer(ms) ==
  /\ lpc = "task" /\ Me.cont = "run" /\ next_token \in Ids
  /\ clock \in 0..MaxTime /\ clock + ms \in 0..MaxTime
  /\ ToInt(Now + ms) \in Int32 /\ ToInt(Now + ms) = ToInt(Uptime + (clock + ms))
  /\ tasks' \in [Ids -> Task] /\ OthersSame
  /\ tasks'[cur].state = "timer" /\ tasks'[cur].waiting = next_token
  /\ tasks'[cur].cont = "slept" /\ tasks'[cur].goal = clock + ms
  /\ tasks'[cur].since = clock
  /\ tasks'[cur].posted = Me.posted
  /\ timers' = timers \cup
       {[token |-> next_token, task |-> cur, deadline |-> ToInt(Now + ms)]}
  /\ next_token' = next_token + 1
  /\ BackToLoop /\ PoolStays
  /\ UNCHANGED <<offloads, stopped, reg, clock>>

\* That is what sleep_ms does.
LEMMA TaskSleepsFacts ==
  ASSUME Base, NEW ms \in Sleeps, TaskSleeps(ms)
  PROVE  ParksOnTimer(ms) /\ panic' = panic
<1>1. /\ lpc = "task" /\ Me.cont = "run" /\ Me = tasks[cur]
      /\ UNCHANGED <<offloads, reg, clock, stopped, panic>> /\ PoolStays
      /\ next_token' = next_token + 1 /\ BackToLoop
      /\ timers' = timers \cup
           {[token |-> next_token, task |-> cur, deadline |-> ToInt(Now + ms)]}
      /\ tasks' = [tasks EXCEPT ![cur].state = "timer",
                                ![cur].waiting = next_token,
                                ![cur].cont = "slept",
                                ![cur].since = clock,
                                ![cur].goal = clock + ms]
  BY CurFacts DEF TaskSleeps, Running, poolVars, helperVars, envVars, PoolStays
<1>2. /\ next_token \in Ids /\ clock \in 0..MaxTime /\ clock + ms \in 0..MaxTime
      /\ ms \in Int /\ Uptime + clock \in Int
      /\ (Uptime + clock) + ms = Uptime + (clock + ms)
  BY BaseFacts, ReactorAssumption DEF TaskSleeps, Ids, Base, LoopOK
<1>5. /\ ToInt(Now + ms) \in Int32
      /\ ToInt(Now + ms) = ToInt(Uptime + (clock + ms))
  <2>1. Now \in Int /\ Now + ms \in Int
    BY <1>2, Counter DEF Now, Int32
  <2>. QED BY <1>2, <2>1, Counter, CounterAdds DEF Now
<1>3. /\ next_token \in 0..(MaxToken + MaxPost)
      /\ clock + ms \in 0..(MaxToken + MaxPost + MaxTime)
  BY <1>2, ReactorAssumption DEF Ids
<1>4. /\ tasks' \in [Ids -> Task] /\ OthersSame
      /\ tasks'[cur].state = "timer" /\ tasks'[cur].waiting = next_token
      /\ tasks'[cur].cont = "slept" /\ tasks'[cur].goal = clock + ms
      /\ tasks'[cur].since = clock
      /\ tasks'[cur].posted = Me.posted
  BY <1>1, <1>3, CurFacts DEF Task, Base, OthersSame
<1>. QED BY <1>1, <1>2, <1>4, <1>5 DEF ParksOnTimer

\* park_read parks the task on a descriptor nobody is parked on.
ParksOnFd(f) ==
  /\ lpc = "task" /\ Me.cont = "run" /\ f \in Fds /\ reg[f] = 0
  /\ reg' = [reg EXCEPT ![f] = cur]
  /\ tasks' \in [Ids -> Task] /\ OthersSame
  /\ tasks'[cur].state = "fd" /\ tasks'[cur].fd = f
  /\ tasks'[cur].cont = "io" /\ tasks'[cur].waiting = 0
  /\ tasks'[cur].posted = Me.posted
  /\ BackToLoop /\ PoolStays
  /\ UNCHANGED <<timers, offloads, next_token, stopped, clock>>

\* That is what park_read does.
LEMMA TaskParksFacts ==
  ASSUME Base, NEW f \in Fds, TaskParks(f)
  PROVE  ParksOnFd(f) /\ panic' = panic
<1>1. /\ lpc = "task" /\ Me.cont = "run" /\ Me = tasks[cur] /\ reg[f] = 0
      /\ UNCHANGED <<timers, offloads, next_token, clock, stopped, panic>>
      /\ PoolStays /\ BackToLoop /\ reg' = [reg EXCEPT ![f] = cur]
      /\ tasks' = [tasks EXCEPT ![cur].state = "fd", ![cur].fd = f,
                                ![cur].cont = "io"]
  BY CurFacts DEF TaskParks, Running, poolVars, helperVars, PoolStays
<1>2. /\ tasks' \in [Ids -> Task] /\ OthersSame
      /\ tasks'[cur].state = "fd" /\ tasks'[cur].fd = f
      /\ tasks'[cur].cont = "io" /\ tasks'[cur].waiting = 0
      /\ tasks'[cur].posted = Me.posted
  BY <1>1, CurFacts DEF Task, Base, OthersSame
<1>. QED BY <1>1, <1>2 DEF ParksOnFd

\* send_async and fetch_many_async hand over n requests and await the first.
ParksOnBatch(n) ==
  /\ "fetch" \in Ops
  /\ lpc = "task" /\ Me.cont = "run" /\ n \in 1..2
  /\ next_post + n - 1 \in 1..MaxPost
  /\ requests' = requests \cup {PostOf(cur, next_post + i) : i \in 0..(n - 1)}
  /\ next_post' = next_post + n
  /\ tasks' \in [Ids -> Task] /\ OthersSame
  /\ tasks'[cur].state = "offload" /\ tasks'[cur].waiting = next_post
  /\ tasks'[cur].cont = "posted" /\ tasks'[cur].goal = next_post
  /\ tasks'[cur].last = next_post + n - 1
  /\ tasks'[cur].posted = Me.posted
  /\ BackToLoop
  /\ UNCHANGED <<used, taken, timers, offloads, next_token, stopped, reg, clock>>

\* That is what they do.
LEMMA TaskFetchesFacts ==
  ASSUME Base, NEW n \in 1..2, TaskFetches(n)
  PROVE  ParksOnBatch(n) /\ panic' = panic
<1>1. /\ lpc = "task" /\ Me.cont = "run" /\ Me = tasks[cur] /\ "fetch" \in Ops
      /\ UNCHANGED <<timers, offloads, next_token, reg, clock, stopped, panic>>
      /\ UNCHANGED <<used, taken>> /\ BackToLoop /\ next_post' = next_post + n
      /\ tasks' = [tasks EXCEPT ![cur].state = "offload",
                                ![cur].waiting = next_post,
                                ![cur].cont = "posted",
                                ![cur].goal = next_post,
                                ![cur].last = next_post + n - 1]
  BY CurFacts DEF TaskFetches, Running, poolVars, envVars
<1>2. requests' = requests \cup {PostOf(cur, next_post + i) : i \in 0..(n - 1)}
  BY DEF TaskFetches, PostOf
<1>3. /\ next_post + n - 1 \in 1..MaxPost /\ next_post + n - 1 \in 0..MaxPost
      /\ next_post \in 0..(MaxToken + MaxPost)
      /\ next_post \in 0..(MaxToken + MaxPost + MaxTime)
  BY BaseFacts, ReactorAssumption DEF TaskFetches
<1>4. /\ tasks' \in [Ids -> Task] /\ OthersSame
      /\ tasks'[cur].state = "offload" /\ tasks'[cur].waiting = next_post
      /\ tasks'[cur].cont = "posted" /\ tasks'[cur].goal = next_post
      /\ tasks'[cur].last = next_post + n - 1
      /\ tasks'[cur].posted = Me.posted
  BY <1>1, <1>3, CurFacts DEF Task, Base, OthersSame
<1>. QED BY <1>1, <1>2, <1>3, <1>4 DEF ParksOnBatch

\* The worker function returns, with no offload in flight.
Finishes ==
  /\ lpc = "task" /\ Me.cont = "run"
  /\ \A o \in offloads : o.task # cur
  /\ tasks' = [tasks EXCEPT ![cur] = NoTask]
  /\ BackToLoop /\ PoolStays
  /\ UNCHANGED <<timers, offloads, next_token, stopped, reg, clock>>

\* The program dies.
Dies ==
  /\ lpc = "task" /\ lpc' = "dead" /\ PoolStays
  /\ UNCHANGED <<tasks, timers, offloads, next_token, stopped, ready, cur, reg,
                 clock>>

\* A task that returns with an offload in flight kills the program.
LEMMA TaskFinishesFacts ==
  ASSUME Base, TaskFinishes
  PROVE  /\ Finishes \/ Dies
         /\ panic' \in {panic, "finished with an offload in flight"}
  BY DEF TaskFinishes, Finishes, Dies, Die, Running, PoolStays, BackToLoop,
         poolVars, helperVars, envVars

-----------------------------------------------------------------------------
(* How the kinds of steps keep Base.                                       *)

\* A call returns.
LEMMA ContinuesBase ==
  ASSUME Base, Continues
  PROVE  Base'
<1>1. ShapeOf(tasks'[cur])
  BY DEF Continues, ShapeOf
<1>2. TablesOK'
  BY DEF Continues, PoolStays, Base, TablesOK
<1>. QED
  BY <1>1, <1>2, StaysRunning, BaseFacts DEF Continues, OthersSame, LoopStays

\* The next request of a batch was posted already.
LEMMA AdvancesBase ==
  ASSUME Base, Advances
  PROVE  Base'
<1>1. ShapeOf(tasks'[cur])
  BY CurFacts DEF Advances, ShapeOf
<1>2. TablesOK'
  BY DEF Advances, PoolStays, Base, TablesOK
<1>. QED
  BY <1>1, <1>2, StaysRunning, BaseFacts DEF Advances, OthersSame, LoopStays

\* A job is submitted.
LEMMA OffloadsJobBase ==
  ASSUME Base, OffloadsJob
  PROVE  Base'
<1>1. TablesOK'
  <2>1. next_token' \in 1..(MaxToken + 1)
    BY ReactorAssumption DEF OffloadsJob, Ids
  <2>2. offloads' \subseteq [task : Ids, token : Ids, done : BOOLEAN]
    <3>1. [task |-> cur, token |-> next_token, done |-> FALSE]
            \in [task : Ids, token : Ids, done : BOOLEAN]
      BY CurFacts DEF OffloadsJob
    <3>2. offloads \subseteq [task : Ids, token : Ids, done : BOOLEAN]
      BY DEF Base, TablesOK
    <3>. QED BY <3>1, <3>2, Zenon DEF OffloadsJob
  <2>. QED
    BY <2>1, <2>2 DEF OffloadsJob, Base, TablesOK
<1>. QED
  BY <1>1, StaysRunning, CurFacts, BaseFacts DEF OffloadsJob, LoopStays, Base

\* The task parks on a completion or a timer, or ends.
LEMMA ParksBase ==
  ASSUME Base,
         \/ ParksOnPost \/ Finishes
         \/ \E o \in offloads : ParksOnToken(o)
         \/ \E ms \in Sleeps : ParksOnTimer(ms)
         \/ \E n \in 1..2 : ParksOnBatch(n)
  PROVE  Base'
<1>1. CASE ParksOnPost
  <2>1. ShapeOf(tasks'[cur])
    BY <1>1, CurFacts DEF ParksOnPost, ShapeOf
  <2>2. TablesOK'
    BY <1>1 DEF ParksOnPost, PoolStays, Base, TablesOK
  <2>3. RegisteredIffParked'
    BY <1>1, SameDescriptors, CurFacts DEF ParksOnPost, OthersSame
  <2>. QED
    BY <1>1, <2>1, <2>2, <2>3, LeavesTask, BaseFacts DEF ParksOnPost, OthersSame,
       Base, LoopOK
<1>2. CASE Finishes
  <2>1. /\ tasks' \in [Ids -> Task] /\ OthersSame /\ tasks'[cur] = NoTask
        /\ NoTask.state = "none"
    BY <1>2, CurFacts, NewTask DEF Finishes, Base, OthersSame
  <2>2. TablesOK'
    BY <1>2 DEF Finishes, PoolStays, Base, TablesOK
  <2>3. RegisteredIffParked'
    BY <1>2, <2>1, SameDescriptors, CurFacts DEF Finishes, OthersSame
  <2>. QED
    BY <1>2, <2>1, <2>2, <2>3, LeavesTask, BaseFacts, NewTask
       DEF Finishes, OthersSame, Base, LoopOK
<1>3. ASSUME NEW o \in offloads, ParksOnToken(o)
      PROVE  Base'
  <2>1. o.token # 0
    BY BaseFacts DEF Base, TablesOK
  <2>2. ShapeOf(tasks'[cur])
    BY <1>3, <2>1 DEF ParksOnToken, ShapeOf
  <2>3. TablesOK'
    BY <1>3 DEF ParksOnToken, PoolStays, Base, TablesOK
  <2>4. RegisteredIffParked'
    BY <1>3, SameDescriptors, CurFacts DEF ParksOnToken, OthersSame
  <2>. QED
    BY <1>3, <2>2, <2>3, <2>4, LeavesTask, BaseFacts
       DEF ParksOnToken, OthersSame, Base, LoopOK
<1>4. ASSUME NEW ms \in Sleeps, ParksOnTimer(ms)
      PROVE  Base'
  <2>1. ShapeOf(tasks'[cur])
    BY <1>4, BaseFacts DEF ParksOnTimer, ShapeOf
  <2>2. TablesOK'
    BY <1>4, CurFacts, ReactorAssumption, SMTT(30)
       DEF ParksOnTimer, PoolStays, Base, TablesOK, Ids
  <2>3. RegisteredIffParked'
    BY <1>4, SameDescriptors, CurFacts DEF ParksOnTimer, OthersSame
  <2>. QED
    BY <1>4, <2>1, <2>2, <2>3, LeavesTask, BaseFacts
       DEF ParksOnTimer, OthersSame, Base, LoopOK
<1>5. ASSUME NEW n \in 1..2, ParksOnBatch(n)
      PROVE  Base'
  <2>1. ShapeOf(tasks'[cur])
    BY <1>5, BaseFacts DEF ParksOnBatch, ShapeOf
  <2>2. TablesOK'
    <3>1. next_post' \in 1..(MaxPost + 1)
      BY <1>5, BaseFacts, ReactorAssumption DEF ParksOnBatch
    <3>. QED BY <1>5, <3>1 DEF ParksOnBatch, Base, TablesOK
  <2>3. RegisteredIffParked'
    BY <1>5, SameDescriptors, CurFacts DEF ParksOnBatch, OthersSame
  <2>. QED
    BY <1>5, <2>1, <2>2, <2>3, LeavesTask, BaseFacts
       DEF ParksOnBatch, OthersSame, Base, LoopOK
<1>. QED BY <1>1, <1>2, <1>3, <1>4, <1>5

\* The task parks on a descriptor.
LEMMA ParksOnFdBase ==
  ASSUME Base, NEW f \in Fds, ParksOnFd(f)
  PROVE  Base'
<1>1. ShapeOf(tasks'[cur])
  BY DEF ParksOnFd, ShapeOf
<1>2. TablesOK'
  BY DEF ParksOnFd, PoolStays, Base, TablesOK
<1>3. reg' \in [Fds -> Ids \cup {0}]
  BY CurFacts DEF ParksOnFd, Base, LoopOK
<1>4. RegisteredIffParked'
  <2> SUFFICES ASSUME NEW g \in Fds, NEW t \in Ids
               PROVE  reg'[g] = t <=> (tasks'[t].state = "fd" /\ tasks'[t].fd = g)
    BY DEF RegisteredIffParked
  <2>1. reg[g] = t <=> (tasks[t].state = "fd" /\ tasks[t].fd = g)
    BY CurFacts DEF ParksOnFd, RegisteredIffParked, Base
  <2>2. /\ tasks'[cur].state = "fd" /\ tasks'[cur].fd = f
        /\ tasks[cur].state = "ready"
        /\ t # cur => tasks'[t] = tasks[t]
    BY CurFacts DEF ParksOnFd, OthersSame
  <2>3. reg[f] = 0 /\ reg'[g] = IF g = f THEN cur ELSE reg[g]
    BY DEF ParksOnFd, Base, LoopOK
  <2>. QED BY <2>1, <2>2, <2>3, BaseFacts
<1>. QED
  BY <1>1, <1>2, <1>3, <1>4, LeavesTask, BaseFacts DEF ParksOnFd, OthersSame

\* The program dies.
LEMMA DiesBase ==
  ASSUME Base, Dies \/ TokenDies
  PROVE  Base'
  BY KeepsTasks DEF Dies, TokenDies, PoolStays, Base, TablesOK, LoopOK

\* Steps that leave the tasks alone.
LEMMA QuietFacts ==
  ASSUME Outside \/ Passing
  PROVE  /\ UNCHANGED <<tasks, timers, offloads, boxes, next_token, ready, cur,
                        reg, next_post>>
         /\ clock' = clock \/ (clock' = clock + 1 /\ clock < MaxTime)
         /\ stopped' = stopped \/ stopped' = TRUE
         /\ \/ lpc' = lpc
            \/ /\ lpc \in {"main", "top", "wait"}
               /\ lpc' \in {"harvest", "main", "top"}
            \/ lpc = "resume" /\ ready = <<>> /\ lpc' = "top"
            \/ lpc = "closing" /\ lpc' = "closed"
            \/ lpc = "task" /\ lpc' = "dead"
<1>1. CASE Outside
  BY <1>1 DEF Outside, WorkerStep, HelperStep, Tick, FdReady, vars, tableVars,
     ctlVars, envVars, helperVars
<1>2. CASE LoopTop \/ HarvestEnds \/ PassEnds \/ CloseReturns
  BY <1>2 DEF LoopTop, HarvestEnds, PassEnds, CloseReturns, tableVars,
     ctlVars, envVars, helperVars
<1>3. CASE WaitWoken \/ WaitTimesOut \/ WaitInterrupted
  BY <1>3 DEF WaitWoken, WaitTimesOut, WaitInterrupted, WaitEnds, tableVars,
     ctlVars, envVars, helperVars
<1>4. CASE TaskStartsPool \/ TaskStops \/ TaskSleepsZero
  BY <1>4 DEF TaskStartsPool, TaskStops, TaskSleepsZero, Running, Die, tableVars,
     ctlVars, envVars, helperVars
<1>. QED BY <1>1, <1>2, <1>3, <1>4 DEF Passing

\* Nothing happens to the tasks.
LEMMA QuietBase ==
  ASSUME Base, Outside \/ Passing
  PROVE  Base'
<1>1. /\ offloads' \subseteq [task : Ids, token : Ids, done : BOOLEAN]
      /\ stopped' \in BOOLEAN
  BY QuietFacts DEF Base, TablesOK, LoopOK
<1>. QED BY <1>1, QuietFacts, KeepsTasks

\* A new task is entered under the next token.
Spawns ==
  /\ next_token \in Ids /\ next_token' = next_token + 1
  /\ tasks' \in [Ids -> Task]
  /\ \A t \in Ids \ {next_token} : tasks'[t] = tasks[t]
  /\ tasks[next_token].state = "none" /\ ShapeOf(tasks'[next_token])
  /\ tasks'[next_token].state = "new" /\ tasks'[next_token].waiting = 0
  /\ tasks'[next_token].cont = "start" /\ tasks'[next_token].posted = {}
  /\ LoopStays /\ PoolStays /\ UNCHANGED <<timers, offloads>>

\* That is what spawn does, called by main or by a task.
LEMMA SpawnFacts ==
  ASSUME Base, MainSpawns \/ TaskSpawns
  PROVE  Spawns /\ UNCHANGED panic
<1>1. /\ next_token <= MaxToken /\ next_token' = next_token + 1
      /\ UNCHANGED <<timers, offloads, panic>>
      /\ LoopStays /\ PoolStays
      /\ tasks' = [tasks EXCEPT ![next_token] = [NoTask EXCEPT !.state = "new"]]
  BY DEF MainSpawns, TaskSpawns, Spawn, ctlVars, helperVars, envVars, poolVars,
         LoopStays, PoolStays
<1>2. next_token \in Ids
  BY <1>1, BaseFacts, ReactorAssumption DEF Ids
<1>3. tasks[next_token].state = "none"
  BY <1>2, BaseFacts DEF Base, Fresh
<1>4. /\ tasks' \in [Ids -> Task]
      /\ \A t \in Ids \ {next_token} : tasks'[t] = tasks[t]
      /\ tasks'[next_token] = [NoTask EXCEPT !.state = "new"]
  BY <1>1, <1>2, NewTask DEF Base
<1>. QED BY <1>1, <1>2, <1>3, <1>4, NewTask DEF Spawns

\* A task is entered.
LEMMA SpawnsBase ==
  ASSUME Base, Spawns
  PROVE  Base'
<1>1. next_token' \in 1..(MaxToken + 1)
  BY ReactorAssumption DEF Spawns, Ids
<1>2. TablesOK'
  BY <1>1 DEF Spawns, PoolStays, Base, TablesOK
<1>3. LoopOK' /\ Control'
  BY DEF Spawns, LoopStays, Base, LoopOK, Control
<1>4. Shape' /\ Fresh'
  BY <1>1, OneTask, BaseFacts DEF Spawns
<1>5. \A t \in Ids : tasks[t].state = "ready" => tasks'[t] = tasks[t]
  BY DEF Spawns
<1>6. Snapshot'
  BY <1>5, BaseFacts DEF Spawns, LoopStays, Snapshot, Base, Control
<1>7. RegisteredIffParked'
  BY SameDescriptors DEF Spawns, LoopStays, LoopAlive
<1>. QED BY <1>2, <1>3, <1>4, <1>6, <1>7 DEF Base, Spawns

\* close drops the tables.
Closes ==
  /\ lpc = "main" /\ lpc' = "closing" /\ requests = {}
  /\ tasks' = [t \in Ids |-> NoTask] /\ timers' = {} /\ offloads' = {}
  /\ boxes' = boxes \ {JobOf(o.task, o.token) : o \in offloads}
  /\ PoolStays /\ UNCHANGED <<next_token, stopped, ready, cur, reg, clock, panic>>

\* That is what close does.
LEMMA CloseFacts ==
  ASSUME Close
  PROVE  Closes
  BY DEF Close, Closes, JobOf, PoolStays, Pool!BeginFree, Pool!history,
         helperVars, envVars

\* The tables are dropped.
LEMMA ClosesBase ==
  ASSUME Base, Closes
  PROVE  Base'
<1>1. tasks' \in [Ids -> Task] /\ \A t \in Ids : tasks'[t] = NoTask
  BY NewTask DEF Closes
<1>2. TablesOK'
  BY DEF Closes, PoolStays, Base, TablesOK
<1>3. LoopOK' /\ Control'
  BY DEF Closes, Base, LoopOK, Control
<1>4. Shape' /\ Fresh'
  BY <1>1, NewTask DEF Shape, Fresh
<1>5. Range(ready) = {}
  BY DEF Closes, Base, Control, Range
<1>6. Snapshot'
  BY <1>5 DEF Closes, Snapshot, Base
<1>7. RegisteredIffParked'
  BY DEF Closes, RegisteredIffParked, LoopAlive
<1>. QED BY <1>1, <1>2, <1>3, <1>4, <1>6, <1>7 DEF Base

\* The snapshot is resumed in order.
LEMMA ResumeBase ==
  ASSUME Base, ResumeNext
  PROVE  Base'
<1> DEFINE next == Head(ready)
<1>1. /\ lpc = "resume" /\ ready # <<>> /\ ready' = Tail(ready) /\ cur = 0
      /\ UNCHANGED <<tasks, timers, offloads, next_token, next_post, stopped, reg,
                     clock>>
  BY DEF ResumeNext, tableVars, helperVars, envVars, Base, Control
<1>2. /\ next \in Ids /\ ready' \in Seq(Ids)
      /\ Range(ready) = {next} \cup Range(ready')
      /\ IsInjective(ready') /\ next \notin Range(ready')
  BY <1>1, PopFromQueue DEF Base, LoopOK, Snapshot
<1>3. next \in Live /\ cur' = next /\ lpc' = "task"
  BY <1>1, <1>2 DEF ResumeNext, Live, Base, Snapshot
<1>4. LoopOK'
  BY <1>1, <1>2, <1>3 DEF Base, LoopOK
<1>5. Control' /\ Snapshot'
  BY <1>1, <1>2, <1>3 DEF Base, Snapshot, Control
<1>6. TablesOK' /\ Shape' /\ Fresh'
  BY <1>1 DEF Base, TablesOK, Shape, ShapeOf, Fresh
<1>7. RegisteredIffParked'
  BY <1>1, <1>3, SameDescriptors DEF LoopAlive
<1>. QED BY <1>1, <1>4, <1>5, <1>6, <1>7 DEF Base

\* A descriptor ends the wait: its task is the snapshot.
LEMMA WaitFdFacts ==
  ASSUME Base, NEW f \in Fds, WaitFd(f)
  PROVE  /\ reg[f] \in Ids /\ tasks[reg[f]].state = "fd" /\ tasks[reg[f]].fd = f
         /\ lpc = "wait" /\ lpc' = "resume" /\ ready' = <<reg[f]>> /\ cur = 0
         /\ reg' = [reg EXCEPT ![f] = 0]
         /\ tasks' \in [Ids -> Task]
         /\ \A t \in Ids \ {reg[f]} : tasks'[t] = tasks[t]
         /\ LET me == tasks'[reg[f]]
            IN  /\ me.state = "ready" /\ me.waiting = 0 /\ me.cont = "io"
                /\ me.posted = tasks[reg[f]].posted
         /\ PoolStays
         /\ UNCHANGED <<timers, offloads, boxes, next_token, stopped, cur, clock,
                        panic>>
<1>1. /\ lpc = "wait" /\ lpc' = "resume" /\ reg[f] # 0 /\ cur = 0
      /\ PoolStays
      /\ UNCHANGED <<timers, offloads, boxes, next_token, stopped, cur, clock, panic>>
  BY DEF WaitFd, Pool!WaitReturns, Pool!history, helperVars, PoolStays, Base, Control
<1>2. reg[f] \in Ids /\ LoopAlive
  BY <1>1 DEF Base, LoopOK, LoopAlive
<1>3. tasks[reg[f]].state = "fd" /\ tasks[reg[f]].fd = f
  BY <1>2 DEF Base, RegisteredIffParked
<1>4. reg[f] \in Live
  BY <1>2, <1>3 DEF Live
<1>5. /\ reg' = [reg EXCEPT ![f] = 0] /\ ready' = <<reg[f]>>
      /\ tasks' = [tasks EXCEPT ![reg[f]].state = "ready", ![reg[f]].fd = None]
  BY <1>4 DEF WaitFd
<1>6. tasks[reg[f]] \in Task /\ ShapeOf(tasks[reg[f]]) /\ tasks[reg[f]].waiting = 0
      /\ tasks[reg[f]].cont = "io"
  BY <1>2, <1>3 DEF Base, Shape, ShapeOf
<1>7. /\ tasks' \in [Ids -> Task]
      /\ \A t \in Ids \ {reg[f]} : tasks'[t] = tasks[t]
      /\ tasks'[reg[f]].state = "ready" /\ tasks'[reg[f]].waiting = 0
      /\ tasks'[reg[f]].cont = "io" /\ tasks'[reg[f]].posted = tasks[reg[f]].posted
  BY <1>2, <1>5, <1>6 DEF Base, Task
<1>. QED BY <1>1, <1>2, <1>3, <1>5, <1>7

\* A descriptor ends the wait.
LEMMA WaitFdBase ==
  ASSUME Base, NEW f \in Fds, WaitFd(f)
  PROVE  Base'
<1> DEFINE i == reg[f]
<1>1. /\ i \in Ids /\ tasks[i].state = "fd" /\ tasks[i].fd = f
      /\ lpc = "wait" /\ lpc' = "resume" /\ ready' = <<i>> /\ cur' = 0 /\ cur = 0
      /\ reg' = [reg EXCEPT ![f] = 0]
      /\ tasks' \in [Ids -> Task]
      /\ \A t \in Ids \ {i} : tasks'[t] = tasks[t]
      /\ tasks'[i].state = "ready" /\ tasks'[i].waiting = 0 /\ tasks'[i].cont = "io"
      /\ UNCHANGED <<timers, offloads, next_token, next_post, stopped, clock>>
  BY WaitFdFacts DEF PoolStays
<1>2. ready' \in Seq(Ids) /\ Range(ready') = {i} /\ IsInjective(ready')
  BY <1>1, OneInQueue
<1>3. reg' \in [Fds -> Ids \cup {0}]
  BY <1>1 DEF Base, LoopOK
<1>4. LoopOK' /\ TablesOK'
  BY <1>1, <1>2, <1>3 DEF Base, LoopOK, TablesOK
<1>5. Control' /\ Snapshot'
  BY <1>1, <1>2, BaseFacts DEF Control, Snapshot
<1>6. ShapeOf(tasks'[i]) /\ i < next_token
  BY <1>1, BaseFacts DEF ShapeOf, Base, Fresh
<1>7. Shape' /\ Fresh'
  BY <1>1, <1>6, OneTask, BaseFacts
<1>8. RegisteredIffParked'
  <2> SUFFICES ASSUME NEW g \in Fds, NEW t \in Ids
               PROVE  reg'[g] = t <=> (tasks'[t].state = "fd" /\ tasks'[t].fd = g)
    BY DEF RegisteredIffParked
  <2>1. reg[g] = t <=> (tasks[t].state = "fd" /\ tasks[t].fd = g)
    BY <1>1 DEF RegisteredIffParked, Base, LoopAlive
  <2>2. reg'[g] = IF g = f THEN 0 ELSE reg[g]
    BY <1>1 DEF Base, LoopOK
  <2>. QED BY <1>1, <2>1, <2>2, BaseFacts
<1>. QED BY <1>1, <1>4, <1>5, <1>7, <1>8 DEF Base

-----------------------------------------------------------------------------
(* Harvest and Gather.                                                     *)

\* The task is in the call it was in.
SameCall(me, as) ==
  /\ me.cont = as.cont /\ me.goal = as.goal /\ me.last = as.last
  /\ me.since = as.since
  /\ me.fd = as.fd /\ me.posted = as.posted

\* A task that is made ready stays in its call.
LEMMA WakesFacts ==
  ASSUME NEW t, tasks[t] \in Task
  PROVE  /\ Wakes(t) \in Task /\ Wakes(t).state = "ready"
         /\ Wakes(t).waiting = 0 /\ SameCall(Wakes(t), tasks[t])
<1>1. 0 \in 0..(MaxToken + MaxPost)
  BY ReactorAssumption
<1>. QED BY <1>1 DEF Wakes, Task, SameCall

\* The jobs table has an entry of t under token k.
Entry(t, k) == \E o \in offloads : o.task = t /\ o.token = k

\* A completion of t with token k is taken: of a job or of the helper.
Handles(t, k) ==
  /\ lpc = "harvest" /\ t \in Ids
  /\ \/ /\ k \in Ids /\ JobOf(t, k) \in used \ taken
        /\ taken' = taken \cup {JobOf(t, k)}
     \/ /\ k \in 1..MaxPost /\ PostOf(t, k) \in used \ taken
        /\ taken' = taken \cup {PostOf(t, k)}
  /\ offloads' \subseteq [task : Ids, token : Ids, done : BOOLEAN]
  /\ \A o \in offloads' : \E p \in offloads :
       /\ o.task = p.task /\ o.token = p.token
       /\ o.done <=> p.done \/ (p.task = t /\ p.token = k)
  /\ \A p \in offloads : \E o \in offloads' :
       o.task = p.task /\ o.token = p.token
  /\ tasks' \in [Ids -> Task]
  /\ \A u \in Ids \ {t} : tasks'[u] = tasks[u]
  /\ \/ /\ tasks[t].state = "none"
        /\ UNCHANGED <<tasks, ready>>
     \/ /\ tasks[t].state \in {"timer", "offload"} /\ tasks[t].waiting = k
        /\ tasks'[t].state = "ready" /\ tasks'[t].waiting = 0
        /\ SameCall(tasks'[t], tasks[t])
        /\ ready' = Append(ready, t)
     \/ /\ tasks[t].state # "none" /\ tasks[t].waiting # k /\ Entry(t, k)
        /\ tasks'[t].state = tasks[t].state /\ tasks'[t].waiting = tasks[t].waiting
        /\ SameCall(tasks'[t], tasks[t])
        /\ ready' = ready
     \/ /\ tasks[t].state # "none" /\ tasks[t].waiting # k /\ ~Entry(t, k)
        /\ tasks'[t].state = tasks[t].state /\ tasks'[t].waiting = tasks[t].waiting
        /\ tasks'[t].cont = tasks[t].cont /\ tasks'[t].goal = tasks[t].goal
        /\ tasks'[t].last = tasks[t].last /\ tasks'[t].fd = tasks[t].fd
        /\ tasks'[t].since = tasks[t].since
        /\ tasks'[t].posted = tasks[t].posted \cup {k}
        /\ ready' = ready
  /\ UNCHANGED <<timers, boxes, next_token, stopped, lpc, cur, panic, used,
                 requests, next_post, reg, clock>>

\* The completions are those ReactorPool speaks of.
LEMMA HeadFacts ==
  ASSUME Pool!TypeOK, done # <<>>
  PROVE  LET t == Head(done)[2]
             k == Head(done)[3]
         IN  /\ t \in Ids
             /\ \/ k \in Ids /\ Head(done) = JobOf(t, k)
                \/ k \in 1..MaxPost /\ Head(done) = PostOf(t, k)
<1>1. Head(done) \in Jobs \cup Posts
  BY PopFromQueue DEF Pool!TypeOK, Pool!Completions
<1>2. CASE Head(done) \in Jobs
  <2>1. PICK t \in Ids, k \in Ids : Head(done) = JobOf(t, k)
    BY <1>2 DEF Jobs, JobOf
  <2>2. Head(done)[2] = t /\ Head(done)[3] = k
    BY <2>1 DEF JobOf
  <2>. QED BY <2>1, <2>2
<1>3. CASE Head(done) \in Posts
  <2>1. PICK t \in Ids, k \in 1..MaxPost : Head(done) = PostOf(t, k)
    BY <1>3 DEF Posts, PostOf
  <2>2. Head(done)[2] = t /\ Head(done)[3] = k
    BY <2>1 DEF PostOf
  <2>. QED BY <2>1, <2>2
<1>. QED BY <1>1, <1>2, <1>3

\* Harvest handles the completion at the head of the queue.
LEMMA HarvestFacts ==
  ASSUME Base, Pool!TypeOK, Pool!ExactlyOnce, Harvest
  PROVE  /\ Handles(Head(done)[2], Head(done)[3])
         /\ done # <<>> /\ taken' = taken \cup {Head(done)} /\ dropped' = dropped
<1> DEFINE t == Head(done)[2]
           k == Head(done)[3]
           mine == {o \in offloads : o.task = t /\ o.token = k}
<1>1. /\ lpc = "harvest" /\ done # <<>> /\ taken' = taken \cup {Head(done)}
      /\ dropped' = dropped
      /\ UNCHANGED <<timers, boxes, next_token, stopped, lpc, cur, panic, used,
                     requests, next_post, reg, clock>>
  BY DEF Harvest, Pool!Take, helperVars, envVars
<1>2. /\ t \in Ids
      /\ \/ /\ k \in Ids /\ JobOf(t, k) \in used \ taken
            /\ taken' = taken \cup {JobOf(t, k)}
         \/ /\ k \in 1..MaxPost /\ PostOf(t, k) \in used \ taken
            /\ taken' = taken \cup {PostOf(t, k)}
  <2>1. Head(done) \in Pool!Range(done)
    BY <1>1, PopFromQueue DEF Pool!TypeOK, Range, Pool!Range
  <2>2. Head(done) \in used \ taken
    BY <2>1 DEF Pool!ExactlyOnce
  <2>. QED BY <1>1, <2>2, HeadFacts
<1>3. /\ k \in Nat \ {0} /\ k \in 1..(MaxToken + MaxPost)
  BY <1>2, ReactorAssumption DEF Ids
<1>4. offloads' = (offloads \ mine) \cup {[o EXCEPT !.done = TRUE] : o \in mine}
  BY DEF Harvest
<1>5. \A p \in offloads : p = [task |-> p.task, token |-> p.token, done |-> p.done]
                          /\ p.done \in BOOLEAN
  BY DEF Base, TablesOK
<1>6. /\ \A o \in offloads' : \E p \in offloads :
           /\ o.task = p.task /\ o.token = p.token
           /\ o.done <=> p.done \/ (p.task = t /\ p.token = k)
      /\ \A p \in offloads : \E o \in offloads' :
           o.task = p.task /\ o.token = p.token
  <2>1. ASSUME NEW p \in mine
        PROVE  LET o == [p EXCEPT !.done = TRUE]
               IN  o.task = p.task /\ o.token = p.token /\ o.done = TRUE
    BY <1>5
  <2>2. ASSUME NEW p \in offloads
        PROVE  \E o \in offloads' : o.task = p.task /\ o.token = p.token
    BY <1>4, <2>1
  <2>3. ASSUME NEW o \in offloads'
        PROVE  \E p \in offloads :
                 /\ o.task = p.task /\ o.token = p.token
                 /\ o.done <=> p.done \/ (p.task = t /\ p.token = k)
    <3>1. CASE o \in offloads \ mine
      BY <1>5, <3>1
    <3>2. ASSUME NEW p \in mine, o = [p EXCEPT !.done = TRUE]
          PROVE  \E q \in offloads :
                   /\ o.task = q.task /\ o.token = q.token
                   /\ o.done <=> q.done \/ (q.task = t /\ q.token = k)
      BY <2>1, <3>2
    <3>. QED BY <1>4, <3>1, <3>2
  <2>. QED BY <2>2, <2>3
<1>7. offloads' \subseteq [task : Ids, token : Ids, done : BOOLEAN]
  <2>1. \A p \in offloads : p \in [task : Ids, token : Ids, done : BOOLEAN]
    BY DEF Base, TablesOK
  <2>2. ASSUME NEW p \in offloads
        PROVE  [p EXCEPT !.done = TRUE]
                 \in [task : Ids, token : Ids, done : BOOLEAN]
    BY <2>1
  <2>. QED BY <1>4, <2>1, <2>2
<1>8. mine = {} <=> ~Entry(t, k)
  BY DEF Entry
<1>9. tasks[t] \in Task /\ ShapeOf(tasks[t]) /\ DOMAIN tasks = Ids
  BY <1>2 DEF Base, Shape
<1>10. CASE t \notin Live
  <2>1. tasks[t].state = "none" /\ UNCHANGED <<tasks, ready>>
    BY <1>2, <1>10 DEF Harvest, Live
  <2>. QED BY <1>1, <1>2, <1>6, <1>7, <2>1 DEF Handles, Base
<1>11. CASE t \in Live /\ Matches(t, k)
  <2>1. /\ tasks' = [tasks EXCEPT ![t] = Wakes(t)] /\ ready' = Append(ready, t)
        /\ tasks[t].state # "none" /\ tasks[t].waiting = k
    BY <1>11 DEF Harvest, Live, Matches
  <2>2. tasks[t].state \in {"timer", "offload"}
    BY <1>3, <1>9, <2>1 DEF ShapeOf, Task
  <2>3. /\ Wakes(t) \in Task /\ Wakes(t).state = "ready" /\ Wakes(t).waiting = 0
        /\ SameCall(Wakes(t), tasks[t])
    BY <1>9, WakesFacts
  <2>4. /\ tasks' \in [Ids -> Task] /\ tasks'[t] = Wakes(t)
        /\ \A u \in Ids \ {t} : tasks'[u] = tasks[u]
    BY <1>2, <2>1, <2>3 DEF Base
  <2>. QED BY <1>1, <1>2, <1>6, <1>7, <2>1, <2>2, <2>3, <2>4 DEF Handles
<1>12. CASE t \in Live /\ ~Matches(t, k)
  <2>1. /\ tasks' = IF mine = {} THEN [tasks EXCEPT ![t].posted = @ \cup {k}]
                                 ELSE [tasks EXCEPT ![t].pending = @ + 1]
        /\ ready' = ready /\ tasks[t].state # "none" /\ tasks[t].waiting # k
    BY <1>12 DEF Harvest, Live, Matches
  <2>2. /\ tasks' \in [Ids -> Task]
        /\ \A u \in Ids \ {t} : tasks'[u] = tasks[u]
        /\ tasks'[t].state = tasks[t].state /\ tasks'[t].waiting = tasks[t].waiting
        /\ tasks'[t].cont = tasks[t].cont /\ tasks'[t].goal = tasks[t].goal
        /\ tasks'[t].last = tasks[t].last /\ tasks'[t].fd = tasks[t].fd
        /\ tasks'[t].since = tasks[t].since
        /\ tasks'[t].posted = IF mine = {} THEN tasks[t].posted \cup {k}
                                           ELSE tasks[t].posted
    <3> DEFINE counted == IF mine = {}
                          THEN [tasks[t] EXCEPT !.posted = @ \cup {k}]
                          ELSE [tasks[t] EXCEPT !.pending = @ + 1]
    <3>1. counted \in Task
      BY <1>3, <1>9 DEF Task
    <3>2. /\ counted.state = tasks[t].state /\ counted.waiting = tasks[t].waiting
          /\ counted.cont = tasks[t].cont /\ counted.goal = tasks[t].goal
          /\ counted.last = tasks[t].last /\ counted.fd = tasks[t].fd
          /\ counted.since = tasks[t].since
          /\ counted.posted = IF mine = {} THEN tasks[t].posted \cup {k}
                                           ELSE tasks[t].posted
      BY <1>9 DEF Task
    <3>3. tasks' = [tasks EXCEPT ![t] = counted] /\ tasks \in [Ids -> Task]
      BY <2>1 DEF Base
    <3> HIDE DEF counted
    <3>4. /\ tasks' \in [Ids -> Task] /\ tasks'[t] = counted
          /\ \A u \in Ids \ {t} : tasks'[u] = tasks[u]
      BY ONLY <1>2, <3>1, <3>3
    <3>. QED BY ONLY <3>2, <3>4
  <2>. QED BY <1>1, <1>2, <1>6, <1>8, <1>7, <2>1, <2>2 DEF Handles, SameCall
<1>13. Handles(t, k)
  BY <1>10, <1>11, <1>12
<1>. QED BY <1>1, <1>13

\* A completion is handled.
LEMMA HandlesBase ==
  ASSUME Base, NEW t, NEW k, Handles(t, k)
  PROVE  Base'
<1>1. /\ t \in Ids /\ lpc = "harvest" /\ cur = 0
      /\ tasks' \in [Ids -> Task] /\ \A u \in Ids \ {t} : tasks'[u] = tasks[u]
      /\ UNCHANGED <<timers, next_token, stopped, lpc, cur, next_post, reg, clock>>
  BY DEF Handles, Base, Control
<1>2. offloads' \subseteq [task : Ids, token : Ids, done : BOOLEAN]
  BY DEF Handles
<1>3. TablesOK'
  BY <1>1, <1>2 DEF Base, TablesOK
<1>4. tasks[t] \in Task /\ ShapeOf(tasks[t])
  BY <1>1 DEF Base, Shape
<1>5. CASE UNCHANGED <<tasks, ready>>
  BY <1>1, <1>2, <1>3, <1>5, KeepsTasks DEF TablesOK, Base, LoopOK
<1>6. CASE /\ tasks[t].state # "none" /\ tasks'[t].state = tasks[t].state
           /\ tasks'[t].waiting = tasks[t].waiting /\ tasks'[t].cont = tasks[t].cont
           /\ tasks'[t].goal = tasks[t].goal /\ tasks'[t].last = tasks[t].last
           /\ tasks'[t].fd = tasks[t].fd /\ ready' = ready
  <2>1. ShapeOf(tasks'[t]) /\ t < next_token
    BY <1>1, <1>4, <1>6, BaseFacts DEF ShapeOf, Base, Fresh
  <2>2. Shape' /\ Fresh'
    BY <1>1, <2>1, OneTask, BaseFacts
  <2>3. LoopOK' /\ Control'
    BY <1>1, <1>6 DEF Base, LoopOK, Control
  <2>4. Snapshot'
    BY <1>1, <1>6, BaseFacts DEF Base, Snapshot
  <2>5. RegisteredIffParked'
    BY <1>1, <1>6, SameDescriptors DEF LoopAlive
  <2>. QED BY <1>1, <1>3, <2>2, <2>3, <2>4, <2>5 DEF Base
<1>7. CASE /\ tasks[t].state \in {"timer", "offload"}
           /\ tasks'[t].state = "ready" /\ tasks'[t].waiting = 0
           /\ SameCall(tasks'[t], tasks[t]) /\ ready' = Append(ready, t)
  <2>1. ShapeOf(tasks'[t]) /\ t < next_token
    BY <1>1, <1>4, <1>7, BaseFacts DEF ShapeOf, Base, Fresh, SameCall
  <2>2. Shape' /\ Fresh'
    BY <1>1, <2>1, OneTask, BaseFacts
  <2>3. /\ ready' \in Seq(Ids) /\ Range(ready') = Range(ready) \cup {t}
        /\ IsInjective(ready')
    <3>1. t \notin Range(ready)
      BY <1>7 DEF Base, Snapshot
    <3>. QED BY <1>1, <1>7, <3>1, AppendToQueue DEF Base, LoopOK, Snapshot
  <2>4. LoopOK' /\ Control'
    BY <1>1, <2>3 DEF Base, LoopOK, Control
  <2>5. Snapshot'
    BY <1>1, <1>7, <2>3, BaseFacts DEF Base, Snapshot
  <2>6. RegisteredIffParked'
    BY <1>1, <1>7, SameDescriptors DEF LoopAlive
  <2>. QED BY <1>1, <1>3, <2>2, <2>4, <2>5, <2>6 DEF Base
<1>. QED BY <1>5, <1>6, <1>7 DEF Handles, SameCall

\* What Gather makes ready.
Awakes(t) ==
  \/ tasks[t].state = "new"
  \/ \E m \in timers : Due(m) /\ m.task = t /\ tasks[t].waiting = m.token

\* New tasks and due timers make tasks ready.
Gathers ==
  /\ lpc = "harvest"
  /\ timers' = {m \in timers : ~Due(m)}
  /\ tasks' \in [Ids -> Task]
  /\ \A t \in Ids :
       IF Awakes(t)
         THEN /\ tasks[t].state \in {"new", "timer", "offload"}
              /\ tasks'[t].state = "ready" /\ tasks'[t].waiting = 0
              /\ SameCall(tasks'[t], tasks[t])
         ELSE tasks'[t] = tasks[t]
  /\ ready' \in Seq(Ids) /\ IsInjective(ready')
  /\ \A t \in Ids : t \in Range(ready') <=> t \in Range(ready) \/ Awakes(t)
  /\ lpc' \in {"wait", "resume"} /\ (lpc' = "wait" => ready' = <<>>)
  /\ PoolStays
  /\ UNCHANGED <<offloads, boxes, next_token, stopped, cur, panic, reg, clock>>

\* That is what steps 2 to 4 of run do.
LEMMA GatherFacts ==
  ASSUME Base, Gather
  PROVE  Gathers
<1> DEFINE due   == {m \in timers : Due(m)}
           new   == {t \in Live : tasks[t].state = "new"}
           slept == {m.task : m \in {n \in due : tasks[n.task].waiting = n.token}}
<1>1. /\ lpc = "harvest" /\ timers' = timers \ due
      /\ lpc' \in {"wait", "resume"} /\ (lpc' = "wait" => ready' = <<>>)
      /\ UNCHANGED <<offloads, boxes, next_token, stopped, cur, panic, reg, clock>>
      /\ tasks' = [t \in Ids |-> IF t \in new \cup slept THEN Wakes(t)
                                                         ELSE tasks[t]]
  BY DEF Gather, helperVars, envVars
<1>2. PoolStays
  BY DEF Gather, Pool!BeginWait, Pool!Resume, Pool!history, helperVars, PoolStays
<1>3. PICK s \in SetToSeqs(new), u \in SetToSeqs(slept) : ready' = ready \o s \o u
  BY DEF Gather
<1>4. /\ \A t \in Ids : t \in new <=> tasks[t].state = "new"
      /\ \A t \in Ids : t \in slept <=>
           \E m \in timers : Due(m) /\ m.task = t /\ tasks[t].waiting = m.token
      /\ new \subseteq Ids /\ slept \subseteq Ids
  BY DEF Live, Base, TablesOK
<1>5. \A t \in Ids : tasks[t] \in Task /\ ShapeOf(tasks[t])
  BY DEF Base, Shape
<1>6. \A t \in slept : tasks[t].state \in {"timer", "offload"}
  <2> SUFFICES ASSUME NEW m \in timers, tasks[m.task].waiting = m.token
               PROVE  tasks[m.task].state \in {"timer", "offload"}
    BY <1>4
  <2>1. m.task \in Ids /\ m.token # 0
    BY BaseFacts DEF Base, TablesOK
  <2>. QED BY <1>5, <2>1, NewTask DEF ShapeOf, Task
<1>7. ASSUME NEW t \in Ids
      PROVE  /\ Wakes(t) \in Task /\ Wakes(t).state = "ready"
             /\ Wakes(t).waiting = 0 /\ SameCall(Wakes(t), tasks[t])
  BY <1>5, <1>7, WakesFacts
<1>8. tasks' \in [Ids -> Task]
  BY <1>1, <1>5, <1>7
<1>9. \A t \in Ids : Awakes(t) <=> t \in new \cup slept
  BY <1>4 DEF Awakes
<1>10. \A t \in Ids :
         IF Awakes(t)
           THEN /\ tasks[t].state \in {"new", "timer", "offload"}
                /\ tasks'[t].state = "ready" /\ tasks'[t].waiting = 0
                /\ SameCall(tasks'[t], tasks[t])
           ELSE tasks'[t] = tasks[t]
  BY <1>1, <1>4, <1>6, <1>7, <1>9
<1>11. /\ s \in Seq(Ids) /\ Range(s) = new /\ IsInjective(s)
       /\ u \in Seq(Ids) /\ Range(u) = slept /\ IsInjective(u)
  BY <1>3, <1>4, SetAsQueue, ReactorAssumption DEF Ids
<1>12. /\ ready \in Seq(Ids) /\ IsInjective(ready)
       /\ Range(ready) \cap new = {} /\ Range(ready) \cap slept = {}
       /\ new \cap slept = {}
  <2>1. \A t \in new : tasks[t].state = "new"
    OBVIOUS
  <2>. QED BY <1>6, <2>1 DEF Base, LoopOK, Snapshot
<1>13. /\ ready \o s \in Seq(Ids) /\ Range(ready \o s) = Range(ready) \cup new
       /\ IsInjective(ready \o s)
  BY <1>11, <1>12, ConcatQueues
<1>14. /\ ready' \in Seq(Ids) /\ Range(ready') = Range(ready) \cup new \cup slept
       /\ IsInjective(ready')
  <2>1. PICK q : q = ready \o s
    OBVIOUS
  <2>2. /\ q \in Seq(Ids) /\ IsInjective(q) /\ Range(q) \cap Range(u) = {}
        /\ Range(q) = Range(ready) \cup new
    BY <1>11, <1>12, <1>13, <2>1
  <2>3. ready' = q \o u
    BY <1>3, <2>1
  <2>4. /\ q \o u \in Seq(Ids) /\ Range(q \o u) = Range(q) \cup Range(u)
        /\ IsInjective(q \o u)
    BY <1>11, <2>2, ConcatQueues
  <2>. QED BY <1>11, <2>2, <2>3, <2>4, Zenon
<1>. QED BY <1>1, <1>2, <1>8, <1>9, <1>10, <1>14 DEF Gathers

\* The snapshot is filled.
LEMMA GathersBase ==
  ASSUME Base, Gathers
  PROVE  Base'
<1>1. /\ lpc = "harvest" /\ cur = 0 /\ cur' = 0 /\ lpc' \in {"wait", "resume"}
      /\ tasks' \in [Ids -> Task] /\ ready' \in Seq(Ids)
      /\ UNCHANGED <<offloads, next_token, next_post, stopped, reg, clock>>
  BY DEF Gathers, Base, Control, PoolStays
<1>2. LoopOK' /\ TablesOK'
  BY <1>1 DEF Base, LoopOK, TablesOK, Gathers
<1>3. Control'
  BY <1>1 DEF Control, Gathers
<1>4. \A t \in Ids : ShapeOf(tasks'[t])
  <2> SUFFICES ASSUME NEW t \in Ids
               PROVE  ShapeOf(tasks'[t])
    OBVIOUS
  <2>1. ShapeOf(tasks[t])
    BY DEF Base, Shape
  <2>2. CASE Awakes(t)
    BY <2>1, <2>2 DEF Gathers, ShapeOf, SameCall
  <2>3. CASE ~Awakes(t)
    BY <2>1, <2>3 DEF Gathers
  <2>. QED BY <2>2, <2>3
<1>5. Shape' /\ Fresh'
  <2>1. \A t \in Ids : tasks[t].state = "none" => tasks'[t] = tasks[t]
    BY DEF Gathers
  <2>. QED BY <1>1, <1>4, <2>1 DEF Shape, Fresh, Base
<1>6. Snapshot'
  <2>1. ASSUME NEW t \in Range(ready')
        PROVE  t \in Ids /\ tasks'[t].state = "ready"
    <3>1. t \in Ids
      BY <1>1 DEF Range
    <3>2. CASE Awakes(t)
      BY <3>1, <3>2 DEF Gathers
    <3>3. CASE ~Awakes(t)
      BY <3>1, <3>3 DEF Gathers, Base, Snapshot
    <3>. QED BY <3>1, <3>2, <3>3
  <2>. QED BY <1>1, <2>1, BaseFacts DEF Snapshot, Gathers
<1>7. RegisteredIffParked'
  <2>1. \A t \in Ids : /\ tasks'[t].state = "fd" <=> tasks[t].state = "fd"
                       /\ tasks[t].state = "fd" => tasks'[t].fd = tasks[t].fd
    BY DEF Gathers
  <2>. QED BY <1>1, <2>1, SameDescriptors DEF LoopAlive
<1>. QED BY <1>1, <1>2, <1>3, <1>5, <1>6, <1>7 DEF Base

-----------------------------------------------------------------------------
(* Base is an invariant.                                                   *)

\* The running task goes back to the loop.
Parks ==
  \/ ParksOnPost \/ Finishes
  \/ \E o \in offloads : ParksOnToken(o)
  \/ \E ms \in Sleeps : ParksOnTimer(ms)
  \/ \E n \in 1..2 : ParksOnBatch(n)
  \/ \E f \in Fds : ParksOnFd(f)

\* The running task goes on.
Runs == Continues \/ Advances \/ OffloadsJob

\* The loop makes tasks ready, or resumes one.
Wakings ==
  \/ \E t, k : Handles(t, k)
  \/ Gathers
  \/ \E f \in Fds : WaitFd(f)
  \/ ResumeNext

\* What can happen to the tasks in a step.
LEMMA StepKinds ==
  ASSUME Base, Pool!TypeOK, Pool!ExactlyOnce, [Next]_vars
  PROVE  \/ Outside \/ Passing \/ Spawns \/ Closes \/ Wakings
         \/ Runs \/ Parks \/ Dies \/ TokenDies
<1>1. CASE \/ LoopTop \/ HarvestEnds \/ PassEnds \/ CloseReturns
           \/ WaitWoken \/ WaitTimesOut \/ WaitInterrupted
           \/ TaskStartsPool \/ TaskStops \/ TaskSleepsZero
  BY <1>1 DEF Passing
<1>2. CASE MainSpawns \/ TaskSpawns \/ Close
  BY <1>2, SpawnFacts, CloseFacts
<1>3. CASE Harvest \/ Gather \/ ResumeNext \/ \E f \in Fds : WaitFd(f)
  BY <1>3, HarvestFacts, GatherFacts DEF Wakings
<1>4. CASE CallReturns \/ TokenReturns \/ PostedReturns \/ TaskOffloads
  BY <1>4, CallReturnsFacts, TokenReturnsFacts, PostedReturnsFacts,
     TaskOffloadsFacts DEF Runs, Parks
<1>5. CASE TaskFinishes
  BY <1>5, TaskFinishesFacts DEF Parks
<1>6. ASSUME NEW o \in offloads, TaskAwaits(o)
      PROVE  Runs \/ Parks
  BY <1>6, TaskAwaitsFacts DEF Runs, Parks
<1>7. ASSUME NEW ms \in Sleeps, TaskSleeps(ms)
      PROVE  Parks
  BY <1>7, TaskSleepsFacts DEF Parks
<1>8. ASSUME NEW f \in Fds, TaskParks(f)
      PROVE  Parks
  BY <1>8, TaskParksFacts DEF Parks
<1>9. ASSUME NEW n \in 1..2, TaskFetches(n)
      PROVE  Parks
  BY <1>9, TaskFetchesFacts DEF Parks
<1>10. CASE \/ \E w \in Workers : WorkerStep(w)
            \/ \E h \in Helpers : HelperStep(h)
            \/ Tick \/ (\E f \in Fds : FdReady(f)) \/ UNCHANGED vars
  BY <1>10 DEF Outside
<1>. QED
  BY <1>1, <1>2, <1>3, <1>4, <1>5, <1>6, <1>7, <1>8, <1>9, <1>10
     DEF Next, LoopStep, TaskStep

\* Only await_token dies of a wrong wakeup.
LEMMA PanicFacts ==
  ASSUME Base, [Next]_vars
  PROVE  TokenDies \/ panic' \in {panic, "finished with an offload in flight",
                                  "yielded without parking"}
<1>1. CASE LoopTop \/ HarvestEnds \/ PassEnds \/ CloseReturns
  BY <1>1 DEF LoopTop, HarvestEnds, PassEnds, CloseReturns, ctlVars
<1>2. CASE WaitWoken \/ WaitTimesOut \/ WaitInterrupted
  BY <1>2 DEF WaitWoken, WaitTimesOut, WaitInterrupted, WaitEnds
<1>3. CASE TaskStartsPool \/ TaskStops \/ TaskSleepsZero
  BY <1>3 DEF TaskStartsPool, TaskStops, TaskSleepsZero, Die, ctlVars
<1>4. CASE MainSpawns \/ TaskSpawns \/ Close
  BY <1>4, SpawnFacts, CloseFacts DEF Closes
<1>5. CASE Harvest \/ Gather \/ ResumeNext \/ \E f \in Fds : WaitFd(f)
  BY <1>5 DEF Harvest, Gather, ResumeNext, WaitFd
<1>6. CASE CallReturns \/ TokenReturns \/ PostedReturns \/ TaskOffloads
  BY <1>6, TokenReturnsFacts, PostedReturnsFacts, TaskOffloadsFacts
     DEF CallReturns, ctlVars
<1>7. CASE TaskFinishes
  BY <1>7, TaskFinishesFacts
<1>8. CASE \/ \E o \in offloads : TaskAwaits(o)
           \/ \E ms \in Sleeps : TaskSleeps(ms)
           \/ \E f \in Fds : TaskParks(f)
           \/ \E n \in 1..2 : TaskFetches(n)
  BY <1>8, TaskAwaitsFacts, TaskSleepsFacts, TaskParksFacts, TaskFetchesFacts
<1>9. CASE \/ \E w \in Workers : WorkerStep(w)
           \/ \E h \in Helpers : HelperStep(h)
           \/ Tick \/ (\E f \in Fds : FdReady(f)) \/ UNCHANGED vars
  BY <1>9 DEF WorkerStep, HelperStep, Tick, FdReady, vars, ctlVars
<1>. QED
  BY <1>1, <1>2, <1>3, <1>4, <1>5, <1>6, <1>7, <1>8, <1>9
     DEF Next, LoopStep, TaskStep

\* Base holds initially.
LEMMA InitBase == Init => Base
<1> SUFFICES ASSUME Init
             PROVE  Base
  OBVIOUS
<1>1. tasks \in [Ids -> Task] /\ \A t \in Ids : tasks[t] = NoTask
  BY NewTask DEF Init
<1>2. TablesOK /\ LoopOK
  <2>1. 1 \in 1..(MaxToken + 1) /\ 1 \in 1..(MaxPost + 1) /\ 0 \in 0..MaxTime
    BY ReactorAssumption
  <2>2. ready \in Seq(Ids)
    <3>1. <<>> \in Seq(Ids)
      OBVIOUS
    <3>. QED BY <3>1 DEF Init
  <2>3. reg \in [Fds -> Ids \cup {0}]
    BY DEF Init
  <2>. QED BY <2>1, <2>2, <2>3 DEF Init, TablesOK, LoopOK
<1>3. Control
  BY DEF Init, Control
<1>4. Shape /\ Fresh
  BY <1>1, NewTask DEF Shape, Fresh
<1>5. Snapshot
  <2>1. Range(<<>>) = {} /\ IsInjective(<<>>)
    BY DEF Range, IsInjective
  <2>. QED BY <2>1 DEF Init, Snapshot
<1>6. RegisteredIffParked
  <2>1. \A f \in Fds, t \in Ids : reg[f] # t
    <3>1. \A f \in Fds : reg[f] = 0
      BY DEF Init
    <3>. QED BY <3>1 DEF Ids
  <2>2. \A t \in Ids : tasks[t].state # "fd"
    BY <1>1, NewTask
  <2>. QED BY <2>1, <2>2 DEF RegisteredIffParked
<1>. QED BY <1>1, <1>2, <1>3, <1>4, <1>5, <1>6 DEF Base

\* And every step keeps it.
LEMMA StepBase ==
  ASSUME Base, Pool!TypeOK, Pool!ExactlyOnce, [Next]_vars
  PROVE  Base'
<1>1. CASE Wakings
  BY <1>1, HandlesBase, GathersBase, WaitFdBase, ResumeBase DEF Wakings
<1>2. CASE Runs
  BY <1>2, ContinuesBase, AdvancesBase, OffloadsJobBase DEF Runs
<1>3. CASE Parks
  BY <1>3, ParksBase, ParksOnFdBase DEF Parks
<1>4. CASE Dies \/ TokenDies
  BY <1>4, DiesBase
<1>5. CASE Spawns \/ Closes
  BY <1>5, SpawnsBase, ClosesBase
<1>6. CASE Outside \/ Passing
  BY <1>6, QuietBase
<1>. QED BY <1>1, <1>2, <1>3, <1>4, <1>5, <1>6, StepKinds

\* In every state of the loop the tasks, the snapshot, the current task and
\* the registered descriptors agree as Base says.
THEOREM BaseCorrect == Spec => []Base
<1>1. Base /\ Pool!TypeOK /\ Pool!ExactlyOnce /\ [Next]_vars => Base'
  BY StepBase
<1>. QED BY InitBase, <1>1, PoolInLoop, PTL DEF Spec

\* Tables the loop only hands on.
Handed ==
  /\ boxes \subseteq Jobs
  /\ requests \subseteq Posts
  /\ fdready \subseteq Fds
  /\ panic \in {"", "finished with an offload in flight",
                "yielded without parking", "completion lost",
                "resumed before the offload finished"}

\* Every step keeps Handed.
LEMMA StepHanded ==
  ASSUME Base, Handed, [Next]_vars
  PROVE  Handed'
<1>1. panic' \in {"", "finished with an offload in flight",
                  "yielded without parking", "completion lost",
                  "resumed before the offload finished"}
  BY PanicFacts DEF Handed, TokenDies
<1>2. CASE LoopTop \/ HarvestEnds \/ PassEnds \/ CloseReturns
  BY <1>1, <1>2 DEF LoopTop, HarvestEnds, PassEnds, CloseReturns, tableVars,
     helperVars, envVars, Handed
<1>3. CASE WaitWoken \/ WaitTimesOut \/ WaitInterrupted
  BY <1>1, <1>3 DEF WaitWoken, WaitTimesOut, WaitInterrupted, WaitEnds, tableVars,
     helperVars, envVars, Handed
<1>4. CASE TaskStartsPool \/ TaskStops \/ TaskSleepsZero
  BY <1>1, <1>4 DEF TaskStartsPool, TaskStops, TaskSleepsZero, tableVars,
     helperVars, envVars, Handed
<1>5. CASE MainSpawns \/ TaskSpawns \/ Close
  BY <1>1, <1>5 DEF MainSpawns, TaskSpawns, Close, helperVars, envVars, Handed
<1>6. CASE Harvest \/ Gather \/ ResumeNext \/ \E f \in Fds : WaitFd(f)
  BY <1>1, <1>6 DEF Harvest, Gather, ResumeNext, WaitFd, tableVars, helperVars,
     envVars, Handed
<1>7. CASE CallReturns \/ TokenReturns \/ PostedReturns
  BY <1>1, <1>7 DEF CallReturns, TokenReturns, PostedReturns, Consume, helperVars,
     envVars, Handed
<1>8. CASE TaskOffloads
  <2>1. boxes' \subseteq Jobs
    <3>1. lpc = "task" /\ next_token \in Ids
      BY <1>8, TaskOffloadsFacts DEF OffloadsJob
    <3>2. JobOf(cur, next_token) \in Jobs
      BY <3>1, CurFacts DEF JobOf, Jobs
    <3>3. boxes' = boxes \cup {JobOf(cur, next_token)}
      BY <1>8 DEF TaskOffloads, JobOf
    <3>. QED BY <3>2, <3>3 DEF Handed
  <2>. QED BY <1>1, <1>8, <2>1 DEF TaskOffloads, helperVars, envVars, Handed
<1>9. CASE TaskFinishes \/ \E o \in offloads : TaskAwaits(o)
  BY <1>1, <1>9 DEF TaskFinishes, TaskAwaits, Consume, ParkOnToken, helperVars,
     envVars, Handed
<1>10. CASE (\E ms \in Sleeps : TaskSleeps(ms)) \/ \E f \in Fds : TaskParks(f)
  BY <1>1, <1>10 DEF TaskSleeps, TaskParks, helperVars, envVars, Handed
<1>11. ASSUME NEW n \in 1..2, TaskFetches(n)
       PROVE  Handed'
  <2>1. ParksOnBatch(n)
    BY <1>11, TaskFetchesFacts
  <2>2. ASSUME NEW i \in 0..(n - 1)
        PROVE  PostOf(cur, next_post + i) \in Posts
    <3>1. next_post + i \in 1..MaxPost
      BY <2>1, BaseFacts, ReactorAssumption DEF ParksOnBatch
    <3>. QED BY <2>1, <3>1, CurFacts DEF ParksOnBatch, PostOf, Posts
  <2>3. requests' \subseteq Posts
    BY <2>1, <2>2 DEF ParksOnBatch, Handed
  <2>. QED BY <1>1, <1>11, <2>3 DEF TaskFetches, envVars, Handed
<1>12. CASE \/ \E w \in Workers : WorkerStep(w)
            \/ \E h \in Helpers : HelperStep(h)
            \/ Tick \/ (\E f \in Fds : FdReady(f)) \/ UNCHANGED vars
  BY <1>1, <1>12 DEF WorkerStep, HelperStep, Tick, FdReady, vars, tableVars,
     helperVars, envVars, Handed
<1>. QED
  BY <1>2, <1>3, <1>4, <1>5, <1>6, <1>7, <1>8, <1>9, <1>10, <1>11, <1>12
     DEF Next, LoopStep, TaskStep

\* Every variable of the loop, and every field of a task, has its type: no
\* waiting field is left negative, no token exceeds its counter.
THEOREM TypeCorrect == Spec => []TypeOK
<1>1. Init => Handed
  BY DEF Init, Handed
<1>2. Base /\ Handed /\ [Next]_vars => Handed'
  BY StepHanded
<1>3. Base /\ Pool!TypeOK /\ Handed => TypeOK
  BY DEF Base, TablesOK, LoopOK, Handed, TypeOK
<1>. QED BY <1>1, <1>2, <1>3, BaseCorrect, PoolInLoop, PTL DEF Spec

\* run never resumes a task twice in a pass, nor one that is not ready.
THEOREM SnapshotSoundCorrect == Spec => []SnapshotSound
<1>1. Base => SnapshotSound
  BY DEF Base, Snapshot, SnapshotSound
<1>. QED BY <1>1, BaseCorrect, PTL

\* A descriptor is registered exactly while the task registered for it is
\* parked on it, so park_read never meets the registration of an ended wait.
THEOREM RegisteredIffParkedCorrect == Spec => []RegisteredIffParked
<1>1. Base => RegisteredIffParked
  BY DEF Base
<1>. QED BY <1>1, BaseCorrect, PTL

-----------------------------------------------------------------------------
(* Tokens are fresh.                                                       *)

\* Completions are told apart by origin, task and token.
LEMMA CompletionsDiffer ==
  /\ \A t, k, u, l : JobOf(t, k) = JobOf(u, l) => t = u /\ k = l
  /\ \A t, k, u, l : PostOf(t, k) = PostOf(u, l) => t = u /\ k = l
  /\ \A t, k, u, l : JobOf(t, k) # PostOf(u, l)
  BY DEF JobOf, PostOf

\* Nothing is offloaded, fetched or taken.
LedgerStays ==
  /\ taken' = taken /\ next_post' = next_post
  /\ \A t, k : JobOf(t, k) \in used' <=> JobOf(t, k) \in used
  /\ requests' \cup used' = requests \cup used
  /\ requests \cap used = {} => requests' \cap used' = {}

\* Steps that leave the tasks alone take nothing and number nothing.
LEMMA QuietLedger ==
  ASSUME Handed, Outside \/ Passing
  PROVE  LedgerStays
<1>1. CASE \E h \in Helpers : HelperStep(h)
  <2>1. PICK h \in Helpers :
          \/ \E p \in requests : Pool!HelperPosts(h, p) /\ requests' = requests \ {p}
          \/ Pool!HelperWakes(h) /\ UNCHANGED requests
    BY <1>1 DEF HelperStep
  <2>2. next_post' = next_post
    BY <1>1 DEF HelperStep
  <2>3. CASE Pool!HelperWakes(h) /\ UNCHANGED requests
    BY <2>2, <2>3 DEF Pool!HelperWakes, Pool!history, LedgerStays
  <2>4. ASSUME NEW p \in requests, Pool!HelperPosts(h, p), requests' = requests \ {p}
        PROVE  LedgerStays
    <3>1. used' = used \cup {p} /\ taken' = taken
      BY <2>4 DEF Pool!HelperPosts
    <3>2. p \in Posts
      BY DEF Handed
    <3>3. \A t, k : JobOf(t, k) # p
      BY <3>2, CompletionsDiffer DEF PostOf, Posts
    <3>. QED BY <2>2, <2>4, <3>1, <3>3 DEF LedgerStays
  <2>. QED BY <2>1, <2>3, <2>4
<1>2. CASE \E w \in Workers : WorkerStep(w)
  BY <1>2 DEF WorkerStep, helperVars, LedgerStays,
     Pool!WorkerStep, Pool!SpuriousWakeup, Pool!WorkerSleeps, Pool!WorkerExits,
     Pool!WorkerPops, Pool!WorkerPosts, Pool!WorkerWakes, Pool!WorkerSettles,
     Pool!history
<1>3. CASE Tick \/ (\E f \in Fds : FdReady(f)) \/ UNCHANGED vars
  BY <1>3 DEF Tick, FdReady, vars, helperVars, poolVars, LedgerStays
<1>4. CASE LoopTop \/ HarvestEnds \/ PassEnds \/ CloseReturns
  BY <1>4 DEF LoopTop, HarvestEnds, PassEnds, CloseReturns, helperVars, poolVars,
     LedgerStays, Pool!BeginHarvest, Pool!TakeNone, Pool!JoinAndFree, Pool!history
<1>5. CASE WaitWoken \/ WaitTimesOut \/ WaitInterrupted
  BY <1>5 DEF WaitWoken, WaitTimesOut, WaitInterrupted, WaitEnds, helperVars,
     LedgerStays, Pool!DrainWake, Pool!WaitReturns, Pool!history
<1>6. CASE TaskStartsPool \/ TaskStops \/ TaskSleepsZero
  BY <1>6 DEF TaskStartsPool, TaskStops, TaskSleepsZero, helperVars, poolVars,
     LedgerStays, Pool!PoolStart, Pool!history
<1>. QED BY <1>1, <1>2, <1>3, <1>4, <1>5, <1>6 DEF Outside, Passing

\* A special case.
LEMMA PoolStaysLedger ==
  ASSUME PoolStays
  PROVE  LedgerStays
  BY DEF PoolStays, LedgerStays

\* Every timer and offload has a token of its own, handed out before.
Numbered ==
  /\ \A m \in timers : m.token < next_token
  /\ \A m, n \in timers : m.token = n.token => m = n
  /\ \A t, k \in Ids : JobOf(t, k) \in used => k < next_token
  /\ \A m \in timers, t \in Ids : JobOf(t, m.token) \notin used
  /\ \A o \in offloads : JobOf(o.task, o.token) \in used

\* A request has a number its counter has handed out, and is posted once.
PostsNumbered ==
  /\ \A t \in Ids, k \in 1..MaxPost :
       PostOf(t, k) \in requests \cup used => k < next_post
  /\ requests \cap used = {}

\* Steps that number nothing keep Numbered.
LEMMA NumberedKept ==
  ASSUME Base, Base', Numbered, next_token <= next_token', timers' \subseteq timers,
         \A t, k \in Ids : JobOf(t, k) \in used' <=> JobOf(t, k) \in used,
         \A o \in offloads' : \E p \in offloads :
           o.task = p.task /\ o.token = p.token
  PROVE  Numbered'
<1>1. /\ \A m \in timers : m.token \in Ids /\ m.token \in Nat
      /\ \A o \in offloads : o.task \in Ids /\ o.token \in Ids
      /\ next_token \in Nat /\ next_token' \in Nat /\ Ids \subseteq Nat
  BY BaseFacts, ReactorAssumption DEF Base, TablesOK
<1>2. \A o \in offloads' : JobOf(o.task, o.token) \in used'
  BY <1>1 DEF Numbered
<1>3. \A m \in timers' : /\ m.token < next_token'
                         /\ \A t \in Ids : JobOf(t, m.token) \notin used'
  BY <1>1 DEF Numbered
<1>4. \A t, k \in Ids : JobOf(t, k) \in used' => k < next_token'
  BY <1>1 DEF Numbered
<1>. QED BY <1>2, <1>3, <1>4 DEF Numbered

\* Steps that hand nothing to the helper keep PostsNumbered.
LEMMA PostsNumberedKept ==
  ASSUME PostsNumbered, LedgerStays
  PROVE  PostsNumbered'
  BY DEF PostsNumbered, LedgerStays

\* Steps after which every offload is an earlier one.
LEMMA StepLedger ==
  ASSUME Base, Handed, Pool!TypeOK, Pool!ExactlyOnce, [Next]_vars
  PROVE  \/ /\ LedgerStays /\ next_token' \in {next_token, next_token + 1}
            /\ timers' \subseteq timers
            /\ \A o \in offloads' : \E p \in offloads :
                 o.task = p.task /\ o.token = p.token
         \/ OffloadsJob
         \/ \E ms \in Sleeps : ParksOnTimer(ms)
         \/ \E n \in 1..2 : ParksOnBatch(n)
         \/ \E t, k : Handles(t, k)
<1>1. CASE Outside \/ Passing
  BY <1>1, QuietLedger, QuietFacts
<1>2. CASE Spawns \/ Closes
  BY <1>2, PoolStaysLedger DEF Spawns, Closes
<1>3. CASE Gathers
  BY <1>3, PoolStaysLedger DEF Gathers
<1>4. ASSUME NEW f \in Fds, WaitFd(f)
      PROVE  LedgerStays /\ UNCHANGED <<timers, next_token, offloads>>
  BY <1>4, WaitFdFacts, PoolStaysLedger
<1>5. CASE ResumeNext
  <2>1. PoolStays /\ UNCHANGED <<timers, next_token, offloads>>
    BY <1>5 DEF ResumeNext, poolVars, tableVars, helperVars, PoolStays
  <2>. QED BY <2>1, PoolStaysLedger
<1>6. CASE Continues \/ Advances
  BY <1>6, PoolStaysLedger DEF Continues, Advances
<1>7. CASE ParksOnPost \/ Finishes
  BY <1>7, PoolStaysLedger DEF ParksOnPost, Finishes
<1>8. CASE (\E o \in offloads : ParksOnToken(o)) \/ \E f \in Fds : ParksOnFd(f)
  BY <1>8, PoolStaysLedger DEF ParksOnToken, ParksOnFd
<1>9. CASE Dies \/ TokenDies
  BY <1>9, PoolStaysLedger DEF Dies, TokenDies
<1>. QED
  BY <1>1, <1>2, <1>3, <1>4, <1>5, <1>6, <1>7, <1>8, <1>9, StepKinds
     DEF Wakings, Runs, Parks

\* Every step keeps Numbered.
LEMMA StepNumbered ==
  ASSUME Base, Base', Handed, Pool!TypeOK, Pool!ExactlyOnce, [Next]_vars, Numbered
  PROVE  Numbered'
<1>1. CASE /\ LedgerStays /\ next_token' \in {next_token, next_token + 1}
           /\ timers' \subseteq timers
           /\ \A o \in offloads' : \E p \in offloads :
                o.task = p.task /\ o.token = p.token
  BY <1>1, NumberedKept, BaseFacts DEF LedgerStays
<1>2. CASE OffloadsJob
  <2>1. /\ cur \in Ids /\ next_token \in Ids /\ next_token' = next_token + 1
        /\ used' = used \cup {JobOf(cur, next_token)} /\ timers' = timers
    BY <1>2, CurFacts DEF OffloadsJob
  <2>2. /\ \A m \in timers : m.token \in Ids /\ m.token \in Nat
        /\ next_token \in Nat /\ Ids \subseteq Nat
    BY BaseFacts DEF Base, TablesOK
  <2>3. \A o \in offloads' : JobOf(o.task, o.token) \in used'
    BY <1>2 DEF OffloadsJob, Numbered
  <2>4. \A m \in timers, t \in Ids : JobOf(t, m.token) \notin used'
    BY <2>1, <2>2, CompletionsDiffer DEF Numbered
  <2>5. \A t, k \in Ids : JobOf(t, k) \in used' => k < next_token'
    BY <2>1, <2>2, CompletionsDiffer DEF Numbered
  <2>6. \A m \in timers : m.token < next_token'
    BY <2>1, <2>2 DEF Numbered
  <2>. QED BY <2>1, <2>3, <2>4, <2>5, <2>6 DEF Numbered
<1>3. ASSUME NEW ms \in Sleeps, ParksOnTimer(ms)
      PROVE  Numbered'
  <2> DEFINE mine == [token |-> next_token, task |-> cur, deadline |-> ToInt(Now + ms)]
  <2>1. /\ timers' = timers \cup {mine} /\ next_token' = next_token + 1
        /\ offloads' = offloads /\ used' = used /\ next_token \in Ids
    BY <1>3 DEF ParksOnTimer, PoolStays
  <2>2. /\ \A m \in timers : m.token \in Ids /\ m.token \in Nat
        /\ next_token \in Nat /\ Ids \subseteq Nat /\ mine.token = next_token
    BY BaseFacts DEF Base, TablesOK
  <2>3. \A m \in timers' : m.token < next_token'
    BY <2>1, <2>2 DEF Numbered
  <2>4. \A m, n \in timers' : m.token = n.token => m = n
    BY <2>1, <2>2 DEF Numbered
  <2>5. \A m \in timers', t \in Ids : JobOf(t, m.token) \notin used'
    BY <2>1, <2>2 DEF Numbered
  <2>6. \A t, k \in Ids : JobOf(t, k) \in used' => k < next_token'
    BY <2>1, <2>2 DEF Numbered
  <2>. QED BY <2>1, <2>3, <2>4, <2>5, <2>6 DEF Numbered
<1>4. ASSUME NEW n \in 1..2, ParksOnBatch(n)
      PROVE  Numbered'
  BY <1>4, NumberedKept, BaseFacts DEF ParksOnBatch
<1>5. ASSUME NEW t, NEW k, Handles(t, k)
      PROVE  Numbered'
  BY <1>5, NumberedKept, BaseFacts DEF Handles
<1>. QED BY <1>1, <1>2, <1>3, <1>4, <1>5, StepLedger

\* Every step keeps PostsNumbered.
LEMMA StepPostsNumbered ==
  ASSUME Base, Handed, Pool!TypeOK, Pool!ExactlyOnce, [Next]_vars, PostsNumbered
  PROVE  PostsNumbered'
<1>1. CASE OffloadsJob
  <2>1. /\ used' = used \cup {JobOf(cur, next_token)}
        /\ UNCHANGED <<requests, next_post>>
        /\ cur \in Ids /\ next_token \in Ids
    BY <1>1, CurFacts DEF OffloadsJob
  <2>2. JobOf(cur, next_token) \notin requests
    BY <2>1, JobsPostsApart DEF Handed, JobOf, Jobs
  <2>. QED BY <2>1, <2>2, CompletionsDiffer DEF PostsNumbered
<1>2. ASSUME NEW n \in 1..2, ParksOnBatch(n)
      PROVE  PostsNumbered'
  <2> DEFINE batch == {PostOf(cur, next_post + i) : i \in 0..(n - 1)}
  <2>1. /\ requests' = requests \cup batch /\ next_post' = next_post + n
        /\ used' = used /\ cur \in Ids /\ next_post + n - 1 \in 1..MaxPost
        /\ next_post \in Nat \ {0}
    BY <1>2, CurFacts, BaseFacts DEF ParksOnBatch
  <2>2. \A t \in Ids, k \in 1..MaxPost :
          PostOf(t, k) \in batch => k >= next_post /\ k < next_post + n
    BY <2>1, CompletionsDiffer
  <2>3. batch \cap used = {}
    <3>1. ASSUME NEW i \in 0..(n - 1)
          PROVE  PostOf(cur, next_post + i) \notin used
      <4>1. next_post + i \in 1..MaxPost /\ ~(next_post + i < next_post)
        BY <2>1, ReactorAssumption
      <4>. QED BY <2>1, <4>1 DEF PostsNumbered
    <3>. QED BY <3>1
  <2>4. ASSUME NEW t \in Ids, NEW k \in 1..MaxPost,
               PostOf(t, k) \in requests' \cup used'
        PROVE  k < next_post'
    <3>1. k \in Nat
      OBVIOUS
    <3>. QED BY <2>1, <2>2, <2>4, <3>1 DEF PostsNumbered
  <2>. QED BY <2>1, <2>3, <2>4 DEF PostsNumbered
<1>3. ASSUME NEW ms \in Sleeps, ParksOnTimer(ms)
      PROVE  PostsNumbered'
  BY <1>3, PoolStaysLedger, PostsNumberedKept DEF ParksOnTimer
<1>4. ASSUME NEW t, NEW k, Handles(t, k)
      PROVE  PostsNumbered'
  BY <1>4 DEF Handles, PostsNumbered
<1>. QED BY <1>1, <1>2, <1>3, <1>4, StepLedger, PostsNumberedKept

\* next_token and the dispatcher's counter never hand out a number that is in
\* use: no two timers share a token, no timer shares one with an offload, and
\* every entry of the jobs table is of a job that was submitted.
THEOREM NumberedCorrect == Spec => [](Handed /\ Numbered /\ PostsNumbered)
<1>1. Init => Handed /\ Numbered /\ PostsNumbered
  BY DEF Init, Pool!Init, Handed, Numbered, PostsNumbered
<1>2. Base /\ Base' /\ Pool!TypeOK /\ Pool!ExactlyOnce
        /\ (Handed /\ Numbered /\ PostsNumbered) /\ [Next]_vars
      => (Handed /\ Numbered /\ PostsNumbered)'
  BY StepHanded, StepNumbered, StepPostsNumbered
<1>. QED BY <1>1, <1>2, BaseCorrect, PoolInLoop, PTL DEF Spec

-----------------------------------------------------------------------------
(* The helper.                                                             *)

\* The pool is open while a task runs.
THEOREM OpenInLoop == Spec => [](closing <=> opc \in {"join", "freed"})
<1>1. PoolProofs!Phases => (closing <=> opc \in {"join", "freed"})
  BY DEF PoolProofs!Phases
<1>. QED
  BY PoolRuns, SamePool, PoolAssumed, PoolProofs!PhasesCorrect, <1>1, PTL

\* The contract of the helper thread, over the variables of the loop.
Helper == INSTANCE RequestService WITH
  Requests <- Posts,
  open     <- requests,
  posted   <- used \cap Posts,
  closed   <- closing

\* Steps that do not concern the helper.
HelperStays ==
  UNCHANGED <<requests, used \cap Posts, closing>>

\* Every step is a step of the service the helper promises, or none of its own.
LEMMA StepHelper ==
  ASSUME Base, Handed, PostsNumbered, closing <=> opc \in {"join", "freed"},
         [Next]_vars
  PROVE  [Helper!Next]_(Helper!rvars)
<1>. SUFFICES Helper!Next \/ HelperStays
  BY DEF HelperStays, Helper!rvars
<1>1. CASE LoopTop \/ HarvestEnds \/ PassEnds \/ CloseReturns
  BY <1>1 DEF LoopTop, HarvestEnds, PassEnds, CloseReturns, helperVars, poolVars,
     HelperStays, Pool!BeginHarvest, Pool!TakeNone, Pool!JoinAndFree,
     Pool!history, Pool!poolVars
<1>2. CASE WaitWoken \/ WaitTimesOut \/ WaitInterrupted \/ \E f \in Fds : WaitFd(f)
  BY <1>2 DEF WaitWoken, WaitTimesOut, WaitInterrupted, WaitEnds, WaitFd,
     helperVars, HelperStays, Pool!DrainWake, Pool!WaitReturns, Pool!history,
     Pool!poolVars
<1>3. CASE TaskStartsPool \/ TaskStops \/ TaskSleepsZero \/ TaskSpawns \/ MainSpawns
  BY <1>3 DEF TaskStartsPool, TaskStops, TaskSleepsZero, TaskSpawns, MainSpawns,
     helperVars, poolVars, HelperStays, Pool!PoolStart, Pool!history
<1>4. CASE Harvest \/ Gather \/ ResumeNext
  BY <1>4 DEF Harvest, Gather, ResumeNext, helperVars, poolVars, HelperStays,
     Pool!Take, Pool!BeginWait, Pool!Resume, Pool!history, Pool!poolVars
<1>5. CASE CallReturns \/ TokenReturns \/ PostedReturns \/ TaskFinishes
  BY <1>5 DEF CallReturns, TokenReturns, PostedReturns, TaskFinishes, helperVars,
     poolVars, HelperStays
<1>6. CASE TaskOffloads
  <2>1. /\ used' = used \cup {JobOf(cur, next_token)} /\ cur \in Ids
        /\ next_token \in Ids
    BY <1>6, TaskOffloadsFacts, CurFacts DEF OffloadsJob
  <2>2. JobOf(cur, next_token) \notin Posts
    BY <2>1, JobsPostsApart DEF JobOf, Jobs
  <2>3. closing' = closing /\ requests' = requests
    BY <1>6 DEF TaskOffloads, Pool!Offload, helperVars
  <2>. QED BY <2>1, <2>2, <2>3 DEF HelperStays
<1>7. CASE \/ \E o \in offloads : TaskAwaits(o)
           \/ \E ms \in Sleeps : TaskSleeps(ms)
           \/ \E f \in Fds : TaskParks(f)
  BY <1>7 DEF TaskAwaits, TaskSleeps, TaskParks, helperVars, poolVars, HelperStays
<1>8. ASSUME NEW n \in 1..2, TaskFetches(n)
      PROVE  Helper!Next
  <2> DEFINE batch == {PostOf(cur, next_post + i) : i \in 0..(n - 1)}
  <2>1. /\ requests' = requests \cup batch /\ cur \in Ids
        /\ next_post + n - 1 \in 1..MaxPost /\ next_post \in Nat \ {0}
        /\ used' = used
    BY <1>8, TaskFetchesFacts, CurFacts, BaseFacts DEF ParksOnBatch
  <2>2. closing' = closing /\ ~closing
    BY <1>8 DEF TaskFetches, Running, poolVars
  <2>3. ASSUME NEW i \in 0..(n - 1)
        PROVE  /\ PostOf(cur, next_post + i) \in Posts
               /\ PostOf(cur, next_post + i) \notin requests \cup used
    <3>1. next_post + i \in 1..MaxPost /\ ~(next_post + i < next_post)
      BY <2>1, ReactorAssumption
    <3>2. PostOf(cur, next_post + i) \notin requests \cup used
      BY <2>1, <3>1 DEF PostsNumbered
    <3>3. PostOf(cur, next_post + i) \in Posts
      BY <2>1, <3>1 DEF PostOf, Posts
    <3>. QED BY <3>2, <3>3
  <2>4. /\ batch \in SUBSET Posts
        /\ batch \cap (requests \cup (used \cap Posts)) = {}
    BY <2>3
  <2>5. Helper!Hand(batch)
    BY <2>1, <2>2, <2>4 DEF Helper!Hand
  <2>. QED BY <2>4, <2>5 DEF Helper!Next
<1>9. CASE Close
  BY <1>9 DEF Close, Pool!BeginFree, Pool!history, helperVars, Helper!Next,
     Helper!Close
<1>10. ASSUME NEW h \in Helpers, HelperStep(h)
       PROVE  Helper!Next \/ HelperStays
  <2>1. CASE Pool!HelperWakes(h) /\ UNCHANGED requests
    BY <2>1 DEF Pool!HelperWakes, Pool!history, Pool!poolVars, HelperStays
  <2>2. ASSUME NEW p \in requests, Pool!HelperPosts(h, p), requests' = requests \ {p}
        PROVE  Helper!Next
    <3>1. /\ used' = used \cup {p} /\ ~closing /\ closing' = closing /\ p \in Posts
      BY <2>2 DEF Pool!HelperPosts, Pool!poolVars, Handed
    <3>2. Helper!Post(p)
      BY <2>2, <3>1 DEF Helper!Post
    <3>. QED BY <3>1, <3>2 DEF Helper!Next
  <2>. QED BY <1>10, <2>1, <2>2 DEF HelperStep
<1>11. ASSUME NEW w \in Workers, WorkerStep(w)
       PROVE  HelperStays
  BY <1>11 DEF WorkerStep, helperVars, HelperStays,
     Pool!WorkerStep, Pool!SpuriousWakeup, Pool!WorkerSleeps, Pool!WorkerExits,
     Pool!WorkerPops, Pool!WorkerPosts, Pool!WorkerWakes, Pool!WorkerSettles,
     Pool!history
<1>12. CASE Tick \/ (\E f \in Fds : FdReady(f)) \/ UNCHANGED vars
  BY <1>12 DEF Tick, FdReady, vars, helperVars, poolVars, HelperStays
<1>. QED
  BY <1>1, <1>2, <1>3, <1>4, <1>5, <1>6, <1>7, <1>8, <1>9, <1>10, <1>11, <1>12
     DEF Next, LoopStep, TaskStep

\* The helper of the loop has the interface the dispatcher is proved to
\* implement: the two modules speak of the same requests.
LEMMA HelperRuns == Spec => Helper!Spec
<1>1. Init => Helper!Init
  BY DEF Init, Pool!Init, Helper!Init
<1>2. /\ Base /\ Handed /\ PostsNumbered
      /\ (closing <=> opc \in {"join", "freed"})
      /\ [Next]_vars
      => [Helper!Next]_(Helper!rvars)
  BY StepHelper
<1>. QED
  BY <1>1, <1>2, BaseCorrect, NumberedCorrect, OpenInLoop, PTL
     DEF Spec, Helper!Spec

-----------------------------------------------------------------------------
(* What a task waits for.                                                  *)

\* A job is on its way; a request is on its way.
JobOut(t, k)  == JobOf(t, k) \in used \ taken
PostOut(t, k) == PostOf(t, k) \in (requests \cup used) \ taken

\* The two counters have not met: no task has an offload in the jobs table and
\* an open request of the same number.  The code sees task and number only.
Apart ==
  LoopAlive => \A t \in Ids, k \in 1..MaxPost : ~(Entry(t, k) /\ PostOut(t, k))

\* A task has a timer exactly while it sleeps.
TimerPaired(t) ==
  /\ \A m \in timers : m.task = t =>
       /\ tasks[t].state = "timer"
       /\ tasks[t].waiting = m.token /\ tasks[t].since <= clock
       /\ m.deadline = ToInt(Uptime + tasks[t].goal)
  /\ tasks[t].state = "timer" =>
       \E m \in timers : m.task = t /\ m.token = tasks[t].waiting

\* The jobs table has every offload not taken, and what await_token looks for.
EntriesPaired(t) ==
  /\ \A o \in offloads : o.task = t => (o.done <=> JobOf(t, o.token) \in taken)
  /\ \A k \in Ids : JobOut(t, k) => Entry(t, k)
  /\ tasks[t].cont = "token" => Entry(t, tasks[t].goal)

\* The open requests of a task are the rest of the batch it awaits.
BatchPaired(t) ==
  /\ \A k \in 1..MaxPost : PostOut(t, k) =>
       tasks[t].cont = "posted" /\ tasks[t].goal <= k /\ k <= tasks[t].last
  /\ tasks[t].cont = "posted" =>
       \A k \in (tasks[t].goal + 1)..tasks[t].last :
         PostOut(t, k) \/ k \in tasks[t].posted
  /\ \A k \in tasks[t].posted : PostOf(t, k) \in taken

\* The time a sleep was for is over, or the counter ran over during the sleep.
Slept(me) == me.goal <= clock \/ Laps(me.since) # Laps(me.goal)

\* A task is ready only when what it waits for has happened, and parked on a
\* completion only while it is on its way.
ReasonPaired(t) ==
  /\ tasks[t].state = "ready" =>
       /\ tasks[t].cont = "token" => JobOf(t, tasks[t].goal) \in taken
       /\ tasks[t].cont = "posted" => PostOf(t, tasks[t].goal) \in taken
       /\ tasks[t].cont = "slept" => Slept(tasks[t])
  /\ tasks[t].state = "offload" =>
       /\ tasks[t].cont = "token" => JobOut(t, tasks[t].goal)
       /\ tasks[t].cont = "posted" => PostOut(t, tasks[t].goal)

\* All of it, for one task.
Paired(t) ==
  TimerPaired(t) /\ EntriesPaired(t) /\ BatchPaired(t) /\ ReasonPaired(t)

\* What the proofs below take for granted.
Sound == /\ Base /\ Handed /\ Numbered /\ PostsNumbered
         /\ taken \subseteq used /\ LoopAlive

\* Nothing of t changes.
SameFor(t) ==
  /\ tasks'[t] = tasks[t]
  /\ \A m \in timers' : m.task = t => m \in timers
  /\ \A m \in timers : m.task = t => m \in timers'
  /\ \A o \in offloads' : o.task = t =>
       \E p \in offloads : p.task = t /\ p.token = o.token /\ (p.done <=> o.done)
  /\ \A p \in offloads : p.task = t =>
       \E o \in offloads' : o.task = t /\ o.token = p.token
  /\ \A k : /\ JobOf(t, k) \in used' <=> JobOf(t, k) \in used
            /\ JobOf(t, k) \in taken' <=> JobOf(t, k) \in taken
            /\ PostOf(t, k) \in requests' \cup used'
                 <=> PostOf(t, k) \in requests \cup used
            /\ PostOf(t, k) \in taken' <=> PostOf(t, k) \in taken
  /\ clock' = clock \/ clock' = clock + 1

\* A task no step touched is still paired.
LEMMA SamePaired ==
  ASSUME Sound, NEW t \in Ids, SameFor(t), Paired(t)
  PROVE  Paired(t)'
<1>6. tasks[t].goal \in Nat /\ tasks[t].since \in Nat /\ clock \in Nat
  BY BaseFacts, ReactorAssumption DEF Sound, Task
<1>1. TimerPaired(t)'
  BY <1>6 DEF Paired, TimerPaired, SameFor
<1>2. \A k : /\ JobOut(t, k)' <=> JobOut(t, k)
             /\ PostOut(t, k)' <=> PostOut(t, k)
             /\ Entry(t, k) => Entry(t, k)'
  BY DEF SameFor, JobOut, PostOut, Entry
<1>3. EntriesPaired(t)'
  <2>1. \A o \in offloads' : o.task = t => (o.done <=> JobOf(t, o.token) \in taken')
    BY DEF Paired, EntriesPaired, SameFor
  <2>. QED BY <1>2, <2>1 DEF Paired, EntriesPaired, SameFor
<1>4. BatchPaired(t)'
  BY <1>2 DEF Paired, BatchPaired, SameFor
<1>5. ReasonPaired(t)'
  BY <1>2, <1>6 DEF Paired, ReasonPaired, SameFor, Slept
<1>. QED BY <1>1, <1>3, <1>4, <1>5 DEF Paired

\* A way to see that a step does not touch t.
LEMMA Untouched ==
  ASSUME NEW t, tasks'[t] = tasks[t], UNCHANGED <<timers, offloads>>, LedgerStays,
         clock' = clock \/ clock' = clock + 1
  PROVE  SameFor(t)
  BY DEF SameFor, LedgerStays

\* The task changes, the tables do not.
LEMMA OnlyTask ==
  ASSUME Sound, NEW t \in Ids, Paired(t), tasks[t].state # "timer",
         tasks'[t].state # "timer", tasks'[t].cont # "token",
         UNCHANGED <<timers, offloads>>, LedgerStays
  PROVE  TimerPaired(t)' /\ EntriesPaired(t)'
<1>1. TimerPaired(t)'
  BY DEF Paired, TimerPaired
<1>2. EntriesPaired(t)'
  BY DEF Paired, EntriesPaired, JobOut, Entry, LedgerStays
<1>. QED BY <1>1, <1>2

\* Steps that leave the tasks alone.
LEMMA QuietPaired ==
  ASSUME Sound, \A t \in Ids : Paired(t), Outside \/ Passing \/ ResumeNext
  PROVE  \A t \in Ids : Paired(t)'
<1>1. CASE Outside \/ Passing
  BY <1>1, QuietFacts, QuietLedger, Untouched, SamePaired DEF Sound
<1>2. CASE ResumeNext
  <2>1. PoolStays /\ UNCHANGED <<tasks, timers, offloads, clock>>
    BY <1>2 DEF ResumeNext, poolVars, tableVars, helperVars, envVars, PoolStays
  <2>. QED BY <2>1, PoolStaysLedger, Untouched, SamePaired
<1>. QED BY <1>1, <1>2

\* A new task waits for nothing, and nothing comes for it.
LEMMA SpawnsPaired ==
  ASSUME Sound, \A t \in Ids : Paired(t), Spawns
  PROVE  \A t \in Ids : Paired(t)'
<1>0. PICK i : i = next_token
  OBVIOUS
<1>1. /\ LedgerStays /\ i \in Ids /\ UNCHANGED <<timers, offloads, clock>>
      /\ \A t \in Ids \ {i} : tasks'[t] = tasks[t]
      /\ tasks'[i].state = "new" /\ tasks'[i].cont = "start"
      /\ tasks'[i].posted = {}
      /\ tasks[i] = NoTask
  BY <1>0, PoolStaysLedger DEF Spawns, LoopStays, Sound, Base, Shape, ShapeOf
<1>2. ASSUME NEW t \in Ids \ {i}
      PROVE  Paired(t)'
  BY <1>1, <1>2, Untouched, SamePaired
<1>3. TimerPaired(i)' /\ EntriesPaired(i)'
  BY <1>1, NewTask, OnlyTask
<1>4. BatchPaired(i)'
  BY <1>1, NewTask DEF Paired, BatchPaired, PostOut, LedgerStays
<1>5. ReasonPaired(i)'
  BY <1>1 DEF ReasonPaired
<1>. QED BY <1>2, <1>3, <1>4, <1>5 DEF Paired

\* A descriptor wakes the task parked on it.
LEMMA WaitFdPaired ==
  ASSUME Sound, \A t \in Ids : Paired(t), NEW f \in Fds, WaitFd(f)
  PROVE  \A t \in Ids : Paired(t)'
<1>0. PICK i : i = reg[f]
  OBVIOUS
<1>1. /\ i \in Ids /\ tasks[i].state = "fd"
      /\ \A t \in Ids \ {i} : tasks'[t] = tasks[t]
      /\ tasks'[i].state = "ready" /\ tasks'[i].cont = "io"
      /\ tasks'[i].posted = tasks[i].posted
      /\ LedgerStays /\ UNCHANGED <<timers, offloads, clock>>
  BY <1>0, WaitFdFacts, PoolStaysLedger DEF Sound
<1>2. ASSUME NEW t \in Ids \ {i}
      PROVE  Paired(t)'
  BY <1>1, <1>2, Untouched, SamePaired
<1>3. TimerPaired(i)' /\ EntriesPaired(i)'
  BY <1>1, OnlyTask
<1>4. tasks[i].cont = "io"
  BY <1>1 DEF Sound, Base, Shape, ShapeOf
<1>5. BatchPaired(i)'
  BY <1>1, <1>4 DEF Paired, BatchPaired, PostOut, LedgerStays
<1>6. ReasonPaired(i)'
  BY <1>1 DEF ReasonPaired
<1>. QED BY <1>1, <1>2, <1>3, <1>5, <1>6 DEF Paired

\* A timer that is due wakes the task that sleeps, and goes.
LEMMA GathersPaired ==
  ASSUME Sound, \A t \in Ids : Paired(t), Gathers
  PROVE  \A t \in Ids : Paired(t)'
<1> SUFFICES ASSUME NEW t \in Ids
             PROVE  Paired(t)'
  OBVIOUS
<1>1. /\ LedgerStays /\ UNCHANGED <<offloads, clock>>
      /\ timers' = {m \in timers : ~Due(m)}
  BY PoolStaysLedger DEF Gathers
<1>2. /\ tasks[t].goal \in Nat /\ tasks[t].since \in Nat
      /\ clock \in Nat /\ Uptime \in Nat
  BY BaseFacts, ReactorAssumption DEF Sound, Task
<1>3. CASE Awakes(t)
  <2>1. /\ tasks'[t].state = "ready" /\ tasks'[t].cont = tasks[t].cont
        /\ tasks'[t].goal = tasks[t].goal /\ tasks'[t].last = tasks[t].last
        /\ tasks'[t].posted = tasks[t].posted /\ tasks'[t].since = tasks[t].since
    BY <1>3 DEF Gathers, SameCall
  <2>2. \/ tasks[t].state = "new"
        \/ /\ tasks[t].state = "timer" /\ Slept(tasks[t])
           /\ \E m \in timers : Due(m) /\ m.task = t /\ tasks[t].waiting = m.token
    <3>1. ASSUME NEW m \in timers, Due(m), m.task = t
          PROVE  tasks[t].state = "timer" /\ Slept(tasks[t])
      <4>1. /\ tasks[t].state = "timer" /\ tasks[t].since <= clock
            /\ ToInt(Uptime + tasks[t].goal) <= ToInt(Uptime + clock)
        BY <3>1 DEF Paired, TimerPaired, Due, Now
      <4>. QED BY <1>2, <4>1, DueInTime DEF Slept
    <3>. QED BY <1>3, <3>1 DEF Awakes
  <2>3. ShapeOf(tasks[t])
    BY DEF Sound, Base, Shape
  <2>4. tasks[t].cont \in {"start", "slept"}
    BY <2>2, <2>3 DEF ShapeOf
  <2>5. \A m \in timers' : m.task # t
    <3>1. ASSUME NEW m \in timers, m.task = t, ~Due(m)
          PROVE  FALSE
      <4>1. tasks[t].state = "timer" /\ tasks[t].waiting = m.token
        BY <3>1 DEF Paired, TimerPaired
      <4>2. PICK n \in timers : Due(n) /\ tasks[t].waiting = n.token
        BY <2>2, <4>1
      <4>3. m = n
        BY <4>1, <4>2 DEF Sound, Numbered
      <4>. QED BY <3>1, <4>2, <4>3
    <3>. QED BY <1>1, <3>1
  <2>6. TimerPaired(t)'
    BY <2>1, <2>5 DEF TimerPaired
  <2>7. EntriesPaired(t)' /\ BatchPaired(t)'
    BY <1>1, <2>1, <2>4 DEF Paired, EntriesPaired, BatchPaired, JobOut, PostOut,
       Entry, LedgerStays
  <2>8. ReasonPaired(t)'
    BY <1>1, <2>1, <2>2, <2>3, <2>4 DEF ReasonPaired, ShapeOf, Slept
  <2>. QED BY <2>6, <2>7, <2>8 DEF Paired
<1>4. CASE ~Awakes(t)
  <2>1. tasks'[t] = tasks[t]
    BY <1>4 DEF Gathers
  <2>2. \A m \in timers : m.task = t => m \in timers'
    <3> SUFFICES ASSUME NEW m \in timers, m.task = t
                 PROVE  ~Due(m)
      BY <1>1
    <3>. QED BY <1>4 DEF Awakes, Paired, TimerPaired
  <2>3. SameFor(t)
    BY <1>1, <2>1, <2>2 DEF SameFor, LedgerStays
  <2>. QED BY <2>3, SamePaired
<1>. QED BY <1>3, <1>4

\* A completion reaches the task that waits for it, or is noted.
LEMMA HandlesPaired ==
  ASSUME Sound, Apart, \A u \in Ids : Paired(u), NEW t, NEW k, Handles(t, k)
  PROVE  \A u \in Ids : Paired(u)'
<1>1. /\ t \in Ids /\ UNCHANGED <<timers, used, requests, clock>>
      /\ \A u \in Ids \ {t} : tasks'[u] = tasks[u]
      /\ \A o \in offloads' : \E p \in offloads :
           /\ o.task = p.task /\ o.token = p.token
           /\ o.done <=> p.done \/ (p.task = t /\ p.token = k)
      /\ \A p \in offloads : \E o \in offloads' :
           o.task = p.task /\ o.token = p.token
      /\ k \in Nat /\ tasks[t] \in Task /\ ShapeOf(tasks[t])
  BY ReactorAssumption DEF Handles, Sound, Base, Shape, Ids
<1>2. ASSUME NEW u \in Ids \ {t}
      PROVE  Paired(u)'
  <2>1. \A l : /\ JobOf(u, l) \in taken' <=> JobOf(u, l) \in taken
               /\ PostOf(u, l) \in taken' <=> PostOf(u, l) \in taken
    BY <1>2, CompletionsDiffer DEF Handles
  <2>2. \A o \in offloads' : o.task = u =>
          \E p \in offloads : p.task = u /\ p.token = o.token /\ (p.done <=> o.done)
    BY <1>1, <1>2
  <2>3. \A p \in offloads : p.task = u =>
          \E o \in offloads' : o.task = u /\ o.token = p.token
    BY <1>1, <1>2
  <2>4. SameFor(u)
    BY <1>1, <1>2, <2>1, <2>2, <2>3 DEF SameFor
  <2>. QED BY <2>4, SamePaired
<1>3. /\ \A l : Entry(t, l) <=> Entry(t, l)'
  BY <1>1 DEF Entry
<1>4. \A l : Entry(t, l) => l \in Ids /\ JobOf(t, l) \in used
  BY DEF Entry, Sound, Base, TablesOK, Numbered
<1>5. tasks'[t].cont = tasks[t].cont /\ tasks'[t].goal = tasks[t].goal
      /\ tasks'[t].last = tasks[t].last /\ tasks'[t].since = tasks[t].since
  BY DEF Handles, SameCall
<1>6. ASSUME k \in Ids, JobOf(t, k) \in used \ taken, taken' = taken \cup {JobOf(t, k)}
      PROVE  Paired(t)'
  <2>1. Entry(t, k)
    BY <1>1, <1>6 DEF Paired, EntriesPaired, JobOut
  <2>2. /\ \A l : JobOf(t, l) \in taken' <=> JobOf(t, l) \in taken \/ l = k
        /\ \A l : PostOf(t, l) \in taken' <=> PostOf(t, l) \in taken
    BY <1>6, CompletionsDiffer
  <2>3. \A l : PostOut(t, l)' <=> PostOut(t, l)
    BY <1>1, <2>2 DEF PostOut
  <2>4. EntriesPaired(t)'
    <3>1. \A o \in offloads' : o.task = t => (o.done <=> JobOf(t, o.token) \in taken')
      BY <1>1, <2>2 DEF Paired, EntriesPaired
    <3>2. \A l \in Ids : JobOut(t, l)' => Entry(t, l)'
      BY <1>1, <1>3, <2>2 DEF Paired, EntriesPaired, JobOut
    <3>3. tasks'[t].cont = "token" => Entry(t, tasks[t].goal)'
      BY <1>1, <1>3, <1>5 DEF Paired, EntriesPaired
    <3>. QED BY <1>5, <3>1, <3>2, <3>3 DEF EntriesPaired
  <2>5. CASE tasks[t].state = "none"
    <3>1. tasks' = tasks
      BY <2>5 DEF Handles
    <3>2. tasks[t] = NoTask
      BY <1>1, <2>5 DEF ShapeOf
    <3>3. TimerPaired(t)'
      BY <1>1, <3>1 DEF Paired, TimerPaired
    <3>4. BatchPaired(t)'
      BY <1>1, <2>2, <2>3, <3>1 DEF Paired, BatchPaired
    <3>5. ReasonPaired(t)'
      BY <2>5, <3>1 DEF ReasonPaired
    <3>. QED BY <2>4, <3>3, <3>4, <3>5 DEF Paired
  <2>6. CASE tasks[t].state # "none" /\ tasks[t].waiting = k
    <3>1. /\ tasks[t].state \in {"timer", "offload"}
          /\ tasks'[t].state = "ready" /\ tasks'[t].posted = tasks[t].posted
      BY <2>6 DEF Handles, SameCall
    <3>2. tasks[t].state # "timer"
      BY <1>1, <1>6, <2>6 DEF Paired, TimerPaired, Sound, Numbered
    <3>3. tasks[t].state = "offload" /\ tasks[t].goal = k
          /\ tasks[t].cont \in {"token", "posted"}
      BY <1>1, <2>6, <3>1, <3>2 DEF ShapeOf
    <3>4. tasks[t].cont = "token"
      <4>1. tasks[t].cont = "posted" => PostOut(t, k)
        BY <1>1, <3>3 DEF Paired, ReasonPaired
      <4>2. tasks[t].cont = "posted" => k \in 1..MaxPost
        BY <1>1, <1>6, <3>3, ReactorAssumption DEF ShapeOf, Task, Ids
      <4>. QED BY <1>1, <2>1, <3>3, <4>1, <4>2 DEF Apart, Sound
    <3>5. TimerPaired(t)'
      BY <1>1, <3>1, <3>3 DEF Paired, TimerPaired
    <3>6. BatchPaired(t)'
      BY <1>1, <1>5, <2>2, <2>3, <3>1, <3>4 DEF Paired, BatchPaired
    <3>7. ReasonPaired(t)'
      BY <1>5, <2>2, <3>1, <3>3, <3>4 DEF ReasonPaired
    <3>. QED BY <2>4, <3>5, <3>6, <3>7 DEF Paired
  <2>7. CASE tasks[t].state # "none" /\ tasks[t].waiting # k
    <3>1. /\ tasks'[t].state = tasks[t].state /\ tasks'[t].waiting = tasks[t].waiting
          /\ tasks'[t].posted = tasks[t].posted
      BY <2>1, <2>7 DEF Handles, SameCall
    <3>2. TimerPaired(t)'
      BY <1>1, <1>5, <3>1 DEF Paired, TimerPaired
    <3>3. BatchPaired(t)'
      BY <1>1, <1>5, <2>2, <2>3, <3>1 DEF Paired, BatchPaired
    <3>4. tasks[t].state = "offload" => tasks[t].goal # k
      BY <1>1, <2>7 DEF ShapeOf
    <3>5. ReasonPaired(t)'
      BY <1>1, <1>5, <2>2, <2>3, <3>1, <3>4
         DEF Paired, ReasonPaired, JobOut, Slept
    <3>. QED BY <2>4, <3>2, <3>3, <3>5 DEF Paired
  <2>. QED BY <2>5, <2>6, <2>7
<1>7. ASSUME k \in 1..MaxPost, PostOf(t, k) \in used \ taken,
             taken' = taken \cup {PostOf(t, k)}
      PROVE  Paired(t)'
  <2>1. ~Entry(t, k)
    BY <1>1, <1>7 DEF Apart, PostOut, Sound
  <2>2. /\ \A l : JobOf(t, l) \in taken' <=> JobOf(t, l) \in taken
        /\ \A l : PostOf(t, l) \in taken' <=> PostOf(t, l) \in taken \/ l = k
    BY <1>7, CompletionsDiffer
  <2>3. /\ \A l : JobOut(t, l)' <=> JobOut(t, l)
        /\ \A l : PostOut(t, l)' <=> PostOut(t, l) /\ l # k
    BY <1>1, <2>2 DEF PostOut, JobOut
  <2>4. EntriesPaired(t)'
    <3>1. \A o \in offloads' : o.task = t => (o.done <=> JobOf(t, o.token) \in taken')
      BY <1>1, <2>1, <2>2 DEF Paired, EntriesPaired, Entry
    <3>2. \A l \in Ids : JobOut(t, l)' => Entry(t, l)'
      BY <1>1, <1>3, <2>3 DEF Paired, EntriesPaired
    <3>3. tasks'[t].cont = "token" => Entry(t, tasks[t].goal)'
      BY <1>1, <1>3, <1>5 DEF Paired, EntriesPaired
    <3>. QED BY <1>5, <3>1, <3>2, <3>3 DEF EntriesPaired
  <2>5. /\ tasks[t].cont = "posted" /\ tasks[t].goal <= k /\ k <= tasks[t].last
    BY <1>1, <1>7 DEF Paired, BatchPaired, PostOut
  <2>6. tasks[t].state # "none" /\ tasks[t].state # "timer"
    BY <1>1, <2>5, NewTask DEF ShapeOf
  <2>7. CASE tasks[t].waiting = k
    <3>1. /\ tasks[t].state = "offload" /\ tasks'[t].state = "ready"
          /\ tasks'[t].posted = tasks[t].posted
      BY <2>6, <2>7 DEF Handles, SameCall
    <3>2. tasks[t].goal = k
      BY <1>1, <2>7, <3>1 DEF ShapeOf
    <3>3. TimerPaired(t)'
      BY <1>1, <3>1 DEF Paired, TimerPaired
    <3>4. BatchPaired(t)'
      <4>1. \A l \in (tasks[t].goal + 1)..tasks[t].last : l # k
        BY <1>1, <3>2
      <4>. QED BY <1>1, <1>5, <2>2, <2>3, <3>1, <4>1 DEF Paired, BatchPaired
    <3>5. ReasonPaired(t)'
      BY <1>5, <2>2, <2>5, <3>1, <3>2 DEF ReasonPaired
    <3>. QED BY <2>4, <3>3, <3>4, <3>5 DEF Paired
  <2>8. CASE tasks[t].waiting # k
    <3>1. /\ tasks'[t].state = tasks[t].state /\ tasks'[t].waiting = tasks[t].waiting
          /\ tasks'[t].posted = tasks[t].posted \cup {k}
      BY <2>1, <2>6, <2>8 DEF Handles
    <3>2. TimerPaired(t)'
      BY <1>1, <1>5, <3>1 DEF Paired, TimerPaired
    <3>3. BatchPaired(t)'
      BY <1>1, <1>5, <2>2, <2>3, <3>1 DEF Paired, BatchPaired
    <3>4. tasks[t].state = "offload" => tasks[t].goal # k
      BY <1>1, <2>8 DEF ShapeOf
    <3>5. ReasonPaired(t)'
      BY <1>1, <1>5, <2>2, <2>3, <2>5, <3>1, <3>4 DEF Paired, ReasonPaired, Slept
    <3>. QED BY <2>4, <3>2, <3>3, <3>5 DEF Paired
  <2>. QED BY <2>7, <2>8
<1>. QED BY <1>1, <1>2, <1>6, <1>7 DEF Handles

\* The task that runs, under a name no step changes.
LEMMA RunningTask ==
  ASSUME Sound, \A t \in Ids : Paired(t), lpc = "task", NEW i, i = cur
  PROVE  /\ i \in Ids /\ Me = tasks[i] /\ Paired(i)
         /\ tasks[i].state = "ready" /\ \A m \in timers : m.task # i
         /\ tasks[i].goal \in Nat /\ tasks[i].last \in Nat
         /\ tasks[i].last <= MaxPost
         /\ tasks[i].cont = "posted" => tasks[i].goal <= tasks[i].last
         /\ tasks[i].cont # "posted" => \A k \in 1..MaxPost : ~PostOut(i, k)
<1>1. /\ i \in Ids /\ Me = tasks[i] /\ tasks[i].state = "ready"
      /\ tasks[i].goal \in Nat /\ tasks[i].last \in Nat
      /\ tasks[i].last <= MaxPost /\ ShapeOf(tasks[i])
  BY CurFacts DEF Sound
<1>. QED BY <1>1 DEF Paired, TimerPaired, BatchPaired, ShapeOf

\* A call returns: what it waited for is consumed.
LEMMA RunsPaired ==
  ASSUME Sound, \A t \in Ids : Paired(t), Continues \/ Advances
  PROVE  \A t \in Ids : Paired(t)'
<1>1. PICK i : i = cur
  OBVIOUS
<1>2. /\ lpc = "task" /\ LedgerStays /\ UNCHANGED <<timers, clock>>
      /\ \A t \in Ids \ {i} : tasks'[t] = tasks[t]
      /\ tasks'[i].state = "ready"
  BY <1>1, PoolStaysLedger DEF Continues, Advances, OthersSame, LoopStays
<1>3. /\ i \in Ids /\ Me = tasks[i] /\ Paired(i)
      /\ tasks[i].state = "ready" /\ \A m \in timers : m.task # i
      /\ tasks[i].goal \in Nat /\ tasks[i].last \in Nat
      /\ tasks[i].last <= MaxPost
      /\ tasks[i].cont # "posted" => \A k \in 1..MaxPost : ~PostOut(i, k)
  BY <1>1, <1>2, RunningTask
<1>4. TimerPaired(i)'
  BY <1>2, <1>3 DEF TimerPaired
<1>5. /\ \A t, k : JobOut(t, k)' <=> JobOut(t, k)
      /\ \A t, k : PostOut(t, k)' <=> PostOut(t, k)
      /\ taken' = taken
  BY <1>2 DEF LedgerStays, JobOut, PostOut
<1>6. CASE Continues
  <2>1. /\ offloads' \subseteq offloads
        /\ \A o \in offloads \ offloads' : o.task = i /\ o.done
        /\ tasks'[i].cont = "run" /\ tasks'[i].posted = tasks[i].posted
        /\ tasks[i].cont = "posted" => tasks[i].goal = tasks[i].last
    BY <1>1, <1>3, <1>6 DEF Continues
  <2>2. ASSUME NEW t \in Ids \ {i}
        PROVE  Paired(t)'
    <3>1. \A o \in offloads : o.task = t => o \in offloads'
      BY <2>1, <2>2
    <3>2. SameFor(t)
      BY <1>2, <2>1, <2>2, <3>1 DEF SameFor, LedgerStays
    <3>. QED BY <3>2, SamePaired
  <2>3. EntriesPaired(i)'
    <3>1. \A o \in offloads' : o.task = i => (o.done <=> JobOf(i, o.token) \in taken')
      BY <1>3, <1>5, <2>1 DEF Paired, EntriesPaired
    <3>2. ASSUME NEW k \in Ids, JobOut(i, k)
          PROVE  Entry(i, k)'
      <4>1. PICK o \in offloads : o.task = i /\ o.token = k
        BY <1>3, <3>2 DEF Paired, EntriesPaired, Entry
      <4>2. ~o.done
        BY <1>3, <3>2, <4>1 DEF Paired, EntriesPaired, JobOut
      <4>3. o \in offloads'
        BY <2>1, <4>2
      <4>. QED BY <4>1, <4>3 DEF Entry
    <3>. QED BY <1>5, <2>1, <3>1, <3>2 DEF EntriesPaired
  <2>4. \A k \in 1..MaxPost : ~PostOut(i, k)
    <3>1. ASSUME NEW k \in 1..MaxPost, PostOut(i, k), tasks[i].cont = "posted"
          PROVE  FALSE
      <4>1. k = tasks[i].goal
        BY <1>3, <2>1, <3>1 DEF Paired, BatchPaired
      <4>2. PostOf(i, tasks[i].goal) \in taken
        BY <1>3, <3>1 DEF Paired, ReasonPaired
      <4>. QED BY <3>1, <4>1, <4>2 DEF PostOut
    <3>. QED BY <1>3, <3>1
  <2>5. BatchPaired(i)'
    BY <1>3, <1>5, <2>1, <2>4 DEF Paired, BatchPaired
  <2>6. ReasonPaired(i)'
    BY <1>2, <2>1 DEF ReasonPaired
  <2>. QED BY <1>4, <2>2, <2>3, <2>5, <2>6 DEF Paired
<1>7. CASE Advances
  <2>1. /\ tasks[i].cont = "posted" /\ tasks[i].goal < tasks[i].last
        /\ tasks[i].goal + 1 \in tasks[i].posted
        /\ tasks'[i].cont = "posted" /\ tasks'[i].goal = tasks[i].goal + 1
        /\ tasks'[i].last = tasks[i].last
        /\ tasks'[i].posted = tasks[i].posted \ {tasks[i].goal + 1}
        /\ offloads' = offloads
    BY <1>1, <1>3, <1>7 DEF Advances
  <2>2. ASSUME NEW t \in Ids \ {i}
        PROVE  Paired(t)'
    BY <1>2, <2>1, <2>2, Untouched, SamePaired
  <2>3. EntriesPaired(i)'
    BY <1>2, <1>3, <2>1, OnlyTask
  <2>4. /\ PostOf(i, tasks[i].goal) \in taken
        /\ PostOf(i, tasks[i].goal + 1) \in taken
    BY <1>3, <2>1 DEF Paired, ReasonPaired, BatchPaired
  <2>5. BatchPaired(i)'
    <3>1. ASSUME NEW k \in 1..MaxPost, PostOut(i, k)
          PROVE  tasks[i].goal + 1 <= k /\ k <= tasks[i].last
      <4>1. tasks[i].goal <= k /\ k <= tasks[i].last
        BY <1>3, <3>1 DEF Paired, BatchPaired
      <4>2. k # tasks[i].goal
        BY <2>4, <3>1 DEF PostOut
      <4>. QED BY <1>3, <4>1, <4>2
    <3>2. \A k \in (tasks[i].goal + 1 + 1)..tasks[i].last :
            PostOut(i, k) \/ k \in tasks'[i].posted
      <4>1. \A k \in (tasks[i].goal + 1 + 1)..tasks[i].last :
              /\ k \in (tasks[i].goal + 1)..tasks[i].last
              /\ k # tasks[i].goal + 1
        BY <1>3
      <4>. QED BY <1>3, <2>1, <4>1 DEF Paired, BatchPaired
    <3>3. \A k \in tasks'[i].posted : PostOf(i, k) \in taken
      BY <1>3, <2>1 DEF Paired, BatchPaired
    <3>. QED BY <1>5, <2>1, <3>1, <3>2, <3>3 DEF BatchPaired
  <2>6. ReasonPaired(i)'
    BY <1>2, <1>5, <2>1, <2>4 DEF ReasonPaired
  <2>. QED BY <1>4, <2>2, <2>3, <2>5, <2>6 DEF Paired
<1>. QED BY <1>6, <1>7

\* A job is submitted with its entry.
LEMMA OffloadsPaired ==
  ASSUME Sound, \A t \in Ids : Paired(t), OffloadsJob
  PROVE  \A t \in Ids : Paired(t)'
<1>1. PICK i, n : i = cur /\ n = next_token
  OBVIOUS
<1>2. /\ lpc = "task" /\ UNCHANGED <<timers, taken, requests, clock, tasks>>
      /\ offloads' = offloads \cup {[task |-> i, token |-> n, done |-> FALSE]}
      /\ used' = used \cup {JobOf(i, n)} /\ n \in Ids
      /\ tasks[i].cont = "run"
  BY <1>1 DEF OffloadsJob, LoopStays, Me
<1>3. /\ i \in Ids /\ Paired(i)
      /\ tasks[i].state = "ready" /\ \A m \in timers : m.task # i
  BY <1>1, <1>2, RunningTask
<1>4. JobOf(i, n) \notin taken
  <2>1. JobOf(i, n) \notin used
    BY <1>1, <1>2, <1>3, BaseFacts DEF Sound, Numbered
  <2>. QED BY <2>1 DEF Sound
<1>5. /\ \A t, k : JobOut(t, k)' <=> JobOut(t, k) \/ (t = i /\ k = n)
      /\ \A t, k : PostOut(t, k)' <=> PostOut(t, k)
      /\ \A t, k : JobOf(t, k) \in used' <=> JobOf(t, k) \in used \/ (t = i /\ k = n)
      /\ \A t, k : PostOf(t, k) \in used' <=> PostOf(t, k) \in used
  BY <1>2, <1>4, CompletionsDiffer DEF JobOut, PostOut
<1>6. ASSUME NEW t \in Ids \ {i}
      PROVE  Paired(t)'
  <2>1. SameFor(t)
    BY <1>2, <1>5, <1>6 DEF SameFor
  <2>. QED BY <2>1, SamePaired
<1>7. EntriesPaired(i)'
  <2>1. \A k : Entry(i, k)' <=> Entry(i, k) \/ k = n
    <3>1. PICK e : e = [task |-> i, token |-> n, done |-> FALSE]
      OBVIOUS
    <3>2. e.task = i /\ e.token = n /\ offloads' = offloads \cup {e}
      BY <1>2, <3>1
    <3>. QED BY <3>2 DEF Entry
  <2>2. \A o \in offloads' : o.task = i => (o.done <=> JobOf(i, o.token) \in taken')
    BY <1>2, <1>3, <1>4 DEF Paired, EntriesPaired
  <2>3. \A k \in Ids : JobOut(i, k)' => Entry(i, k)'
    BY <1>3, <1>5, <2>1 DEF Paired, EntriesPaired
  <2>. QED BY <1>2, <2>2, <2>3 DEF EntriesPaired
<1>8. TimerPaired(i)' /\ BatchPaired(i)' /\ ReasonPaired(i)'
  BY <1>2, <1>3, <1>5 DEF Paired, TimerPaired, BatchPaired, ReasonPaired
<1>. QED BY <1>6, <1>7, <1>8 DEF Paired

\* A task parks on what it has just arranged, or ends with nothing open.
LEMMA ParksPaired ==
  ASSUME Sound, \A t \in Ids : Paired(t), Parks
  PROVE  \A t \in Ids : Paired(t)'
<1>1. PICK i : i = cur
  OBVIOUS
<1>2. /\ lpc = "task" /\ taken' = taken /\ offloads' = offloads /\ clock' = clock
      /\ \A t, k : JobOf(t, k) \in used' <=> JobOf(t, k) \in used
      /\ \A t \in Ids \ {i} : tasks'[t] = tasks[t]
  <2>1. CASE ParksOnPost
    BY <1>1, <2>1 DEF ParksOnPost, OthersSame, PoolStays
  <2>6. CASE Finishes
    BY <1>1, <2>6 DEF Finishes, PoolStays, Sound, Base
  <2>2. CASE \E o \in offloads : ParksOnToken(o)
    BY <1>1, <2>2 DEF ParksOnToken, OthersSame, PoolStays
  <2>3. CASE \E ms \in Sleeps : ParksOnTimer(ms)
    BY <1>1, <2>3 DEF ParksOnTimer, OthersSame, PoolStays
  <2>4. CASE \E n \in 1..2 : ParksOnBatch(n)
    BY <1>1, <2>4 DEF ParksOnBatch, OthersSame
  <2>5. CASE \E f \in Fds : ParksOnFd(f)
    BY <1>1, <2>5 DEF ParksOnFd, OthersSame, PoolStays
  <2>. QED BY <2>1, <2>2, <2>3, <2>4, <2>5, <2>6 DEF Parks
<1>3. /\ i \in Ids /\ Me = tasks[i] /\ Paired(i)
      /\ tasks[i].state = "ready" /\ \A m \in timers : m.task # i
      /\ tasks[i].goal \in Nat /\ tasks[i].last \in Nat
      /\ tasks[i].last <= MaxPost
      /\ tasks[i].cont # "posted" => \A k \in 1..MaxPost : ~PostOut(i, k)
  BY <1>1, <1>2, RunningTask
<1>4. ASSUME LedgerStays, timers' = timers
      PROVE  \A t \in Ids \ {i} : Paired(t)'
  BY <1>2, <1>4, Untouched, SamePaired
<1>5. ASSUME LedgerStays
      PROVE  /\ \A k : JobOut(i, k)' <=> JobOut(i, k)
             /\ \A k : PostOut(i, k)' <=> PostOut(i, k)
  BY <1>2, <1>5 DEF LedgerStays, JobOut, PostOut
<1>6. CASE ParksOnPost
  <2>1. /\ tasks[i].cont = "posted" /\ tasks[i].goal < tasks[i].last
        /\ tasks[i].goal + 1 \notin tasks[i].posted
        /\ tasks'[i].cont = "posted" /\ tasks'[i].goal = tasks[i].goal + 1
        /\ tasks'[i].state = "offload" /\ tasks'[i].last = tasks[i].last
        /\ tasks'[i].posted = tasks[i].posted
        /\ LedgerStays /\ timers' = timers
    BY <1>1, <1>3, <1>6, PoolStaysLedger DEF ParksOnPost
  <2>2. TimerPaired(i)' /\ EntriesPaired(i)'
    BY <1>2, <1>3, <2>1, OnlyTask
  <2>3. PostOf(i, tasks[i].goal) \in taken /\ PostOut(i, tasks[i].goal + 1)
    BY <1>3, <2>1 DEF Paired, ReasonPaired, BatchPaired
  <2>4. BatchPaired(i)'
    <3>1. ASSUME NEW k \in 1..MaxPost, PostOut(i, k)
          PROVE  tasks[i].goal + 1 <= k /\ k <= tasks[i].last
      <4>1. tasks[i].goal <= k /\ k <= tasks[i].last
        BY <1>3, <3>1 DEF Paired, BatchPaired
      <4>2. k # tasks[i].goal
        BY <2>3, <3>1 DEF PostOut
      <4>. QED BY <1>3, <4>1, <4>2
    <3>2. \A k \in (tasks[i].goal + 1 + 1)..tasks[i].last :
            PostOut(i, k) \/ k \in tasks[i].posted
      <4>1. \A k \in (tasks[i].goal + 1 + 1)..tasks[i].last :
              k \in (tasks[i].goal + 1)..tasks[i].last
        BY <1>3
      <4>. QED BY <1>3, <2>1, <4>1 DEF Paired, BatchPaired
    <3>3. \A k \in tasks[i].posted : PostOf(i, k) \in taken
      BY <1>3 DEF Paired, BatchPaired
    <3>. QED BY <1>2, <1>5, <2>1, <3>1, <3>2, <3>3 DEF BatchPaired
  <2>5. ReasonPaired(i)'
    BY <1>5, <2>1, <2>3 DEF ReasonPaired
  <2>. QED BY <1>4, <2>1, <2>2, <2>4, <2>5 DEF Paired
<1>7. CASE Finishes \/ \E f \in Fds : ParksOnFd(f)
  <2>1. /\ tasks[i].cont = "run" /\ tasks'[i].cont \in {"start", "io"}
        /\ tasks'[i].state \in {"none", "fd"}
        /\ tasks'[i].posted \subseteq tasks[i].posted
        /\ LedgerStays /\ timers' = timers
    BY <1>1, <1>3, <1>7, PoolStaysLedger, NewTask DEF Finishes, ParksOnFd, Sound, Base
  <2>2. TimerPaired(i)' /\ EntriesPaired(i)'
    BY <1>2, <1>3, <2>1, OnlyTask
  <2>3. BatchPaired(i)'
    BY <1>2, <1>3, <1>5, <2>1 DEF Paired, BatchPaired
  <2>4. ReasonPaired(i)'
    BY <2>1 DEF ReasonPaired
  <2>. QED BY <1>4, <2>1, <2>2, <2>3, <2>4 DEF Paired
<1>8. ASSUME NEW o \in offloads, ParksOnToken(o)
      PROVE  \A t \in Ids : Paired(t)'
  <2>1. /\ tasks[i].cont = "run" /\ tasks'[i].cont = "token"
        /\ tasks'[i].state = "offload" /\ tasks'[i].posted = tasks[i].posted
        /\ tasks'[i].goal = o.token /\ o.task = i /\ ~o.done
        /\ LedgerStays /\ timers' = timers
    BY <1>1, <1>3, <1>8, PoolStaysLedger DEF ParksOnToken
  <2>2. JobOut(i, o.token)
    BY <1>3, <2>1 DEF Paired, EntriesPaired, JobOut, Sound, Numbered
  <2>3. TimerPaired(i)' /\ BatchPaired(i)' /\ ReasonPaired(i)'
    BY <1>2, <1>3, <1>5, <2>1, <2>2
       DEF Paired, TimerPaired, BatchPaired, ReasonPaired
  <2>4. \A k : Entry(i, k)' <=> Entry(i, k)
    BY <1>2 DEF Entry
  <2>5. Entry(i, o.token)
    BY <2>1 DEF Entry
  <2>6. EntriesPaired(i)'
    BY <1>2, <1>3, <1>5, <2>1, <2>4, <2>5 DEF Paired, EntriesPaired
  <2>. QED BY <1>4, <2>1, <2>3, <2>6 DEF Paired
<1>9. ASSUME NEW ms \in Sleeps, ParksOnTimer(ms)
      PROVE  \A t \in Ids : Paired(t)'
  <2>1. PICK m : m = [token |-> next_token, task |-> i, deadline |-> ToInt(Now + ms)]
    OBVIOUS
  <2>2. /\ tasks[i].cont = "run" /\ tasks'[i].cont = "slept"
        /\ tasks'[i].state = "timer" /\ tasks'[i].posted = tasks[i].posted
        /\ tasks'[i].waiting = m.token /\ tasks'[i].since <= clock /\ clock' = clock
        /\ m.deadline = ToInt(Uptime + tasks'[i].goal)
        /\ m.task = i /\ timers' = timers \cup {m} /\ LedgerStays
    BY <1>1, <1>3, <1>9, <2>1, PoolStaysLedger DEF ParksOnTimer
  <2>3. ASSUME NEW t \in Ids \ {i}
        PROVE  Paired(t)'
    <3>1. SameFor(t)
      BY <1>2, <2>2, <2>3 DEF SameFor, LedgerStays
    <3>. QED BY <3>1, SamePaired
  <2>4. TimerPaired(i)'
    BY <1>3, <2>2 DEF TimerPaired
  <2>5. EntriesPaired(i)'
    BY <1>2, <1>3, <1>5, <2>2 DEF Paired, EntriesPaired, Entry
  <2>6. BatchPaired(i)' /\ ReasonPaired(i)'
    BY <1>2, <1>3, <1>5, <2>2 DEF Paired, BatchPaired, ReasonPaired
  <2>. QED BY <2>3, <2>4, <2>5, <2>6 DEF Paired
<1>10. ASSUME NEW n \in 1..2, ParksOnBatch(n)
       PROVE  \A t \in Ids : Paired(t)'
  <2>1. PICK p : p = next_post
    OBVIOUS
  <2>2. /\ tasks[i].cont = "run" /\ tasks'[i].cont = "posted"
        /\ tasks'[i].state = "offload" /\ tasks'[i].posted = tasks[i].posted
        /\ tasks'[i].goal = p /\ tasks'[i].last = p + n - 1
        /\ p + n - 1 \in 1..MaxPost /\ p \in Nat \ {0}
        /\ requests' = requests \cup {PostOf(i, p + j) : j \in 0..(n - 1)}
        /\ used' = used /\ timers' = timers
    BY <1>1, <1>3, <1>10, <2>1, BaseFacts DEF ParksOnBatch, Sound
  <2>3. \A k : PostOf(i, k) \in requests' <=>
          PostOf(i, k) \in requests \/ k \in p..(p + n - 1)
    <3>1. ASSUME NEW k, NEW j \in 0..(n - 1), PostOf(i, k) = PostOf(i, p + j)
          PROVE  k \in p..(p + n - 1)
      BY <2>2, <3>1, CompletionsDiffer
    <3>2. ASSUME NEW k \in p..(p + n - 1)
          PROVE  k - p \in 0..(n - 1) /\ k = p + (k - p)
      BY <2>2
    <3>3. \A k \in p..(p + n - 1) : PostOf(i, k) \in requests'
      BY <2>2, <3>2
    <3>4. ASSUME NEW k, PostOf(i, k) \in requests', PostOf(i, k) \notin requests
          PROVE  k \in p..(p + n - 1)
      BY <2>2, <3>1, <3>4
    <3>. QED BY <2>2, <3>3, <3>4
  <2>4. \A k \in p..(p + n - 1) : PostOf(i, k) \notin taken
    <3>1. ASSUME NEW k \in p..(p + n - 1)
          PROVE  PostOf(i, k) \notin used
      <4>1. k \in 1..MaxPost /\ ~(k < p)
        BY <2>2, ReactorAssumption
      <4>. QED BY <1>3, <2>1, <4>1 DEF Sound, PostsNumbered
    <3>. QED BY <3>1 DEF Sound
  <2>5. \A k : PostOut(i, k)' <=> PostOut(i, k) \/ k \in p..(p + n - 1)
    BY <1>2, <2>2, <2>3, <2>4 DEF PostOut
  <2>6. ASSUME NEW t \in Ids \ {i}
        PROVE  Paired(t)'
    <3>1. \A k : PostOf(t, k) \in requests' <=> PostOf(t, k) \in requests
      BY <2>2, <2>6, CompletionsDiffer
    <3>2. SameFor(t)
      BY <1>2, <2>2, <2>6, <3>1 DEF SameFor
    <3>. QED BY <3>2, SamePaired
  <2>7. TimerPaired(i)'
    BY <1>3, <2>2 DEF TimerPaired
  <2>8. EntriesPaired(i)'
    BY <1>2, <1>3, <2>2 DEF Paired, EntriesPaired, Entry, JobOut
  <2>9. BatchPaired(i)'
    <3>1. \A k \in 1..MaxPost : PostOut(i, k)' => p <= k /\ k <= p + n - 1
      BY <1>3, <2>2, <2>5
    <3>2. \A k \in (p + 1)..(p + n - 1) : PostOut(i, k)'
      BY <2>2, <2>5
    <3>3. \A k \in tasks[i].posted : PostOf(i, k) \in taken
      BY <1>3 DEF Paired, BatchPaired
    <3>. QED BY <1>2, <2>2, <3>1, <3>2, <3>3 DEF BatchPaired
  <2>10. ReasonPaired(i)'
    BY <2>2, <2>5 DEF ReasonPaired
  <2>. QED BY <2>6, <2>7, <2>8, <2>9, <2>10 DEF Paired
<1>. QED BY <1>6, <1>7, <1>8, <1>9, <1>10 DEF Parks

-----------------------------------------------------------------------------
(* The properties of the wakeups.                                          *)

\* Only what was given to the pool is taken.
TakenWereUsed == taken \subseteq used

\* That is part of ExactlyOnce.
LEMMA TakenFromPool == Pool!ExactlyOnce => TakenWereUsed
  BY DEF Pool!ExactlyOnce, TakenWereUsed

\* Every task is paired, and await_token has not died.
AllPaired ==
  /\ LoopAlive => \A t \in Ids : Paired(t)
  /\ panic \notin {"completion lost", "resumed before the offload finished"}

\* await_token never finds its entry missing or not done.
LEMMA NoWrongWakeup ==
  ASSUME Sound, \A t \in Ids : Paired(t)
  PROVE  ~TokenDies
<1> SUFFICES ASSUME TokenDies
             PROVE  FALSE
  OBVIOUS
<1>1. /\ cur \in Ids /\ Me = tasks[cur] /\ tasks[cur].state = "ready"
      /\ tasks[cur].cont = "token"
  BY CurFacts DEF TokenDies, Sound
<1>2. JobOf(cur, Me.goal) \in taken /\ Entry(cur, Me.goal)
  BY <1>1 DEF Paired, ReasonPaired, EntriesPaired
<1>3. \A o \in offloads : o.task = cur /\ o.token = Me.goal => o.done
  BY <1>1, <1>2 DEF Paired, EntriesPaired
<1>. QED BY <1>2, <1>3 DEF TokenDies, Entry

\* Every step keeps AllPaired.
LEMMA StepPaired ==
  ASSUME Base, Handed, Numbered, PostsNumbered, Pool!TypeOK, Pool!ExactlyOnce,
         Apart, AllPaired, [Next]_vars
  PROVE  AllPaired'
<1>1. panic' \notin {"completion lost", "resumed before the offload finished"}
  <2>1. LoopAlive => ~TokenDies
    BY NoWrongWakeup, TakenFromPool DEF Sound, AllPaired, TakenWereUsed
  <2>2. TokenDies => LoopAlive
    BY DEF TokenDies, LoopAlive
  <2>. QED BY <2>1, <2>2, PanicFacts DEF AllPaired
<1>2. ASSUME LoopAlive'
      PROVE  \A t \in Ids : Paired(t)'
  <2>1. ~Closes /\ ~Dies /\ ~TokenDies
    BY <1>2 DEF LoopAlive, Closes, Dies, TokenDies
  <2>2. LoopAlive
    <3>1. Outside \/ Passing => LoopAlive
      BY <1>2, QuietFacts DEF LoopAlive
    <3>2. Spawns => LoopAlive
      BY <1>2 DEF Spawns, LoopStays, LoopAlive
    <3>3. Wakings => LoopAlive
      BY WaitFdFacts DEF Wakings, Handles, Gathers, ResumeNext, LoopAlive
    <3>4. Runs => LoopAlive
      BY DEF Runs, Continues, Advances, OffloadsJob, LoopAlive
    <3>5. Parks => LoopAlive
      BY DEF Parks, ParksOnPost, Finishes, ParksOnToken, ParksOnTimer,
         ParksOnBatch, ParksOnFd, LoopAlive
    <3>. QED BY <2>1, <3>1, <3>2, <3>3, <3>4, <3>5, StepKinds
  <2>3. Sound /\ \A t \in Ids : Paired(t)
    BY <2>2, TakenFromPool DEF Sound, AllPaired, TakenWereUsed
  <2>4. CASE Outside \/ Passing \/ Spawns
    BY <2>3, <2>4, QuietPaired, SpawnsPaired
  <2>5. CASE Wakings
    BY <2>3, <2>5, HandlesPaired, GathersPaired, WaitFdPaired, QuietPaired
       DEF Wakings
  <2>6. CASE Runs \/ Parks
    BY <2>3, <2>6, RunsPaired, OffloadsPaired, ParksPaired DEF Runs
  <2>. QED BY <2>1, <2>4, <2>5, <2>6, StepKinds
<1>. QED BY <1>1, <1>2 DEF AllPaired

\* AllPaired holds initially.
LEMMA InitPaired == Init => AllPaired
<1> SUFFICES ASSUME Init
             PROVE  AllPaired
  OBVIOUS
<1>1. /\ \A t \in Ids : tasks[t] = NoTask
      /\ timers = {} /\ offloads = {} /\ requests = {} /\ used = {} /\ taken = {}
      /\ panic = ""
  BY DEF Init, Pool!Init
<1>2. \A t \in Ids : Paired(t)
  BY <1>1, NewTask DEF Paired, TimerPaired, EntriesPaired, BatchPaired,
     ReasonPaired, JobOut, PostOut
<1>. QED BY <1>1, <1>2 DEF AllPaired

\* While the two counters do not meet, what a task waits for and what will wake
\* it agree: timers, entries of the jobs table, open requests, posted numbers.
THEOREM PairedCorrect == Spec /\ []Apart => []AllPaired
<1>1. Base /\ (Handed /\ Numbered /\ PostsNumbered) /\ Pool!TypeOK
        /\ Pool!ExactlyOnce /\ Apart /\ AllPaired /\ [Next]_vars
      => AllPaired'
  BY StepPaired
<1>. QED
  BY <1>1, InitPaired, BaseCorrect, NumberedCorrect, PoolInLoop, PTL DEF Spec

\* While the two counters do not meet, a call that suspended its task returns
\* only after what it waited for, and the panics of await_token are unreachable.
\* For sleep_ms this says: it returns early only if the millisecond counter runs
\* over between the call and the deadline, wherever in the turns of the counter
\* the program was started.
THEOREM WokenForItsReasonCorrect == Spec /\ []Apart => []WokenForItsReason
<1>1. Base /\ AllPaired => WokenForItsReason
  <2> SUFFICES ASSUME Base, AllPaired
               PROVE  WokenForItsReason
    OBVIOUS
  <2>1. ASSUME lpc = "task"
        PROVE  /\ Me.cont = "token"  => JobOf(cur, Me.goal) \in taken
               /\ Me.cont = "posted" => PostOf(cur, Me.goal) \in taken
               /\ Me.cont = "slept"  => Slept(Me)
    BY <2>1, CurFacts DEF AllPaired, Paired, ReasonPaired
  <2>. QED BY <2>1 DEF WokenForItsReason, AllPaired, JobOf, PostOf, Slept
<1>. QED BY <1>1, PairedCorrect, BaseCorrect, PTL

-----------------------------------------------------------------------------
(* No task is forgotten.                                                   *)

\* A ready task is in the snapshot, unless the loop was stopped.
Queued ==
  LoopAlive => \A t \in Ids : tasks[t].state = "ready" /\ t # cur =>
    t \in Range(ready) \/ stopped

\* Every step keeps Queued.
LEMMA StepQueued ==
  ASSUME Base, Pool!TypeOK, Pool!ExactlyOnce, Queued, [Next]_vars
  PROVE  Queued'
<1> SUFFICES ASSUME LoopAlive', NEW t \in Ids, tasks'[t].state = "ready", t # cur'
             PROVE  t \in Range(ready') \/ stopped'
  BY DEF Queued
<1>1. CASE Outside \/ Passing
  <2>1. LoopAlive
    BY <1>1, QuietFacts DEF LoopAlive
  <2>2. /\ UNCHANGED <<tasks, ready, cur>>
        /\ stopped' = stopped \/ stopped' = TRUE
    BY <1>1, QuietFacts
  <2>. QED BY <2>1, <2>2 DEF Queued
<1>2. CASE Spawns
  BY <1>2 DEF Spawns, LoopStays, Queued, LoopAlive
<1>3. CASE Closes \/ Dies \/ TokenDies
  BY <1>3 DEF Closes, Dies, TokenDies, LoopAlive
<1>4. ASSUME NEW u, NEW k, Handles(u, k)
      PROVE  t \in Range(ready') \/ stopped'
  <2>1. LoopAlive /\ ready \in Seq(Ids) /\ u \in Ids /\ UNCHANGED <<stopped, cur>>
    BY <1>4 DEF LoopAlive, Handles, Base, LoopOK
  <2>2. Range(ready) \subseteq Range(ready')
    <3>1. ready' = ready \/ ready' = Append(ready, u)
      BY <1>4 DEF Handles
    <3>2. Range(Append(ready, u)) = Range(ready) \cup {u}
      BY <2>1, AppendToQueue
    <3>. QED BY <3>1, <3>2
  <2>3. CASE tasks[t].state = "ready"
    BY <2>1, <2>2, <2>3 DEF Queued
  <2>4. CASE tasks[t].state # "ready"
    <3>1. t = u /\ ready' = Append(ready, u)
      BY <1>4, <2>4 DEF Handles
    <3>. QED BY <2>1, <3>1, AppendToQueue
  <2>. QED BY <2>3, <2>4
<1>5. CASE Gathers
  <2>1. LoopAlive /\ stopped' = stopped /\ cur' = cur
    BY <1>5 DEF Gathers, LoopAlive
  <2>. QED BY <1>5, <2>1 DEF Gathers, Queued
<1>6. ASSUME NEW f \in Fds, WaitFd(f)
      PROVE  t \in Range(ready') \/ stopped'
  <2>1. /\ lpc = "wait" /\ ready' = <<reg[f]>> /\ reg[f] \in Ids
        /\ UNCHANGED <<stopped, cur>>
        /\ \A u \in Ids \ {reg[f]} : tasks'[u] = tasks[u]
    BY <1>6, WaitFdFacts
  <2>2. LoopAlive /\ Range(ready) = {} /\ Range(ready') = {reg[f]}
    BY <2>1, OneInQueue DEF LoopAlive, Base, Control, Range
  <2>. QED BY <2>1, <2>2 DEF Queued
<1>7. CASE ResumeNext
  <2>1. /\ lpc = "resume" /\ ready # <<>> /\ ready' = Tail(ready) /\ cur = 0
        /\ UNCHANGED <<tasks, stopped>>
    BY <1>7 DEF ResumeNext, tableVars, Base, Control
  <2>2. /\ Range(ready) = {Head(ready)} \cup Range(ready') /\ Head(ready) \in Ids
    BY <2>1, PopFromQueue DEF Base, LoopOK
  <2>3. Head(ready) \in Live
    BY <2>2 DEF Base, Snapshot, Live
  <2>4. cur' = Head(ready) /\ LoopAlive
    BY <1>7, <2>1, <2>3 DEF ResumeNext, LoopAlive
  <2>. QED BY <2>1, <2>2, <2>4, BaseFacts DEF Queued
<1>8. CASE Runs
  <2>1. /\ lpc = "task" /\ UNCHANGED <<ready, cur, stopped>>
        /\ \A u \in Ids \ {cur} : tasks'[u] = tasks[u]
    BY <1>8 DEF Runs, Continues, Advances, OffloadsJob, LoopStays, OthersSame
  <2>. QED BY <2>1 DEF Queued, LoopAlive
<1>9. CASE Parks
  <2>1. lpc = "task" /\ BackToLoop /\ stopped' = stopped
    BY <1>9 DEF Parks, ParksOnPost, Finishes, ParksOnToken, ParksOnTimer,
       ParksOnBatch, ParksOnFd
  <2>2. /\ \A u \in Ids \ {cur} : tasks'[u] = tasks[u]
        /\ tasks'[cur].state # "ready"
    <3>1. CASE Finishes
      BY <3>1, CurFacts, NewTask DEF Finishes
    <3>2. CASE ParksOnPost \/ \E o \in offloads : ParksOnToken(o)
      BY <3>2 DEF ParksOnPost, ParksOnToken, OthersSame
    <3>3. CASE \/ \E ms \in Sleeps : ParksOnTimer(ms)
               \/ \E n \in 1..2 : ParksOnBatch(n)
      BY <3>3 DEF ParksOnTimer, ParksOnBatch, OthersSame
    <3>4. CASE \E f \in Fds : ParksOnFd(f)
      BY <3>4 DEF ParksOnFd, OthersSame
    <3>. QED BY <1>9, <3>1, <3>2, <3>3, <3>4 DEF Parks
  <2>. QED BY <2>1, <2>2 DEF Queued, LoopAlive, BackToLoop
<1>. QED
  BY <1>1, <1>2, <1>3, <1>4, <1>5, <1>6, <1>7, <1>8, <1>9, StepKinds DEF Wakings

\* run forgets no task that it or a wakeup has marked ready.
THEOREM QueuedCorrect == Spec => []Queued
<1>1. Init => Queued
  BY NewTask DEF Init, Queued
<1>2. Base /\ Pool!TypeOK /\ Pool!ExactlyOnce /\ Queued /\ [Next]_vars => Queued'
  BY StepQueued
<1>. QED BY <1>1, <1>2, BaseCorrect, PoolInLoop, PTL DEF Spec

\* While the two counters do not meet, every suspended task has the one thing
\* that will resume it, so run never sleeps over a task nobody will wake.
THEOREM NoOrphanTaskCorrect == Spec /\ []Apart => []NoOrphanTask
<1>1. Base /\ Queued /\ AllPaired => NoOrphanTask
  <2> SUFFICES ASSUME Base, Queued, AllPaired, LoopAlive, NEW t \in Live \ {cur}
               PROVE  LET me == tasks[t]
                      IN CASE me.state = "new" -> TRUE
                           [] me.state = "ready" -> t \in Range(ready) \/ stopped
                           [] me.state = "fd" -> me.fd \in Fds /\ reg[me.fd] = t
                           [] me.state = "timer" ->
                                \E m \in timers : m.task = t /\ m.token = me.waiting
                           [] me.state = "offload" /\ me.cont = "token" ->
                                <<"job", t, me.waiting>> \in used \ taken
                           [] me.state = "offload" /\ me.cont = "posted" ->
                                <<"post", t, me.waiting>>
                                  \in requests \cup (used \ taken)
    BY DEF NoOrphanTask
  <2>1. /\ t \in Ids /\ tasks[t] \in Task /\ tasks[t].state # "none"
        /\ ShapeOf(tasks[t]) /\ Paired(t)
    BY DEF Live, Base, Shape, AllPaired
  <2>2. tasks[t].state = "ready" => t \in Range(ready) \/ stopped
    BY <2>1 DEF Queued
  <2>3. tasks[t].state = "fd" => tasks[t].fd \in Fds /\ reg[tasks[t].fd] = t
    BY <2>1 DEF ShapeOf, Base, RegisteredIffParked
  <2>4. tasks[t].state = "timer" =>
          \E m \in timers : m.task = t /\ m.token = tasks[t].waiting
    BY <2>1 DEF Paired, TimerPaired
  <2>5. tasks[t].state = "offload" =>
          /\ tasks[t].cont \in {"token", "posted"}
          /\ tasks[t].cont = "token" =>
               <<"job", t, tasks[t].waiting>> \in used \ taken
          /\ tasks[t].cont = "posted" =>
               <<"post", t, tasks[t].waiting>> \in requests \cup (used \ taken)
    BY <2>1 DEF ShapeOf, Paired, ReasonPaired, JobOut, PostOut, JobOf, PostOf
  <2>6. tasks[t].state \in {"new", "ready", "fd", "timer", "offload"}
    BY <2>1 DEF Task
  <2>. QED BY <2>2, <2>3, <2>4, <2>5, <2>6
<1>. QED BY <1>1, BaseCorrect, QueuedCorrect, PairedCorrect, PTL

-----------------------------------------------------------------------------
(* When the counters cannot meet.                                          *)

\* The petitio calls, or offload, are not used.
NoPosts == requests = {} /\ \A t, k : PostOf(t, k) \notin used
NoJobs  == \A t, k : JobOf(t, k) \notin used

\* In a program whose tasks use only one of offload and the petitio calls, the
\* completion of one is never open beside the other's of the same number.
THEOREM ApartByUse ==
  ASSUME "fetch" \notin Ops \/ "offload" \notin Ops
  PROVE  Spec => []Apart
<1> DEFINE Inv == IF "fetch" \in Ops THEN NoJobs ELSE NoPosts
<1>1. Init => Inv
  BY DEF Init, Pool!Init, NoPosts, NoJobs
<1>2. Base /\ (Handed /\ Numbered /\ PostsNumbered) /\ Pool!TypeOK
        /\ Pool!ExactlyOnce /\ Inv /\ [Next]_vars
      => Inv'
  <2> SUFFICES ASSUME Base, Handed, Pool!TypeOK, Pool!ExactlyOnce, Inv, [Next]_vars
               PROVE  Inv'
    OBVIOUS
  <2>1. CASE "fetch" \in Ops
    <3>1. NoJobs /\ "offload" \notin Ops
      BY <2>1
    <3>2. NoJobs'
      BY <3>1, StepLedger DEF LedgerStays, OffloadsJob, ParksOnTimer, PoolStays,
         ParksOnBatch, Handles, NoJobs
    <3>. QED BY <2>1, <3>2
  <2>2. CASE "fetch" \notin Ops
    <3>1. NoPosts
      BY <2>2
    <3>2. ASSUME OffloadsJob
          PROVE  NoPosts'
      BY <3>1, <3>2, CompletionsDiffer DEF OffloadsJob, NoPosts
    <3>3. ASSUME LedgerStays
          PROVE  NoPosts'
      <4>1. \A p \in requests' : p \in Posts
        BY StepHanded DEF Handed
      <4>2. \A t, k : PostOf(t, k) \notin requests' \cup used'
        BY <3>1, <3>3 DEF LedgerStays, NoPosts
      <4>. QED BY <4>1, <4>2 DEF NoPosts, Posts, PostOf
    <3>4. NoPosts'
      <4>1. ASSUME NEW ms \in Sleeps, ParksOnTimer(ms)
            PROVE  NoPosts'
        BY <3>1, <4>1 DEF ParksOnTimer, PoolStays, NoPosts
      <4>2. ASSUME NEW n \in 1..2, ParksOnBatch(n)
            PROVE  FALSE
        BY <2>2, <4>2 DEF ParksOnBatch
      <4>3. ASSUME NEW t, NEW k, Handles(t, k)
            PROVE  NoPosts'
        BY <3>1, <4>3 DEF Handles, NoPosts
      <4>. QED BY <3>2, <3>3, <4>1, <4>2, <4>3, StepLedger
    <3>. QED BY <2>2, <3>4
  <2>. QED BY <2>1, <2>2
<1>3. Inv /\ Base /\ (Handed /\ Numbered /\ PostsNumbered) => Apart
  <2>1. NoPosts => Apart
    <3> SUFFICES ASSUME NoPosts, NEW t, NEW k, PostOut(t, k)
                 PROVE  FALSE
      BY DEF Apart
    <3>. QED BY DEF NoPosts, PostOut
  <2>2. NoJobs /\ Base /\ Numbered => Apart
    <3> SUFFICES ASSUME NoJobs, Base, Numbered, NEW o \in offloads
                 PROVE  FALSE
      BY DEF Apart, Entry
    <3>. QED BY DEF NoJobs, Numbered
  <2>. QED BY <2>1, <2>2
<1> HIDE DEF Inv
<1>. QED BY <1>1, <1>2, <1>3, BaseCorrect, NumberedCorrect, PoolInLoop, PTL DEF Spec

\* Programs whose tasks await their offloads before they call petitio: whoever
\* hands requests over has no entry in the jobs table.
AwaitsFirst ==
  [][requests' \subseteq requests \/ \A o \in offloads : o.task # cur]_vars

\* A task inside a petitio call has no entry in the jobs table.
NoneOpen == LoopAlive => \A o \in offloads : tasks[o.task].cont # "posted"

\* In such a program every step keeps NoneOpen.
LEMMA StepNoneOpen ==
  ASSUME Base, Handed, PostsNumbered, Pool!TypeOK, Pool!ExactlyOnce, NoneOpen,
         [Next]_vars,
         [requests' \subseteq requests \/ \A o \in offloads : o.task # cur]_vars
  PROVE  NoneOpen'
<1> SUFFICES ASSUME LoopAlive', NEW o \in offloads'
             PROVE  tasks'[o.task].cont # "posted"
  BY DEF NoneOpen
<1>1. CASE Outside \/ Passing
  BY <1>1, QuietFacts DEF NoneOpen, LoopAlive
<1>2. CASE Spawns
  <2>1. o \in offloads /\ o.task \in Ids /\ LoopAlive
    BY <1>2 DEF Spawns, LoopStays, LoopAlive, Base, TablesOK
  <2>. QED BY <1>2, <2>1 DEF Spawns, NoneOpen
<1>3. CASE Closes \/ Dies \/ TokenDies
  BY <1>3 DEF Closes, Dies, TokenDies, LoopAlive
<1>4. ASSUME NEW t, NEW k, Handles(t, k)
      PROVE  tasks'[o.task].cont # "posted"
  <2>1. LoopAlive
    BY <1>4 DEF Handles, LoopAlive
  <2>2. PICK p \in offloads : o.task = p.task
    BY <1>4 DEF Handles
  <2>3. tasks[o.task].cont # "posted" /\ o.task \in Ids
    BY <2>1, <2>2 DEF NoneOpen, Base, TablesOK
  <2>. QED BY <1>4, <2>3 DEF Handles, SameCall
<1>5. CASE Gathers
  <2>1. o \in offloads /\ o.task \in Ids /\ LoopAlive
    BY <1>5 DEF Gathers, LoopAlive, Base, TablesOK
  <2>. QED BY <1>5, <2>1 DEF Gathers, NoneOpen, SameCall
<1>6. ASSUME NEW f \in Fds, WaitFd(f)
      PROVE  tasks'[o.task].cont # "posted"
  <2>1. /\ lpc = "wait" /\ offloads' = offloads /\ tasks'[reg[f]].cont = "io"
        /\ \A t \in Ids \ {reg[f]} : tasks'[t] = tasks[t]
    BY <1>6, WaitFdFacts
  <2>2. o \in offloads /\ o.task \in Ids /\ LoopAlive
    BY <2>1 DEF LoopAlive, Base, TablesOK
  <2>. QED BY <2>1, <2>2 DEF NoneOpen
<1>7. CASE ResumeNext
  BY <1>7 DEF ResumeNext, tableVars, NoneOpen, LoopAlive
<1>8. CASE Runs \/ Parks
  <2>1. lpc = "task" /\ OthersSame
    <3>1. Finishes => OthersSame
      BY CurFacts DEF Finishes, OthersSame, Base
    <3>. QED
      BY <1>8, <3>1 DEF Runs, Parks, Continues, Advances, OffloadsJob,
         ParksOnPost, Finishes, ParksOnToken, ParksOnTimer, ParksOnBatch,
         ParksOnFd, OthersSame
  <2>2. cur \in Ids /\ Me = tasks[cur]
    BY <2>1, CurFacts
  <2>3. o \in offloads \/ o.task = cur
    BY <1>8 DEF Runs, Parks, Continues, Advances, OffloadsJob, ParksOnPost,
       Finishes, ParksOnToken, ParksOnTimer, ParksOnBatch, ParksOnFd
  <2>4. CASE o.task # cur
    <3>1. o \in offloads /\ o.task \in Ids
      BY <2>3, <2>4 DEF Base, TablesOK
    <3>. QED BY <2>1, <2>4, <3>1 DEF NoneOpen, OthersSame, LoopAlive
  <2>5. CASE o.task = cur
    <3>1. ~(Advances \/ ParksOnPost)
      BY <2>2, <2>5 DEF Advances, ParksOnPost, NoneOpen, LoopAlive
    <3>2. ASSUME NEW n \in 1..2, ParksOnBatch(n)
          PROVE  FALSE
      <4>1. offloads' = offloads
        BY <3>2 DEF ParksOnBatch
      <4>2. PostOf(cur, next_post) \in requests'
        <5>1. next_post + 0 = next_post /\ 0 \in 0..(n - 1)
          BY BaseFacts
        <5>. QED BY <3>2, <5>1 DEF ParksOnBatch
      <4>3. PostOf(cur, next_post) \notin requests
        <5>1. next_post \in 1..MaxPost /\ ~(next_post < next_post)
          BY <3>2, BaseFacts, ReactorAssumption DEF ParksOnBatch
        <5>. QED BY <2>2, <5>1 DEF PostsNumbered
      <4>4. requests' # requests
        BY <4>2, <4>3
      <4>5. requests' \subseteq requests \/ \A p \in offloads : p.task # cur
        BY <4>4 DEF vars, helperVars
      <4>. QED BY <2>5, <4>1, <4>2, <4>3, <4>5
    <3>3. CASE Continues \/ Finishes
      BY <2>2, <2>5, <3>3, NewTask DEF Continues, Finishes, Base
    <3>4. CASE OffloadsJob
      BY <2>2, <2>5, <3>4 DEF OffloadsJob
    <3>5. CASE \/ \E q \in offloads : ParksOnToken(q)
               \/ \E ms \in Sleeps : ParksOnTimer(ms)
               \/ \E f \in Fds : ParksOnFd(f)
      BY <2>5, <3>5 DEF ParksOnToken, ParksOnTimer, ParksOnFd
    <3>. QED BY <1>8, <3>1, <3>2, <3>3, <3>4, <3>5 DEF Runs, Parks
  <2>. QED BY <2>4, <2>5
<1>. QED
  BY <1>1, <1>2, <1>3, <1>4, <1>5, <1>6, <1>7, <1>8, StepKinds DEF Wakings

\* In a program whose tasks await their offloads before they call petitio, no
\* completion of one service is ever open beside the other's of that number.
THEOREM ApartByOrder == Spec /\ AwaitsFirst => []Apart
<1>1. Init => AllPaired /\ NoneOpen
  <2>1. Init => NoneOpen
    BY DEF Init, NoneOpen
  <2>. QED BY <2>1, InitPaired
<1>2. Base /\ AllPaired /\ NoneOpen => Apart
  <2> SUFFICES ASSUME Base, AllPaired, NoneOpen, LoopAlive, NEW t \in Ids,
                      NEW k \in 1..MaxPost, Entry(t, k), PostOut(t, k)
               PROVE  FALSE
    BY DEF Apart
  <2>1. tasks[t].cont = "posted"
    BY DEF AllPaired, Paired, BatchPaired
  <2>. QED BY <2>1 DEF NoneOpen, Entry
<1>3. Base /\ (Handed /\ Numbered /\ PostsNumbered) /\ Pool!TypeOK
        /\ Pool!ExactlyOnce /\ (AllPaired /\ NoneOpen) /\ [Next]_vars
        /\ [requests' \subseteq requests \/ \A o \in offloads : o.task # cur]_vars
      => (AllPaired /\ NoneOpen)'
  BY <1>2, StepPaired, StepNoneOpen
<1>. QED
  BY <1>1, <1>2, <1>3, BaseCorrect, NumberedCorrect, PoolInLoop, PTL
     DEF Spec, AwaitsFirst

-----------------------------------------------------------------------------
(* The contexts of the offloads.                                           *)

\* close finds no offload in flight.
Drained == lpc = "main" => \A o \in offloads : o.done

\* The context of a job is alive until the job is taken or freed unrun.
Boxes ==
  \A t, k \in Ids :
    JobOf(t, k) \in used \ (taken \cup dropped) => JobOf(t, k) \in boxes

\* What the destructor freed stays freed.
LEMMA DroppedGrows == [Next]_vars => dropped \subseteq dropped'
<1> SUFFICES ASSUME [Pool!Next]_(Pool!vars)
             PROVE  dropped \subseteq dropped'
  BY StepUsesPool
<1>1. CASE Pool!OwnerStep
  BY <1>1 DEF Pool!OwnerStep, Pool!PoolStart, Pool!Offload, Pool!BeginHarvest,
     Pool!Take, Pool!TakeNone, Pool!Resume, Pool!BeginWait, Pool!DrainWake,
     Pool!WaitReturns, Pool!BeginFree, Pool!JoinAndFree, Pool!history
<1>2. CASE \E w \in Workers : Pool!WorkerStep(w) \/ Pool!SpuriousWakeup(w)
  BY <1>2 DEF Pool!WorkerStep, Pool!SpuriousWakeup, Pool!WorkerSleeps,
     Pool!WorkerExits, Pool!WorkerPops, Pool!WorkerPosts, Pool!WorkerWakes,
     Pool!WorkerSettles, Pool!history
<1>3. CASE \E h \in Helpers :
             Pool!HelperWakes(h) \/ \E p \in Posts : Pool!HelperPosts(h, p)
  BY <1>3 DEF Pool!HelperWakes, Pool!HelperPosts, Pool!history
<1>. QED BY <1>1, <1>2, <1>3 DEF Pool!Next, Pool!vars

\* A context is released only with its entry: by await_token when the offload
\* is done, or by close.
LEMMA BoxesFacts ==
  ASSUME Base, [Next]_vars, NEW t \in Ids, NEW k \in Ids, JobOf(t, k) \in boxes,
         JobOf(t, k) \notin boxes'
  PROVE  \E o \in offloads : /\ o.task = t /\ o.token = k
                             /\ \/ lpc = "task" /\ o.done
                                \/ lpc = "main"
<1>1. ASSUME NEW o \in offloads, Consume(o), o.done, lpc = "task"
      PROVE  \E p \in offloads : /\ p.task = t /\ p.token = k
                                 /\ \/ lpc = "task" /\ p.done
                                    \/ lpc = "main"
  <2>1. boxes' = boxes \ {JobOf(o.task, o.token)}
    BY <1>1 DEF Consume, JobOf
  <2>2. o.task = t /\ o.token = k
    BY <2>1, CompletionsDiffer
  <2>. QED BY <1>1, <2>2
<1>2. CASE Close
  <2>1. /\ boxes' = boxes \ {JobOf(o.task, o.token) : o \in offloads}
        /\ lpc = "main"
    BY <1>2, CloseFacts DEF Closes
  <2>2. PICK o \in offloads : JobOf(t, k) = JobOf(o.task, o.token)
    BY <2>1
  <2>3. o.task = t /\ o.token = k
    BY <2>2, CompletionsDiffer
  <2>. QED BY <2>1, <2>3
<1>3. CASE TokenReturns
  <2>1. lpc = "task"
    BY <1>3 DEF TokenReturns
  <2>. QED BY <1>1, <1>3, <2>1 DEF TokenReturns
<1>4. CASE \E o \in offloads : TaskAwaits(o)
  <2>1. PICK o \in offloads : TaskAwaits(o)
    BY <1>4
  <2>2. lpc = "task"
    BY <2>1 DEF TaskAwaits, Running
  <2>3. CASE o.done
    BY <1>1, <2>1, <2>2, <2>3 DEF TaskAwaits
  <2>4. CASE ~o.done
    BY <2>1, <2>4 DEF TaskAwaits, ParkOnToken
  <2>. QED BY <2>3, <2>4
<1>5. CASE LoopTop \/ HarvestEnds \/ PassEnds \/ CloseReturns
  BY <1>5 DEF LoopTop, HarvestEnds, PassEnds, CloseReturns, tableVars
<1>6. CASE WaitWoken \/ WaitTimesOut \/ WaitInterrupted
  BY <1>6 DEF WaitWoken, WaitTimesOut, WaitInterrupted, WaitEnds, tableVars
<1>7. CASE TaskStartsPool \/ TaskStops \/ TaskSleepsZero \/ MainSpawns \/ TaskSpawns
  BY <1>7 DEF TaskStartsPool, TaskStops, TaskSleepsZero, MainSpawns, TaskSpawns,
     tableVars
<1>8. CASE Harvest \/ Gather \/ ResumeNext \/ \E f \in Fds : WaitFd(f)
  BY <1>8 DEF Harvest, Gather, ResumeNext, WaitFd, tableVars
<1>9. CASE CallReturns \/ PostedReturns \/ TaskOffloads \/ TaskFinishes
  BY <1>9 DEF CallReturns, PostedReturns, TaskOffloads, TaskFinishes
<1>10. CASE \/ \E ms \in Sleeps : TaskSleeps(ms)
            \/ \E f \in Fds : TaskParks(f)
            \/ \E n \in 1..2 : TaskFetches(n)
  BY <1>10 DEF TaskSleeps, TaskParks, TaskFetches
<1>11. CASE \/ \E w \in Workers : WorkerStep(w)
            \/ \E h \in Helpers : HelperStep(h)
            \/ Tick \/ (\E f \in Fds : FdReady(f)) \/ UNCHANGED vars
  BY <1>11 DEF WorkerStep, HelperStep, Tick, FdReady, vars, tableVars
<1>. QED
  BY <1>2, <1>3, <1>4, <1>5, <1>6, <1>7, <1>8, <1>9, <1>10, <1>11
     DEF Next, LoopStep, TaskStep

\* Every step keeps Boxes.
LEMMA StepBoxes ==
  ASSUME Base, Handed, Numbered, PostsNumbered, Pool!TypeOK, Pool!ExactlyOnce,
         AllPaired, Drained, Boxes, [Next]_vars
  PROVE  Boxes'
<1> SUFFICES ASSUME NEW t \in Ids, NEW k \in Ids,
                    JobOf(t, k) \in used', JobOf(t, k) \notin taken' \cup dropped'
             PROVE  JobOf(t, k) \in boxes'
  BY DEF Boxes
<1>1. taken \subseteq taken'
  BY StepLedger DEF LedgerStays, OffloadsJob, ParksOnTimer, ParksOnBatch, Handles,
     PoolStays
<1>2. JobOf(t, k) \notin taken \cup dropped
  BY <1>1, DroppedGrows
<1>3. CASE JobOf(t, k) \in used
  <2>1. JobOf(t, k) \in boxes
    BY <1>2, <1>3 DEF Boxes
  <2> SUFFICES ASSUME JobOf(t, k) \notin boxes'
               PROVE  FALSE
    OBVIOUS
  <2>2. PICK o \in offloads : /\ o.task = t /\ o.token = k
                              /\ \/ lpc = "task" /\ o.done
                                 \/ lpc = "main"
    BY <2>1, BoxesFacts
  <2>3. o.done /\ LoopAlive
    BY <2>2 DEF Drained, LoopAlive
  <2>. QED BY <1>2, <2>2, <2>3 DEF AllPaired, Paired, EntriesPaired
<1>4. CASE JobOf(t, k) \notin used
  <2>1. OffloadsJob
    BY <1>4, StepLedger DEF LedgerStays, ParksOnTimer, ParksOnBatch, Handles,
       PoolStays
  <2>. QED BY <1>4, <2>1 DEF OffloadsJob
<1>. QED BY <1>3, <1>4

\* Boxes holds initially.
LEMMA InitBoxes == Init => Boxes
  BY DEF Init, Pool!Init, Boxes

\* While close finds no offload in flight, a context is released only after its
\* job was taken.
THEOREM BoxesCorrect == Spec /\ []Apart /\ []Drained => []Boxes
<1>1. Base /\ (Handed /\ Numbered /\ PostsNumbered) /\ Pool!TypeOK
        /\ Pool!ExactlyOnce /\ AllPaired /\ Drained /\ Boxes /\ [Next]_vars
      => Boxes'
  BY StepBoxes
<1>. QED
  BY <1>1, InitBoxes, BaseCorrect, NumberedCorrect, PairedCorrect, PoolInLoop, PTL
     DEF Spec

\* A worker holds a job only while it executes it.
HeldWhileRun ==
  /\ \A w \in Workers : wjob[w] # None => wpc[w] = "run"
  /\ pool_started \/ \A w \in Workers : wpc[w] = "off"

\* Every step keeps HeldWhileRun.
LEMMA StepHeld ==
  ASSUME Pool!TypeOK, HeldWhileRun, [Next]_vars
  PROVE  HeldWhileRun'
<1>1. /\ wpc \in [Workers -> {"off", "lock", "waiting", "run", "wake", "settle",
                              "exited"}]
      /\ wjob \in [Workers -> Jobs \cup {None}]
  BY DEF Pool!TypeOK
<1>2. CASE UNCHANGED poolVars
  BY <1>2 DEF poolVars, HeldWhileRun
<1>3. CASE Pool!PoolStart
  <2>1. \A w \in Workers : wpc[w] # "run"
    BY <1>3 DEF Pool!PoolStart, HeldWhileRun
  <2>. QED BY <1>3 DEF Pool!PoolStart, HeldWhileRun
<1>4. CASE \E j \in Jobs : Pool!Offload(j)
  BY <1>1, <1>4 DEF Pool!Offload, Pool!Enqueue, Pool!Signal, Pool!Waiting,
     HeldWhileRun
<1>5. CASE Pool!BeginFree
  BY <1>1, <1>5 DEF Pool!BeginFree, Pool!Broadcast, HeldWhileRun
<1>6. CASE Pool!BeginHarvest \/ Pool!Take \/ Pool!TakeNone \/ Pool!Resume
           \/ Pool!BeginWait \/ Pool!DrainWake \/ Pool!WaitReturns
           \/ Pool!JoinAndFree
  BY <1>6 DEF Pool!BeginHarvest, Pool!Take, Pool!TakeNone, Pool!Resume,
     Pool!BeginWait, Pool!DrainWake, Pool!WaitReturns, Pool!JoinAndFree,
     Pool!poolVars, HeldWhileRun
<1>7. ASSUME NEW w \in Workers, Pool!WorkerStep(w) \/ Pool!SpuriousWakeup(w)
      PROVE  HeldWhileRun'
  BY <1>1, <1>7 DEF Pool!WorkerStep, Pool!SpuriousWakeup, Pool!WorkerSleeps,
     Pool!WorkerExits, Pool!WorkerPops, Pool!WorkerPosts, Pool!WorkerWakes,
     Pool!WorkerSettles, HeldWhileRun
<1>8. CASE \E h \in Helpers :
             Pool!HelperWakes(h) \/ \E p \in Posts : Pool!HelperPosts(h, p)
  BY <1>8 DEF Pool!HelperWakes, Pool!HelperPosts, Pool!poolVars, HeldWhileRun
<1>. QED
  BY <1>2, <1>3, <1>4, <1>5, <1>6, <1>7, <1>8, StepUsesPool
     DEF Pool!Next, Pool!OwnerStep, Pool!vars, poolVars

\* The context of a job that is queued or being executed is alive: await_token
\* releases it only for a job that was taken, and while close finds no offload
\* in flight it releases nothing a worker may still use.
THEOREM ContextAliveCorrect == Spec /\ []Apart /\ []Drained => []ContextAlive
<1>1. Init => HeldWhileRun
  BY DEF Init, Pool!Init, HeldWhileRun
<1>2. Pool!TypeOK /\ HeldWhileRun /\ [Next]_vars => HeldWhileRun'
  BY StepHeld
<1>3. Pool!TypeOK /\ Pool!ExactlyOnce /\ HeldWhileRun /\ Boxes => ContextAlive
  <2> SUFFICES ASSUME Pool!TypeOK, Pool!ExactlyOnce, HeldWhileRun, Boxes,
                      NEW j \in Jobs,
                      j \in Range(jobs) \/ \E w \in Workers : wjob[w] = j
               PROVE  j \in boxes
    BY DEF ContextAlive
  <2>1. PICK t \in Ids, k \in Ids : j = JobOf(t, k)
    BY DEF Jobs, JobOf
  <2>2. CASE j \in Range(jobs)
    <3>1. j \in Pool!Range(jobs)
      BY <2>2 DEF Range, Pool!Range
    <3>2. j \in used /\ j \notin taken \cup dropped
      BY <3>1 DEF Pool!ExactlyOnce
    <3>. QED BY <2>1, <3>2 DEF Boxes
  <2>3. ASSUME NEW w \in Workers, wjob[w] = j
        PROVE  j \in boxes
    <3>1. j # None
      BY ReactorAssumption
    <3>2. j \in Pool!Held
      BY <2>3, <3>1 DEF HeldWhileRun, Pool!Held
    <3>3. j \in used /\ j \notin taken \cup dropped
      BY <3>2 DEF Pool!ExactlyOnce
    <3>. QED BY <2>1, <3>3 DEF Boxes
  <2>. QED BY <2>2, <2>3
<1>. QED BY <1>1, <1>2, <1>3, BoxesCorrect, PoolInLoop, PTL DEF Spec

\* An entry of the jobs table belongs to a live task.
Owned == LoopAlive => \A o \in offloads : tasks[o.task].state # "none"

\* A task that finishes has no entry, and nobody else makes a task end.
LEMMA StepOwned ==
  ASSUME Base, Pool!TypeOK, Pool!ExactlyOnce, Owned, [Next]_vars
  PROVE  Owned'
<1> SUFFICES ASSUME LoopAlive', NEW o \in offloads'
             PROVE  tasks'[o.task].state # "none"
  BY DEF Owned
<1>1. CASE Outside \/ Passing
  BY <1>1, QuietFacts DEF Owned, LoopAlive
<1>2. CASE Spawns
  <2>1. o \in offloads /\ o.task \in Ids /\ LoopAlive
    BY <1>2 DEF Spawns, LoopStays, LoopAlive, Base, TablesOK
  <2>. QED BY <1>2, <2>1 DEF Spawns, Owned
<1>3. CASE Closes \/ Dies \/ TokenDies
  BY <1>3 DEF Closes, Dies, TokenDies, LoopAlive
<1>4. ASSUME NEW t, NEW k, Handles(t, k)
      PROVE  tasks'[o.task].state # "none"
  <2>1. LoopAlive
    BY <1>4 DEF Handles, LoopAlive
  <2>2. PICK p \in offloads : o.task = p.task
    BY <1>4 DEF Handles
  <2>3. tasks[o.task].state # "none" /\ o.task \in Ids
    BY <2>1, <2>2 DEF Owned, Base, TablesOK
  <2>4. CASE o.task = t
    BY <1>4, <2>3, <2>4 DEF Handles
  <2>5. CASE o.task # t
    BY <1>4, <2>3, <2>5 DEF Handles
  <2>. QED BY <2>4, <2>5
<1>5. CASE Gathers
  <2>1. o \in offloads /\ o.task \in Ids /\ LoopAlive
    BY <1>5 DEF Gathers, LoopAlive, Base, TablesOK
  <2>. QED BY <1>5, <2>1 DEF Gathers, Owned
<1>6. ASSUME NEW f \in Fds, WaitFd(f)
      PROVE  tasks'[o.task].state # "none"
  <2>1. /\ lpc = "wait" /\ offloads' = offloads /\ tasks'[reg[f]].state = "ready"
        /\ \A t \in Ids \ {reg[f]} : tasks'[t] = tasks[t]
    BY <1>6, WaitFdFacts
  <2>2. o \in offloads /\ o.task \in Ids /\ LoopAlive
    BY <2>1 DEF LoopAlive, Base, TablesOK
  <2>. QED BY <2>1, <2>2 DEF Owned
<1>7. CASE ResumeNext
  BY <1>7 DEF ResumeNext, tableVars, Owned, LoopAlive
<1>8. CASE Runs \/ Parks
  <2>1. lpc = "task" /\ OthersSame
    <3>1. Finishes => OthersSame
      BY CurFacts DEF Finishes, OthersSame, Base
    <3>. QED
      BY <1>8, <3>1 DEF Runs, Parks, Continues, Advances, OffloadsJob, ParksOnPost,
         Finishes, ParksOnToken, ParksOnTimer, ParksOnBatch, ParksOnFd, OthersSame
  <2>2. cur \in Ids /\ tasks[cur].state = "ready"
    BY <2>1, CurFacts
  <2>3. o \in offloads \/ o.task = cur
    BY <1>8 DEF Runs, Parks, Continues, Advances, OffloadsJob, ParksOnPost,
       Finishes, ParksOnToken, ParksOnTimer, ParksOnBatch, ParksOnFd
  <2>4. CASE o.task # cur
    <3>1. o \in offloads /\ o.task \in Ids
      BY <2>3, <2>4 DEF Base, TablesOK
    <3>. QED BY <2>1, <2>4, <3>1 DEF Owned, OthersSame, LoopAlive
  <2>5. CASE o.task = cur
    <3>1. ~Finishes
      BY <2>5 DEF Finishes
    <3>2. tasks'[cur].state # "none"
      BY <1>8, <2>2, <3>1 DEF Runs, Parks, Continues, Advances, OffloadsJob,
         ParksOnPost, ParksOnToken, ParksOnTimer, ParksOnBatch, ParksOnFd
    <3>. QED BY <2>5, <3>2
  <2>. QED BY <2>4, <2>5
<1>. QED
  BY <1>1, <1>2, <1>3, <1>4, <1>5, <1>6, <1>7, <1>8, StepKinds DEF Wakings

\* run comes back to main only when no task is left.
Unstopped == ~stopped /\ (lpc = "main" => offloads = {})

\* Without stop, run comes back to main only with no task and no offload.
LEMMA StepUnstopped ==
  ASSUME "stop" \notin Ops, Base, Pool!TypeOK, Pool!ExactlyOnce, Owned, Unstopped,
         [Next]_vars
  PROVE  Unstopped'
<1>1. CASE LoopTop
  <2>1. /\ UNCHANGED <<offloads, tasks, stopped>> /\ LoopAlive
        /\ lpc' = "main" => Live = {}
    BY <1>1 DEF LoopTop, tableVars, Unstopped, LoopAlive
  <2>2. ASSUME Live = {}, NEW o \in offloads
        PROVE  FALSE
    <3>1. o.task \in Ids
      BY DEF Base, TablesOK
    <3>. QED BY <2>1, <2>2, <3>1 DEF Owned, Live
  <2>. QED BY <2>1, <2>2 DEF Unstopped
<1>2. CASE HarvestEnds \/ PassEnds \/ CloseReturns
  BY <1>2 DEF HarvestEnds, PassEnds, CloseReturns, ctlVars, Unstopped
<1>3. CASE WaitWoken \/ WaitTimesOut \/ WaitInterrupted
  BY <1>3 DEF WaitWoken, WaitTimesOut, WaitInterrupted, WaitEnds, Unstopped
<1>4. CASE TaskStartsPool \/ TaskStops \/ TaskSleepsZero
  <2>1. ~TaskStops /\ lpc = "task"
    BY <1>4 DEF TaskStartsPool, TaskStops, TaskSleepsZero, Running
  <2>2. lpc' \in {"task", "dead"} /\ stopped' = stopped
    BY <1>4, <2>1 DEF TaskStartsPool, TaskSleepsZero, Die, ctlVars
  <2>. QED BY <2>2 DEF Unstopped
<1>5. CASE Outside
  BY <1>5 DEF Outside, WorkerStep, HelperStep, Tick, FdReady, vars, tableVars,
     ctlVars, Unstopped
<1>6. CASE Spawns
  BY <1>6 DEF Spawns, LoopStays, Unstopped
<1>7. CASE Closes \/ Dies \/ TokenDies
  <2>1. lpc' \in {"closing", "dead"} /\ stopped' = stopped
    BY <1>7 DEF Closes, Dies, TokenDies
  <2>. QED BY <2>1 DEF Unstopped
<1>8. CASE Wakings
  <2>1. ASSUME NEW t, NEW k, Handles(t, k)
        PROVE  Unstopped'
    BY <2>1 DEF Handles, Unstopped
  <2>2. CASE Gathers
    BY <2>2 DEF Gathers, Unstopped
  <2>3. ASSUME NEW f \in Fds, WaitFd(f)
        PROVE  Unstopped'
    BY <2>3, WaitFdFacts DEF Unstopped
  <2>4. CASE ResumeNext
    BY <2>4 DEF ResumeNext, Unstopped
  <2>. QED BY <1>8, <2>1, <2>2, <2>3, <2>4 DEF Wakings
<1>9. CASE Runs \/ Parks
  BY <1>9 DEF Runs, Parks, Continues, Advances, OffloadsJob, ParksOnPost, Finishes,
     ParksOnToken, ParksOnTimer, ParksOnBatch, ParksOnFd, LoopStays, BackToLoop,
     Unstopped
<1>. QED
  BY <1>1, <1>2, <1>3, <1>4, <1>5, <1>6, <1>7, <1>8, <1>9, StepKinds DEF Passing

\* A program that never calls stop closes its loop with no offload in flight:
\* run does not return to main while a task lives, and entries belong to tasks.
THEOREM DrainedByUse ==
  ASSUME "stop" \notin Ops
  PROVE  Spec => []Drained
<1>1. Init => Owned /\ Unstopped
  BY DEF Init, Owned, Unstopped
<1>2. Base /\ Pool!TypeOK /\ Pool!ExactlyOnce /\ Owned /\ Unstopped /\ [Next]_vars
      => Owned' /\ Unstopped'
  BY StepOwned, StepUnstopped
<1>3. Unstopped => Drained
  BY DEF Unstopped, Drained
<1>. QED BY <1>1, <1>2, <1>3, BaseCorrect, PoolInLoop, PTL DEF Spec

-----------------------------------------------------------------------------
(* The programs these theorems speak of without a condition on the run.    *)

\* If tasks use only one of offload and petitio, every suspended task has the
\* one thing that will resume it.
THEOREM NoOrphanTaskByUse ==
  ASSUME "fetch" \notin Ops \/ "offload" \notin Ops
  PROVE  Spec => []NoOrphanTask
<1>1. Spec => []Apart
  BY ApartByUse
<1>. QED BY <1>1, NoOrphanTaskCorrect, PTL

\* If tasks use only one of offload and petitio, every suspending call returns
\* for its own reason.
THEOREM WokenForItsReasonByUse ==
  ASSUME "fetch" \notin Ops \/ "offload" \notin Ops
  PROVE  Spec => []WokenForItsReason
<1>1. Spec => []Apart
  BY ApartByUse
<1>. QED BY <1>1, WokenForItsReasonCorrect, PTL

\* If tasks also never call stop, no worker runs a job whose context has been
\* released.
THEOREM ContextAliveByUse ==
  ASSUME "fetch" \notin Ops \/ "offload" \notin Ops, "stop" \notin Ops
  PROVE  Spec => []ContextAlive
<1>1. Spec => []Apart
  BY ApartByUse
<1>2. Spec => []Drained
  BY DrainedByUse
<1>. QED BY <1>1, <1>2, ContextAliveCorrect, PTL

=============================================================================
