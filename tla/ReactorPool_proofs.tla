------------------------- MODULE ReactorPool_proofs -------------------------
(***************************************************************************)
(* Proofs about the C half of the reactor (module ReactorPool), for any    *)
(* finite set of workers and any sets of jobs, posts and helpers.          *)
(*                                                                         *)
(* Each invariant is proved from the ones before it:                       *)
(*   TypeOK, Phases, ExactlyOnce, WakeOwed (hence NoLostWakeup),           *)
(*   WorkConserving, and then the refinement of OffloadService.            *)
(***************************************************************************)
EXTENDS ReactorPool, FiniteSetTheorems, TLAPS

USE PoolAssumption DEF Completions

-----------------------------------------------------------------------------
(* Queues.                                                                 *)

\* The elements of the empty queue.
LEMMA EmptyQueue ==
  Range(<<>>) = {} /\ IsInjective(<<>>)
  BY DEF Range, IsInjective

\* Appending adds the element, and keeps elements distinct if it is new.
LEMMA AppendToQueue ==
  ASSUME NEW S, NEW q \in Seq(S), NEW x \in S
  PROVE  /\ Append(q, x) \in Seq(S)
         /\ Len(Append(q, x)) = Len(q) + 1
         /\ Append(q, x) # <<>>
         /\ Range(Append(q, x)) = Range(q) \cup {x}
         /\ IsInjective(q) /\ x \notin Range(q) => IsInjective(Append(q, x))
<1>1. /\ Append(q, x) \in Seq(S) /\ Len(Append(q, x)) = Len(q) + 1
      /\ Append(q, x) # <<>> /\ Len(q) \in Nat
      /\ DOMAIN q = 1..Len(q) /\ DOMAIN Append(q, x) = 1..(Len(q) + 1)
      /\ \A i \in DOMAIN q : Append(q, x)[i] = q[i]
      /\ Append(q, x)[Len(q) + 1] = x
  OBVIOUS
<1>2. Range(q) \cup {x} \subseteq Range(Append(q, x))
  BY <1>1 DEF Range
<1>3. Range(Append(q, x)) \subseteq Range(q) \cup {x}
  BY <1>1 DEF Range
<1>. QED BY <1>1, <1>2, <1>3 DEF Range, IsInjective

\* Popping removes the head, and nothing else if elements are distinct.
LEMMA PopFromQueue ==
  ASSUME NEW S, NEW q \in Seq(S), q # <<>>
  PROVE  /\ Head(q) \in S
         /\ Tail(q) \in Seq(S)
         /\ Len(Tail(q)) = Len(q) - 1
         /\ Range(q) = {Head(q)} \cup Range(Tail(q))
         /\ IsInjective(q) => /\ IsInjective(Tail(q))
                              /\ Head(q) \notin Range(Tail(q))
<1>1. /\ Head(q) = q[1] /\ q[1] \in S /\ Len(q) \in Nat \ {0}
      /\ Tail(q) \in Seq(S) /\ Len(Tail(q)) = Len(q) - 1
      /\ \A i \in 1..Len(Tail(q)) : Tail(q)[i] = q[i + 1]
  OBVIOUS
<1>2. DOMAIN q = 1..Len(q) /\ DOMAIN Tail(q) = 1..(Len(q) - 1)
  BY <1>1
<1>3. Range(q) = {Head(q)} \cup Range(Tail(q))
  <2>1. ASSUME NEW i \in DOMAIN q, i # 1
        PROVE  q[i] \in Range(Tail(q))
    <3>1. i - 1 \in DOMAIN Tail(q) /\ Tail(q)[i - 1] = q[i]
      BY <1>1, <1>2, <2>1
    <3>. QED BY <3>1 DEF Range
  <2>2. ASSUME NEW x \in Range(q)
        PROVE  x \in {Head(q)} \cup Range(Tail(q))
    <3>1. PICK i \in DOMAIN q : x = q[i]
      BY DEF Range
    <3>. QED BY <1>1, <2>1, <3>1
  <2>3. Head(q) \in Range(q)
    BY <1>1, <1>2 DEF Range
  <2>4. Range(Tail(q)) \subseteq Range(q)
    BY <1>1, <1>2 DEF Range
  <2>. QED BY <2>2, <2>3, <2>4
<1>4. ASSUME IsInjective(q)
      PROVE  IsInjective(Tail(q)) /\ Head(q) \notin Range(Tail(q))
  BY <1>1, <1>2, <1>4 DEF IsInjective, Range
<1>. QED BY <1>1, <1>3, <1>4

\* The elements of a queue are elements of the set it is over.
LEMMA RangeOfQueue ==
  ASSUME NEW S, NEW q \in Seq(S)
  PROVE  Range(q) \subseteq S
  BY DEF Range

-----------------------------------------------------------------------------
(* Type correctness.                                                       *)

LEMMA SignalType ==
  ASSUME TypeOK, Signal
  PROVE  /\ wpc' \in [Workers -> {"off", "lock", "waiting", "run", "wake",
                                  "settle", "exited"}]
         /\ \A w \in Workers :
              wpc'[w] = wpc[w] \/ (wpc[w] = "waiting" /\ wpc'[w] = "lock")
  BY DEF TypeOK, Signal, Waiting

LEMMA BroadcastType ==
  ASSUME TypeOK, Broadcast
  PROVE  /\ wpc' \in [Workers -> {"off", "lock", "waiting", "run", "wake",
                                  "settle", "exited"}]
         /\ \A w \in Workers :
              wpc'[w] = IF wpc[w] = "waiting" THEN "lock" ELSE wpc[w]
  BY DEF TypeOK, Broadcast

(* The fields of struct PenguReactor and the positions of the threads stay *)
(* in their ranges, and a worker holds a job exactly while it runs it.     *)
THEOREM TypeCorrect == Spec => []TypeOK
<1>1. Init => TypeOK
  <2>1. <<>> \in Seq(Jobs) /\ <<>> \in Seq(Completions)
    OBVIOUS
  <2>2. ASSUME Init
        PROVE  \A w \in Workers : wpc[w] = "run" => wjob[w] # None
    BY <2>2 DEF Init
  <2>. QED BY <2>1, <2>2 DEF Init, TypeOK
<1>2. TypeOK /\ [Next]_vars => TypeOK'
  <2> SUFFICES ASSUME TypeOK, [Next]_vars
               PROVE  TypeOK'
    OBVIOUS
  <2>1. CASE PoolStart
    BY <2>1 DEF PoolStart, TypeOK, doneVars, history
  <2>2. ASSUME NEW j \in Jobs, Offload(j)
        PROVE  TypeOK'
    <3>1. jobs' \in Seq(Jobs)
      BY <2>2, AppendToQueue DEF Offload, Enqueue, TypeOK
    <3>. QED BY <2>2, <3>1, SignalType DEF Offload, Enqueue, TypeOK, doneVars
  <2>3. CASE BeginHarvest
    BY <2>3 DEF BeginHarvest, TypeOK, poolVars, doneVars, history
  <2>4. CASE Take
    BY <2>4, PopFromQueue DEF Take, TypeOK, poolVars
  <2>5. CASE TakeNone
    BY <2>5 DEF TakeNone, TypeOK, poolVars, doneVars, history
  <2>6. CASE Resume
    BY <2>6 DEF Resume, TypeOK, poolVars, doneVars, history
  <2>7. CASE BeginWait
    BY <2>7 DEF BeginWait, TypeOK, poolVars, doneVars, history
  <2>8. CASE DrainWake
    BY <2>8 DEF DrainWake, TypeOK, poolVars, history
  <2>9. CASE WaitReturns
    BY <2>9 DEF WaitReturns, TypeOK, poolVars, doneVars, history
  <2>10. CASE BeginFree
    BY <2>10, BroadcastType DEF BeginFree, TypeOK, doneVars, history
  <2>11. CASE JoinAndFree
    <3>1. Range(jobs) \subseteq Completions /\ Range(done) \subseteq Completions
      BY RangeOfQueue DEF TypeOK
    <3>. QED BY <2>11, <3>1, EmptyQueue DEF JoinAndFree, TypeOK
  <2>12. ASSUME NEW w \in Workers, WorkerStep(w)
         PROVE  TypeOK'
    <3>1. CASE WorkerSleeps(w) \/ WorkerExits(w) \/ WorkerSettles(w)
      BY <3>1 DEF WorkerSleeps, WorkerExits, WorkerSettles, TypeOK, doneVars,
                  history
    <3>2. CASE WorkerPops(w)
      BY <3>2, PopFromQueue DEF WorkerPops, TypeOK, doneVars, history
    <3>3. CASE WorkerPosts(w)
      <4>1. done' \in Seq(Completions)
        BY <3>3, AppendToQueue DEF WorkerPosts, TypeOK
      <4>. QED BY <3>3, <4>1 DEF WorkerPosts, TypeOK, history
    <3>4. CASE WorkerWakes(w)
      BY <3>4 DEF WorkerWakes, WriteWake, TypeOK, history
    <3>. QED BY <2>12, <3>1, <3>2, <3>3, <3>4 DEF WorkerStep
  <2>13. ASSUME NEW w \in Workers, SpuriousWakeup(w)
         PROVE  TypeOK'
    BY <2>13 DEF SpuriousWakeup, TypeOK, doneVars, history
  <2>14. ASSUME NEW h \in Helpers, HelperWakes(h)
         PROVE  TypeOK'
    BY <2>14 DEF HelperWakes, WriteWake, TypeOK, poolVars, history
  <2>15. ASSUME NEW h \in Helpers, NEW p \in Posts, HelperPosts(h, p)
         PROVE  TypeOK'
    <3>1. done' \in Seq(Completions)
      BY <2>15, AppendToQueue DEF HelperPosts, TypeOK
    <3>. QED BY <2>15, <3>1 DEF HelperPosts, TypeOK, poolVars
  <2>16. CASE UNCHANGED vars
    BY <2>16 DEF vars, TypeOK
  <2>. QED
    BY <2>1, <2>2, <2>3, <2>4, <2>5, <2>6, <2>7, <2>8, <2>9, <2>10, <2>11,
       <2>12, <2>13, <2>14, <2>15, <2>16 DEF Next, OwnerStep
<1>. QED BY <1>1, <1>2, PTL DEF Spec

-----------------------------------------------------------------------------
(* The phases of the pool's life: workers exist once the pool is started,  *)
(* nothing is queued before that, and a worker exits only from an empty    *)
(* queue that nothing can be appended to any more.                         *)
Phases ==
  /\ ~pool_started => jobs = <<>> /\ \A w \in Workers : wpc[w] = "off"
  /\ pool_started => \A w \in Workers : wpc[w] # "off"
  /\ closing <=> opc \in {"join", "freed"}
  /\ \A w \in Workers : wpc[w] = "exited" => closing /\ jobs = <<>>

LEMMA PhasesInductive == Phases /\ TypeOK /\ [Next]_vars => Phases'
<1> SUFFICES ASSUME Phases, TypeOK, [Next]_vars
             PROVE  Phases'
  OBVIOUS
<1> USE DEF Phases
<1>1. CASE PoolStart
  BY <1>1 DEF PoolStart, TypeOK
<1>2. ASSUME NEW j \in Jobs, Offload(j)
      PROVE  Phases'
  BY <1>2, SignalType DEF Offload, Enqueue
<1>3. CASE \/ BeginHarvest \/ Take \/ TakeNone \/ Resume \/ BeginWait
           \/ DrainWake \/ WaitReturns
  BY <1>3 DEF BeginHarvest, Take, TakeNone, Resume, BeginWait, DrainWake,
              WaitReturns, poolVars
<1>4. CASE BeginFree
  BY <1>4, BroadcastType DEF BeginFree
<1>5. CASE JoinAndFree
  BY <1>5 DEF JoinAndFree
<1>6. ASSUME NEW w \in Workers, WorkerStep(w) \/ SpuriousWakeup(w)
      PROVE  Phases'
  BY <1>6 DEF WorkerStep, SpuriousWakeup, WorkerSleeps, WorkerExits,
              WorkerSettles, WorkerPops, WorkerPosts, WorkerWakes, TypeOK
<1>7. ASSUME NEW h \in Helpers,
             HelperWakes(h) \/ \E p \in Posts : HelperPosts(h, p)
      PROVE  Phases'
  BY <1>7 DEF HelperWakes, HelperPosts, poolVars
<1>8. CASE UNCHANGED vars
  BY <1>8 DEF vars
<1>. QED
  BY <1>1, <1>2, <1>3, <1>4, <1>5, <1>6, <1>7, <1>8 DEF Next, OwnerStep

THEOREM PhasesCorrect == Spec => []Phases
<1>1. Init => Phases
  BY DEF Init, Phases
<1>. QED BY <1>1, PhasesInductive, TypeCorrect, PTL DEF Spec
-----------------------------------------------------------------------------
(* Every completion in exactly one place.                                  *)

LEMMA ExactlyOnceInductive ==
  ExactlyOnce /\ TypeOK /\ TypeOK' /\ Phases /\ [Next]_vars => ExactlyOnce'
<1> SUFFICES ASSUME ExactlyOnce, TypeOK, TypeOK', Phases, [Next]_vars
             PROVE  ExactlyOnce'
  OBVIOUS
<1> USE DEF ExactlyOnce, Held
<1>1. CASE PoolStart
  BY <1>1 DEF PoolStart, doneVars, history, Phases
<1>2. ASSUME NEW j \in Jobs, Offload(j)
      PROVE  ExactlyOnce'
  <2>1. j \notin used
    BY <1>2 DEF Offload
  <2>2. Range(jobs') = Range(jobs) \cup {j} /\ IsInjective(jobs')
    BY <1>2, <2>1, AppendToQueue DEF Offload, Enqueue, TypeOK
  <2>3. /\ wjob' = wjob
        /\ \A w \in Workers : wpc'[w] = "run" <=> wpc[w] = "run"
    BY <1>2, SignalType DEF Offload, Enqueue
  <2>4. Held' = Held
    BY <2>3
  <2>. QED BY <1>2, <2>1, <2>2, <2>3, <2>4 DEF Offload, doneVars
<1>3. CASE \/ BeginHarvest \/ TakeNone \/ Resume \/ BeginWait
           \/ DrainWake \/ WaitReturns
  BY <1>3 DEF BeginHarvest, TakeNone, Resume, BeginWait, DrainWake,
              WaitReturns, poolVars, doneVars, history
<1>4. CASE Take
  <2>1. /\ Range(done) = {Head(done)} \cup Range(done')
        /\ IsInjective(done') /\ Head(done) \notin Range(done')
    BY <1>4, PopFromQueue DEF Take, TypeOK
  <2>. QED BY <1>4, <2>1 DEF Take, poolVars
<1>5. CASE BeginFree
  <2>1. /\ wjob' = wjob
        /\ \A w \in Workers : wpc'[w] = "run" <=> wpc[w] = "run"
    BY <1>5, BroadcastType DEF BeginFree
  <2>2. Held' = Held
    BY <2>1
  <2>. QED BY <1>5, <2>1, <2>2 DEF BeginFree, doneVars, history
<1>6. CASE JoinAndFree
  <2>1. \A w \in Workers : wpc[w] # "run"
    BY <1>6 DEF JoinAndFree, Phases
  <2>2. Range(jobs') = {} /\ Range(done') = {} /\ IsInjective(jobs')
        /\ IsInjective(done') /\ wpc' = wpc /\ wjob' = wjob
    BY <1>6, EmptyQueue DEF JoinAndFree
  <2>. QED BY <1>6, <2>1, <2>2 DEF JoinAndFree
<1>7. ASSUME NEW w \in Workers, WorkerStep(w) \/ SpuriousWakeup(w)
      PROVE  ExactlyOnce'
  <2>1. CASE WorkerPops(w)
    <3>1. /\ Range(jobs) = {Head(jobs)} \cup Range(jobs') /\ Head(jobs) \in Jobs
          /\ IsInjective(jobs') /\ Head(jobs) \notin Range(jobs')
      BY <2>1, PopFromQueue DEF WorkerPops, TypeOK
    <3>2. /\ wjob'[w] = Head(jobs) /\ wpc'[w] = "run" /\ wpc[w] # "run"
          /\ \A v \in Workers \ {w} : wpc'[v] = wpc[v] /\ wjob'[v] = wjob[v]
      BY <2>1 DEF WorkerPops, TypeOK
    <3>3. Held' = Held \cup {Head(jobs)} /\ Head(jobs) \notin Held
      BY <3>1, <3>2
    <3>4. \A u, v \in Workers :
            wpc'[u] = "run" /\ wpc'[v] = "run" /\ wjob'[u] = wjob'[v] => u = v
      BY <3>2, <3>3
    <3>5. UNCHANGED <<done, used, taken, dropped>>
      BY <2>1 DEF WorkerPops, doneVars, history
    <3>. HIDE DEF Held
    <3>. QED BY <3>1, <3>3, <3>4, <3>5
  <2>2. CASE WorkerPosts(w)
    <3>1. wjob[w] \in Completions /\ wjob[w] \in Held /\ wjob[w] \notin Range(done)
      BY <2>2 DEF WorkerPosts, TypeOK
    <3>2. Range(done') = Range(done) \cup {wjob[w]} /\ IsInjective(done')
      BY <2>2, <3>1, AppendToQueue DEF WorkerPosts, TypeOK
    <3>3. /\ wpc'[w] # "run" /\ wpc[w] = "run"
          /\ \A v \in Workers \ {w} : wpc'[v] = wpc[v] /\ wjob'[v] = wjob[v]
      BY <2>2 DEF WorkerPosts, TypeOK
    <3>4. Held' = Held \ {wjob[w]}
      BY <3>3
    <3>5. \A u, v \in Workers :
            wpc'[u] = "run" /\ wpc'[v] = "run" /\ wjob'[u] = wjob'[v] => u = v
      BY <3>3
    <3>. QED BY <2>2, <3>1, <3>2, <3>4, <3>5, SMTT(30) DEF WorkerPosts, history
  <2>3. CASE \/ WorkerSleeps(w) \/ WorkerExits(w) \/ WorkerWakes(w)
             \/ WorkerSettles(w) \/ SpuriousWakeup(w)
    <3>1. /\ wjob' = wjob /\ wpc[w] # "run" /\ wpc'[w] # "run"
          /\ \A v \in Workers \ {w} : wpc'[v] = wpc[v]
      BY <2>3 DEF WorkerSleeps, WorkerExits, WorkerWakes, WorkerSettles,
                  SpuriousWakeup, TypeOK
    <3>2. Held' = Held
      BY <3>1
    <3>. QED
      BY <2>3, <3>1, <3>2 DEF WorkerSleeps, WorkerExits, WorkerWakes,
         WorkerSettles, SpuriousWakeup, doneVars, history
  <2>. QED BY <1>7, <2>1, <2>2, <2>3 DEF WorkerStep
<1>8. ASSUME NEW h \in Helpers, HelperWakes(h)
      PROVE  ExactlyOnce'
  BY <1>8 DEF HelperWakes, poolVars, history
<1>9. ASSUME NEW h \in Helpers, NEW p \in Posts, HelperPosts(h, p)
      PROVE  ExactlyOnce'
  <2>1. p \notin used /\ p \in Completions
    BY <1>9 DEF HelperPosts
  <2>2. Range(done') = Range(done) \cup {p} /\ IsInjective(done')
    BY <1>9, <2>1, AppendToQueue DEF HelperPosts, TypeOK
  <2>. QED BY <1>9, <2>1, <2>2 DEF HelperPosts, poolVars
<1>10. CASE UNCHANGED vars
  BY <1>10 DEF vars
<1>. QED
  BY <1>1, <1>2, <1>3, <1>4, <1>5, <1>6, <1>7, <1>8, <1>9, <1>10
     DEF Next, OwnerStep

(* For any number of workers, helpers and jobs, a completion given to the  *)
(* pool is queued, running, posted, taken or freed, and never two of them. *)
THEOREM ExactlyOnceCorrect == Spec => []ExactlyOnce
<1>1. Init => ExactlyOnce
  BY EmptyQueue DEF Init, ExactlyOnce, Held
<1>. QED
  BY <1>1, ExactlyOnceInductive, TypeCorrect, PhasesCorrect, PTL DEF Spec

-----------------------------------------------------------------------------
(* No lost wakeup.                                                         *)

\* From the last empty take to the end of the wait, a posted completion is
\* announced: this is NoLostWakeup made inductive (it also covers the gap
\* between the harvest and epoll_wait).
WakeOwed ==
  opc \in {"swept", "wait"} /\ done # <<>> =>
    \/ wake
    \/ \E w \in Workers : wpc[w] = "wake"
    \/ \E h \in Helpers : hpc[h] = "wake"

LEMMA WakeOwedInductive ==
  ASSUME Backend = "epoll"
  PROVE  WakeOwed /\ TypeOK /\ [Next]_vars => WakeOwed'
<1> SUFFICES ASSUME WakeOwed, TypeOK, [Next]_vars
             PROVE  WakeOwed'
  OBVIOUS
<1> USE DEF WakeOwed
<1>1. CASE \/ PoolStart \/ BeginHarvest \/ Take \/ TakeNone \/ Resume
           \/ DrainWake \/ WaitReturns \/ BeginFree \/ JoinAndFree
  BY <1>1 DEF PoolStart, BeginHarvest, Take, TakeNone, Resume, DrainWake,
              WaitReturns, BeginFree, JoinAndFree, doneVars
<1>2. ASSUME NEW j \in Jobs, Offload(j)
      PROVE  WakeOwed'
  BY <1>2 DEF Offload
<1>3. CASE BeginWait
  BY <1>3 DEF BeginWait, poolVars, doneVars
<1>4. ASSUME NEW w \in Workers, WorkerStep(w) \/ SpuriousWakeup(w)
      PROVE  WakeOwed'
  <2>1. CASE WorkerPosts(w)
    BY <2>1 DEF WorkerPosts, TypeOK
  <2>2. CASE WorkerWakes(w)
    BY <2>2 DEF WorkerWakes, WriteWake
  <2>3. CASE \/ WorkerSleeps(w) \/ WorkerExits(w) \/ WorkerPops(w)
             \/ WorkerSettles(w) \/ SpuriousWakeup(w)
    <3>1. \A v \in Workers : wpc[v] = "wake" => wpc'[v] = "wake"
      BY <2>3 DEF WorkerSleeps, WorkerExits, WorkerPops, WorkerSettles,
                  SpuriousWakeup, TypeOK
    <3>. QED
      BY <2>3, <3>1 DEF WorkerSleeps, WorkerExits, WorkerPops, WorkerSettles,
                        SpuriousWakeup, doneVars
  <2>. QED BY <1>4, <2>1, <2>2, <2>3 DEF WorkerStep
<1>5. ASSUME NEW h \in Helpers, HelperWakes(h)
      PROVE  WakeOwed'
  BY <1>5 DEF HelperWakes, WriteWake
<1>6. ASSUME NEW h \in Helpers, NEW p \in Posts, HelperPosts(h, p)
      PROVE  WakeOwed'
  <2>1. hpc'[h] = "wake"
    BY <1>6 DEF HelperPosts, TypeOK
  <2>. QED BY <2>1
<1>7. CASE UNCHANGED vars
  BY <1>7 DEF vars
<1>. QED
  BY <1>1, <1>2, <1>3, <1>4, <1>5, <1>6, <1>7 DEF Next, OwnerStep

(* With the eventfd backend the loop never sleeps over a completion that   *)
(* nobody will announce, whatever the interleaving of posters and loop.    *)
THEOREM NoLostWakeupCorrect ==
  ASSUME Backend = "epoll"
  PROVE  Spec => []NoLostWakeup
<1>1. Init => WakeOwed
  BY DEF Init, WakeOwed
<1>2. WakeOwed => NoLostWakeup
  BY DEF WakeOwed, NoLostWakeup
<1>3. WakeOwed /\ TypeOK /\ [Next]_vars => WakeOwed'
  BY WakeOwedInductive
<1>. QED BY <1>1, <1>2, <1>3, TypeCorrect, PTL DEF Spec

WakeSilent == wake = FALSE

(* On the backend that keeps only the read end of its pipe in wake_fd, and *)
(* writes to it, the wake descriptor never becomes readable: no completion *)
(* ever announces itself, and a wait with no timer and no ready descriptor *)
(* does not end.  (The header of pengu_reactor.c speaks of a self-pipe.)   *)
THEOREM PollNeverWakes ==
  ASSUME Backend = "poll"
  PROVE  Spec => []WakeSilent
<1>1. Init => WakeSilent
  BY DEF Init, WakeSilent
<1>2. WakeSilent /\ [Next]_vars => WakeSilent'
  <2> SUFFICES ASSUME wake = FALSE, [Next]_vars
               PROVE  wake' = FALSE
    BY DEF WakeSilent
  <2>1. CASE OwnerStep
    BY <2>1 DEF OwnerStep, Offload, BeginHarvest, Take, TakeNone, Resume,
                BeginWait, DrainWake, WaitReturns, BeginFree, JoinAndFree,
                PoolStart, doneVars, history
  <2>2. ASSUME NEW w \in Workers, WorkerStep(w) \/ SpuriousWakeup(w)
        PROVE  wake' = FALSE
    BY <2>2 DEF WorkerStep, SpuriousWakeup, WorkerSleeps, WorkerExits,
                WorkerPops, WorkerPosts, WorkerWakes, WorkerSettles,
                WriteWake, doneVars
  <2>3. ASSUME NEW h \in Helpers,
               HelperWakes(h) \/ \E p \in Posts : HelperPosts(h, p)
        PROVE  wake' = FALSE
    BY <2>3 DEF HelperWakes, HelperPosts, WriteWake
  <2>4. CASE UNCHANGED vars
    BY <2>4 DEF vars
  <2>. QED BY <2>1, <2>2, <2>3, <2>4 DEF Next
<1>. QED BY <1>1, <1>2, PTL DEF Spec

-----------------------------------------------------------------------------
(* One signal per offload is enough.                                       *)

AtLock == {w \in Workers : wpc[w] = "lock"}

LEMMA AtLockFinite ==
  /\ IsFiniteSet(AtLock) /\ Cardinality(AtLock) \in Nat
  /\ IsFiniteSet(AtLock') /\ Cardinality(AtLock') \in Nat
<1>1. IsFiniteSet(AtLock) /\ IsFiniteSet(AtLock')
  BY FS_Subset DEF AtLock
<1>. QED BY <1>1, FS_CardinalityType

LEMMA WorkConservingInductive ==
  WorkConserving /\ TypeOK /\ [Next]_vars => WorkConserving'
<1> SUFFICES ASSUME Waiting # {} => Len(jobs) <= Cardinality(AtLock),
                    TypeOK, [Next]_vars, Waiting' # {}
             PROVE  Len(jobs') <= Cardinality(AtLock')
  BY DEF WorkConserving, AtLock
<1>0. /\ Cardinality(AtLock) \in Nat /\ Cardinality(AtLock') \in Nat
      /\ IsFiniteSet(AtLock) /\ IsFiniteSet(AtLock') /\ Len(jobs) \in Nat
  BY AtLockFinite DEF TypeOK
<1>1. CASE PoolStart
  BY <1>1 DEF PoolStart, Waiting
<1>2. ASSUME NEW j \in Jobs, Offload(j)
      PROVE  Len(jobs') <= Cardinality(AtLock')
  <2>1. Len(jobs') = Len(jobs) + 1
    BY <1>2, AppendToQueue DEF Offload, Enqueue, TypeOK
  <2>2. CASE Waiting = {} /\ wpc' = wpc
    BY <2>2 DEF Waiting
  <2>3. CASE \E w \in Waiting : wpc' = [wpc EXCEPT ![w] = "lock"]
    <3>1. PICK w \in Waiting : wpc' = [wpc EXCEPT ![w] = "lock"]
      BY <2>3
    <3>2. AtLock' = AtLock \cup {w} /\ w \notin AtLock
      BY <3>1 DEF AtLock, Waiting, TypeOK
    <3>3. Cardinality(AtLock') = Cardinality(AtLock) + 1
      BY <3>2, <1>0, FS_AddElement
    <3>. QED BY <2>1, <3>1, <3>3, <1>0
  <2>. QED BY <1>2, <2>2, <2>3 DEF Offload, Enqueue, Signal
<1>3. CASE \/ BeginHarvest \/ Take \/ TakeNone \/ Resume \/ BeginWait
           \/ DrainWake \/ WaitReturns
  BY <1>3 DEF BeginHarvest, Take, TakeNone, Resume, BeginWait, DrainWake,
              WaitReturns, poolVars, Waiting, AtLock
<1>4. CASE BeginFree
  BY <1>4, BroadcastType DEF BeginFree, Waiting
<1>5. CASE JoinAndFree
  BY <1>5, <1>0 DEF JoinAndFree
<1>6. ASSUME NEW w \in Workers, WorkerStep(w)
      PROVE  Len(jobs') <= Cardinality(AtLock')
  <2>1. CASE WorkerSleeps(w) \/ WorkerExits(w)
    BY <2>1, <1>0 DEF WorkerSleeps, WorkerExits
  <2>2. CASE WorkerPops(w)
    <3>1. Len(jobs') = Len(jobs) - 1
      BY <2>2, PopFromQueue DEF WorkerPops, TypeOK
    <3>2. AtLock' = AtLock \ {w} /\ w \in AtLock /\ Waiting' = Waiting
      BY <2>2 DEF WorkerPops, AtLock, Waiting, TypeOK
    <3>3. Cardinality(AtLock') = Cardinality(AtLock) - 1
      BY <3>2, <1>0, FS_RemoveElement
    <3>. QED BY <3>1, <3>2, <3>3, <1>0
  <2>3. CASE WorkerPosts(w) \/ WorkerWakes(w)
    BY <2>3, ZenonT(40) DEF WorkerPosts, WorkerWakes, AtLock, Waiting, TypeOK
  <2>4. CASE WorkerSettles(w)
    <3>1. AtLock' = AtLock \cup {w} /\ w \notin AtLock /\ Waiting' = Waiting
      BY <2>4 DEF WorkerSettles, AtLock, Waiting, TypeOK
    <3>2. Cardinality(AtLock') = Cardinality(AtLock) + 1
      BY <3>1, <1>0, FS_AddElement
    <3>. QED BY <2>4, <3>1, <3>2, <1>0 DEF WorkerSettles
  <2>. QED BY <1>6, <2>1, <2>2, <2>3, <2>4 DEF WorkerStep
<1>7. ASSUME NEW w \in Workers, SpuriousWakeup(w)
      PROVE  Len(jobs') <= Cardinality(AtLock')
  <2>1. AtLock' = AtLock \cup {w} /\ w \notin AtLock /\ Waiting # {}
    BY <1>7 DEF SpuriousWakeup, AtLock, Waiting, TypeOK
  <2>2. Cardinality(AtLock') = Cardinality(AtLock) + 1
    BY <2>1, <1>0, FS_AddElement
  <2>. QED BY <1>7, <2>1, <2>2, <1>0 DEF SpuriousWakeup
<1>8. ASSUME NEW h \in Helpers,
             HelperWakes(h) \/ \E p \in Posts : HelperPosts(h, p)
      PROVE  Len(jobs') <= Cardinality(AtLock')
  BY <1>8 DEF HelperWakes, HelperPosts, poolVars, Waiting, AtLock
<1>9. CASE UNCHANGED vars
  BY <1>9 DEF vars, Waiting, AtLock
<1>. QED
  BY <1>1, <1>2, <1>3, <1>4, <1>5, <1>6, <1>7, <1>8, <1>9 DEF Next, OwnerStep

(* While a worker sleeps, the awake workers suffice for the queue: signal, *)
(* not broadcast, is right in pengu_c_reactor_offload for any pool size.   *)
THEOREM WorkConservingCorrect == Spec => []WorkConserving
<1>1. Init => WorkConserving
  BY DEF Init, WorkConserving, Waiting
<1>. QED BY <1>1, WorkConservingInductive, TypeCorrect, PTL DEF Spec

-----------------------------------------------------------------------------
(* The pool implements OffloadService.                                     *)

LEMMA StepSimulation ==
  /\ [Next]_vars /\ TypeOK /\ Phases /\ ExactlyOnce /\ ExactlyOnce'
  => [Service!Next]_(Service!svars)
<1> SUFFICES ASSUME [Next]_vars, TypeOK, Phases, ExactlyOnce, ExactlyOnce'
             PROVE  [Service!Next]_(Service!svars)
  OBVIOUS
<1>0. Service!Known = used
  BY DEF Service!Known, ExactlyOnce
<1>1. CASE \/ BeginHarvest \/ TakeNone \/ Resume \/ BeginWait
           \/ DrainWake \/ WaitReturns \/ UNCHANGED vars
  BY <1>1 DEF BeginHarvest, TakeNone, Resume, BeginWait, DrainWake,
     WaitReturns, poolVars, doneVars, history, vars, Service!svars, Held
<1>2. CASE PoolStart
  <2>1. Held' = Held
    BY <1>2 DEF PoolStart, Held, Phases
  <2>. QED BY <1>2, <2>1 DEF PoolStart, doneVars, history, Service!svars
<1>3. ASSUME NEW j \in Jobs, Offload(j)
      PROVE  Service!Next
  <2>1. Range(jobs') = Range(jobs) \cup {j}
    BY <1>3, AppendToQueue DEF Offload, Enqueue, TypeOK
  <2>2. Held' = Held
    BY <1>3, SignalType DEF Offload, Enqueue, Held
  <2>3. Service!Accept(j)
    BY <1>0, <1>3, <2>1, <2>2 DEF Offload, doneVars, Service!Accept
  <2>. QED BY <2>3 DEF Service!Next
<1>4. CASE Take
  <2>1. /\ Range(done) = {Head(done)} \cup Range(done')
        /\ Head(done) \notin Range(done') /\ Head(done) \in Completions
    BY <1>4, PopFromQueue DEF Take, TypeOK, ExactlyOnce
  <2>2. Held' = Held
    BY <1>4 DEF Take, poolVars, Held
  <2>3. Service!Deliver(Head(done))
    BY <1>4, <2>1, <2>2 DEF Take, poolVars, Service!Deliver
  <2>. QED BY <2>1, <2>3 DEF Service!Next
<1>5. CASE BeginFree
  <2>1. Held' = Held
    BY <1>5, BroadcastType DEF BeginFree, Held
  <2>. QED BY <1>5, <2>1 DEF BeginFree, doneVars, history, Service!svars
<1>6. CASE JoinAndFree
  <2>1. jobs = <<>> /\ \A w \in Workers : wpc[w] # "run"
    BY <1>6 DEF JoinAndFree, Phases
  <2>2. Range(jobs) = {} /\ Held = {} /\ Held' = {} /\ Range(jobs') = {}
        /\ Range(done') = {}
    BY <1>6, <2>1, EmptyQueue DEF JoinAndFree, Held
  <2>3. Service!Close
    BY <1>6, <2>2 DEF JoinAndFree, Service!Close
  <2>. QED BY <2>3 DEF Service!Next
<1>7. ASSUME NEW w \in Workers, WorkerStep(w) \/ SpuriousWakeup(w)
      PROVE  [Service!Next]_(Service!svars)
  <2>1. CASE WorkerPops(w)
    <3>1. Range(jobs) = {Head(jobs)} \cup Range(jobs')
      BY <2>1, PopFromQueue DEF WorkerPops, TypeOK
    <3>2. Held' = Held \cup {Head(jobs)}
      BY <2>1 DEF WorkerPops, TypeOK, Held
    <3>. QED
      BY <2>1, <3>1, <3>2 DEF WorkerPops, doneVars, history, Service!svars
  <2>2. CASE WorkerPosts(w)
    <3>1. wjob[w] \in Completions /\ wjob[w] \in Held
      BY <2>2 DEF WorkerPosts, TypeOK, Held
    <3>2. Range(done') = Range(done) \cup {wjob[w]}
      BY <2>2, <3>1, AppendToQueue DEF WorkerPosts, TypeOK
    <3>3. Held' = Held \ {wjob[w]} /\ wjob[w] \notin Range(jobs)
      BY <2>2, <3>1 DEF WorkerPosts, TypeOK, Held, ExactlyOnce
    <3>4. Service!Finish(wjob[w])
      BY <2>2, <3>1, <3>2, <3>3 DEF WorkerPosts, history, Service!Finish
    <3>. QED BY <3>1, <3>4 DEF Service!Next
  <2>3. CASE \/ WorkerSleeps(w) \/ WorkerExits(w) \/ WorkerWakes(w)
             \/ WorkerSettles(w) \/ SpuriousWakeup(w)
    <3>1. /\ wjob' = wjob /\ wpc[w] # "run" /\ wpc'[w] # "run"
          /\ \A v \in Workers \ {w} : wpc'[v] = wpc[v]
      BY <2>3 DEF WorkerSleeps, WorkerExits, WorkerWakes, WorkerSettles,
                  SpuriousWakeup, TypeOK
    <3>2. Held' = Held
      BY <3>1 DEF Held
    <3>. QED
      BY <2>3, <3>2 DEF WorkerSleeps, WorkerExits, WorkerWakes,
         WorkerSettles, SpuriousWakeup, doneVars, history, Service!svars
  <2>. QED BY <1>7, <2>1, <2>2, <2>3 DEF WorkerStep
<1>8. ASSUME NEW h \in Helpers, HelperWakes(h)
      PROVE  [Service!Next]_(Service!svars)
  BY <1>8 DEF HelperWakes, poolVars, history, Held, Service!svars
<1>9. ASSUME NEW h \in Helpers, NEW p \in Posts, HelperPosts(h, p)
      PROVE  Service!Next
  <2>1. Range(done') = Range(done) \cup {p}
    BY <1>9, AppendToQueue DEF HelperPosts, TypeOK
  <2>2. Held' = Held
    BY <1>9 DEF HelperPosts, poolVars, Held
  <2>3. Service!Post(p)
    BY <1>0, <1>9, <2>1, <2>2 DEF HelperPosts, poolVars, Service!Post
  <2>. QED BY <2>3 DEF Service!Next
<1>. QED
  BY <1>1, <1>2, <1>3, <1>4, <1>5, <1>6, <1>7, <1>8, <1>9 DEF Next, OwnerStep

(* Every behaviour of the pool is one of the abstract service: a job runs  *)
(* once and is reported once, and close discards only what has run.        *)
THEOREM ServiceImplemented == Spec => ImplementsService
<1>1. Init => Service!Init
  BY EmptyQueue DEF Init, Service!Init, Held
<1>2. [Next]_vars /\ TypeOK /\ Phases /\ ExactlyOnce /\ ExactlyOnce'
      => [Service!Next]_(Service!svars)
  BY StepSimulation
<1>. QED
  BY <1>1, <1>2, TypeCorrect, PhasesCorrect, ExactlyOnceCorrect, PTL
     DEF Spec, ImplementsService, Service!Spec
=============================================================================
