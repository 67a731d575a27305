---------------------- MODULE PetitioDispatcher_proofs ----------------------
(***************************************************************************)
(* Proofs about the transfer dispatcher (module PetitioDispatcher), for    *)
(* any number of requests and any size of batch.                           *)
(*                                                                         *)
(* The inductive invariant is TypeOK, Flow (what the phases of a batch say *)
(* about where requests are), RequestsOnce and CallsWhole.  The other      *)
(* invariants follow from it.                                              *)
(***************************************************************************)
EXTENDS PetitioDispatcher, TLAPS

USE DispatcherAssumption

-----------------------------------------------------------------------------
(* Queues.                                                                 *)

\* The elements of the empty queue.
LEMMA EmptyQueue ==
  Range(<<>>) = {} /\ IsInjective(<<>>)
  BY DEF Range, IsInjective

\* Popping removes the head, and nothing else if elements are distinct.
LEMMA PopFromQueue ==
  ASSUME NEW S, NEW q \in Seq(S), q # <<>>
  PROVE  /\ Head(q) \in S
         /\ Tail(q) \in Seq(S)
         /\ Len(Tail(q)) = Len(q) - 1
         /\ Range(q) = {Head(q)} \cup Range(Tail(q))
         /\ IsInjective(q) => /\ IsInjective(Tail(q))
                              /\ Head(q) \notin Range(Tail(q))
<1>1. /\ Head(q) = q[1] /\ q[1] \in S /\ Len(q) \in Nat \ {0}
      /\ Tail(q) \in Seq(S) /\ Len(Tail(q)) = Len(q) - 1
      /\ \A i \in 1..Len(Tail(q)) : Tail(q)[i] = q[i + 1]
  OBVIOUS
<1>2. DOMAIN q = 1..Len(q) /\ DOMAIN Tail(q) = 1..(Len(q) - 1)
  BY <1>1
<1>3. Range(q) = {Head(q)} \cup Range(Tail(q))
  <2>1. ASSUME NEW i \in DOMAIN q, i # 1
        PROVE  q[i] \in Range(Tail(q))
    <3>1. i - 1 \in DOMAIN Tail(q) /\ Tail(q)[i - 1] = q[i]
      BY <1>1, <1>2, <2>1
    <3>. QED BY <3>1 DEF Range
  <2>2. ASSUME NEW x \in Range(q)
        PROVE  x \in {Head(q)} \cup Range(Tail(q))
    <3>1. PICK i \in DOMAIN q : x = q[i]
      BY DEF Range
    <3>. QED BY <1>1, <2>1, <3>1
  <2>3. Head(q) \in Range(q)
    BY <1>1, <1>2 DEF Range
  <2>4. Range(Tail(q)) \subseteq Range(q)
    BY <1>1, <1>2 DEF Range
  <2>. QED BY <2>2, <2>3, <2>4
<1>4. ASSUME IsInjective(q)
      PROVE  IsInjective(Tail(q)) /\ Head(q) \notin Range(Tail(q))
  BY <1>1, <1>2, <1>4 DEF IsInjective, Range
<1>. QED BY <1>1, <1>3, <1>4

\* Appending a whole queue adds its elements, and keeps elements distinct if
\* the two have none in common.
LEMMA ConcatQueues ==
  ASSUME NEW S, NEW q \in Seq(S), NEW r \in Seq(S)
  PROVE  /\ q \o r \in Seq(S)
         /\ Range(q \o r) = Range(q) \cup Range(r)
         /\ IsInjective(q) /\ IsInjective(r) /\ Range(q) \cap Range(r) = {}
              => IsInjective(q \o r)
<1>1. /\ q \o r \in Seq(S) /\ Len(q) \in Nat /\ Len(r) \in Nat
      /\ DOMAIN q = 1..Len(q) /\ DOMAIN r = 1..Len(r)
      /\ DOMAIN (q \o r) = 1..(Len(q) + Len(r))
  OBVIOUS
<1>2. /\ \A i \in DOMAIN q : i \in DOMAIN (q \o r) /\ (q \o r)[i] = q[i]
      /\ \A i \in DOMAIN r : /\ Len(q) + i \in DOMAIN (q \o r)
                             /\ (q \o r)[Len(q) + i] = r[i]
  BY <1>1
<1>3. \A i \in DOMAIN (q \o r) :
        \/ i \in DOMAIN q /\ (q \o r)[i] = q[i]
        \/ i \notin DOMAIN q /\ i - Len(q) \in DOMAIN r
              /\ (q \o r)[i] = r[i - Len(q)]
  BY <1>1
<1>4. Range(q \o r) = Range(q) \cup Range(r)
  <2>1. ASSUME NEW x \in Range(q \o r)
        PROVE  x \in Range(q) \cup Range(r)
    BY <1>3 DEF Range
  <2>2. ASSUME NEW x \in Range(q)
        PROVE  x \in Range(q \o r)
    BY <1>2 DEF Range
  <2>3. ASSUME NEW x \in Range(r)
        PROVE  x \in Range(q \o r)
    BY <1>2 DEF Range
  <2>. QED BY <2>1, <2>2, <2>3
<1>5. ASSUME IsInjective(q), IsInjective(r), Range(q) \cap Range(r) = {}
      PROVE  IsInjective(q \o r)
  <2> SUFFICES ASSUME NEW i \in DOMAIN (q \o r), NEW j \in DOMAIN (q \o r),
                      (q \o r)[i] = (q \o r)[j]
               PROVE  i = j
    BY DEF IsInjective
  <2>1. (i \in DOMAIN q) <=> (j \in DOMAIN q)
    <3>1. \A k \in DOMAIN q, l \in DOMAIN r : q[k] # r[l]
      BY <1>5 DEF Range
    <3>. QED BY <1>3, <3>1
  <2>2. CASE i \in DOMAIN q
    BY <1>3, <1>5, <2>1, <2>2 DEF IsInjective
  <2>3. CASE i \notin DOMAIN q
    <3>1. i - Len(q) = j - Len(q)
      BY <1>3, <1>5, <2>1, <2>3 DEF IsInjective
    <3>. QED BY <1>1, <3>1
  <2>. QED BY <2>2, <2>3
<1>. QED BY <1>1, <1>4, <1>5

\* The elements of a queue are elements of the set it is over.
LEMMA RangeOfQueue ==
  ASSUME NEW S, NEW q \in Seq(S)
  PROVE  Range(q) \subseteq S
  BY DEF Range

-----------------------------------------------------------------------------
(* The tokens of one call.                                                 *)

Fresh(n) == [i \in 1..n |-> next + i - 1]

LEMMA FreshTokens ==
  ASSUME TypeOK, NEW n \in 1..MaxBatch, next + n - 1 <= MaxReq
  PROVE  /\ Fresh(n) \in Seq(Tokens)
         /\ Range(Fresh(n)) = next..(next + n - 1)
         /\ IsInjective(Fresh(n))
         /\ next + n \in 1..(MaxReq + 1)
         /\ next..(next + n - 1) \subseteq Tokens
         /\ next..(next + n - 1) # {}
<1>1. next \in Int /\ next >= 1 /\ n \in Int /\ n >= 1
  BY DEF TypeOK
<1>2. \A i \in 1..n : Fresh(n)[i] = next + i - 1 /\ Fresh(n)[i] \in Tokens
  BY <1>1 DEF Fresh, Tokens
<1>3. Fresh(n) \in Seq(Tokens)
  BY <1>1, <1>2 DEF Fresh
<1>4. \A x \in next..(next + n - 1) : x - next + 1 \in 1..n /\ Fresh(n)[x - next + 1] = x
  BY <1>1 DEF Fresh
<1>5. Range(Fresh(n)) = next..(next + n - 1)
  <2>1. ASSUME NEW x \in Range(Fresh(n))
        PROVE  x \in next..(next + n - 1)
    BY <1>1, <1>2 DEF Range, Fresh
  <2>2. ASSUME NEW x \in next..(next + n - 1)
        PROVE  x \in Range(Fresh(n))
    BY <1>4 DEF Range, Fresh
  <2>. QED BY <2>1, <2>2
<1>6. IsInjective(Fresh(n))
  BY <1>1 DEF IsInjective, Fresh
<1>7. next + n \in 1..(MaxReq + 1) /\ next..(next + n - 1) \subseteq Tokens
  BY <1>1 DEF Tokens
<1>8. next \in next..(next + n - 1)
  BY <1>1
<1>. QED BY <1>3, <1>5, <1>6, <1>7, <1>8

-----------------------------------------------------------------------------
(* Type correctness.                                                       *)

LEMMA TypeInductive == TypeOK /\ [Next]_vars => TypeOK'
<1> SUFFICES ASSUME TypeOK, [Next]_vars
             PROVE  TypeOK'
  OBVIOUS
<1>0. Range(batch) \subseteq Tokens
  BY RangeOfQueue DEF TypeOK
<1>1. CASE Get
  BY <1>1 DEF Get, TypeOK, queueVars, engineVars
<1>2. ASSUME NEW n \in 1..MaxBatch, Submit(n)
      PROVE  TypeOK'
  <2>1. jobs' = jobs \o Fresh(n) /\ next' = next + n
    BY <1>2 DEF Submit, Hand, Fresh
  <2>2. jobs' \in Seq(Tokens)
    BY <1>2, <2>1, FreshTokens, ConcatQueues DEF Submit, TypeOK
  <2>3. calls' \subseteq SUBSET Tokens
    BY <1>2, FreshTokens DEF Submit, Hand, TypeOK
  <2>. QED
    BY <1>2, <2>1, <2>2, <2>3, FreshTokens DEF Submit, Broadcast, TypeOK, engineVars
<1>3. ASSUME NEW c \in calls, CallReturns(c)
      PROVE  TypeOK'
  BY <1>3 DEF CallReturns, TypeOK, engineVars
<1>4. CASE FreeStops \/ FreeBroadcasts \/ FreeJoins
  BY <1>4 DEF FreeStops, FreeBroadcasts, FreeJoins, Broadcast, TypeOK, queueVars,
              engineVars
<1>5. CASE Locks \/ SeesNothing \/ Sleeps \/ Exits \/ SpuriousWakeup
  BY <1>5 DEF Locks, SeesNothing, Sleeps, Exits, SpuriousWakeup, TypeOK,
              queueVars, engineVars
<1>6. CASE TakesBatch
  <2>1. jobs' \in Seq(Tokens)
    BY <1>6 DEF TakesBatch
  <2>. QED BY <1>6, <2>1 DEF TakesBatch, TypeOK
<1>7. CASE NoEngine \/ AddsAll
  BY <1>0, <1>7 DEF NoEngine, AddsAll, TypeOK, queueVars
<1>8. CASE BatchEnds \/ PostsDone
  BY <1>8 DEF BatchEnds, PostsDone, TypeOK, queueVars, engineVars
<1>9. CASE Posts
  BY <1>9, PopFromQueue DEF Posts, TypeOK, queueVars
<1>10. ASSUME NEW r \in Tokens, TransferEnds(r)
       PROVE  TypeOK'
  BY <1>10 DEF TransferEnds, TypeOK, queueVars
<1>11. CASE UNCHANGED vars
  BY <1>11 DEF vars, TypeOK, queueVars, engineVars
<1>. QED
  BY <1>1, <1>2, <1>3, <1>4, <1>5, <1>6, <1>7, <1>8, <1>9, <1>10, <1>11
     DEF Next, LoopThread, DispatcherStep

LEMMA InitType == Init => TypeOK
<1>1. <<>> \in Seq(Tokens) /\ 1 \in 1..(MaxReq + 1)
  OBVIOUS
<1>. QED BY <1>1 DEF Init, TypeOK

(* The fields of PetitioDispatcher, the batch and the positions of the two *)
(* threads stay in their ranges.                                           *)
THEOREM TypeCorrect == Spec => []TypeOK
  BY InitType, TypeInductive, PTL DEF Spec

-----------------------------------------------------------------------------
(* Where requests are in each phase.                                       *)

Flow ==
  /\ mutex <=> dpc \in {"check", "sleep"}
  /\ dpc \in {"sleep", "waiting"} => jobs = <<>>
  /\ dpc \notin {"engine", "transfer", "post"} => batch = <<>>
  /\ dpc # "transfer" => active = {} /\ lost = {}
  /\ dpc = "transfer" => Range(batch) \subseteq out \cup active \cup lost
  /\ dpc = "post" => Range(batch) \subseteq out
  /\ active \subseteq Range(batch)
  /\ posted \subseteq out
  /\ out \subseteq Range(batch) \cup posted
  /\ freed \subseteq posted
  /\ stopping <=> opc # "run"
  /\ dpc = "exited" => stopping /\ jobs = <<>>
  /\ dpc = "none" => jobs = <<>> /\ opc = "run"
  /\ opc = "freed" => dpc \in {"exited", "failed"}

(* A call's tokens are queued together.                                    *)
CallsWhole ==
  \A c \in calls :
    /\ c # {}
    /\ c \subseteq 1..(next - 1)
    /\ c \subseteq Range(jobs) \/ c \cap Range(jobs) = {}

IInv == TypeOK /\ Flow /\ RequestsOnce /\ CallsWhole

LEMMA Initially == Init => IInv
<1> SUFFICES ASSUME Init
             PROVE  Flow /\ RequestsOnce /\ CallsWhole
  BY InitType DEF IInv
<1>1. Range(jobs) = {} /\ Range(batch) = {} /\ IsInjective(jobs) /\ IsInjective(batch)
  BY EmptyQueue DEF Init
<1>2. 1..(next - 1) = {}
  BY DEF Init
<1>. QED BY <1>1, <1>2 DEF Init, Flow, RequestsOnce, CallsWhole

LEMMA SubmitKeeps ==
  ASSUME IInv, NEW n \in 1..MaxBatch, Submit(n)
  PROVE  Flow' /\ RequestsOnce' /\ CallsWhole'
<1> DEFINE S == next..(next + n - 1)
<1>1. /\ Range(Fresh(n)) = S /\ IsInjective(Fresh(n)) /\ Fresh(n) \in Seq(Tokens)
      /\ S # {}
  BY FreshTokens DEF IInv, Submit
<1>2. /\ next \in Int /\ next >= 1 /\ n \in Int /\ n >= 1
  BY DEF IInv, TypeOK
<1>3. /\ 1..(next' - 1) = 1..(next - 1) \cup S
      /\ 1..(next - 1) \cap S = {}
  BY <1>2 DEF Submit, Hand
<1>4. Range(jobs) \cap S = {} /\ Range(batch) \cap S = {} /\ posted \cap S = {}
  BY <1>3 DEF IInv, RequestsOnce
<1>5. jobs' = jobs \o Fresh(n)
  BY DEF Submit, Hand, Fresh
<1>6. Range(jobs') = Range(jobs) \cup S /\ IsInjective(jobs')
  BY <1>1, <1>4, <1>5, ConcatQueues DEF IInv, TypeOK, RequestsOnce
<1>7. Flow'
  BY DEF IInv, Flow, Submit, Broadcast, engineVars
<1>8. RequestsOnce'
  BY <1>3, <1>4, <1>6 DEF IInv, RequestsOnce, Submit, engineVars
<1>9. CallsWhole'
  <2> SUFFICES ASSUME NEW c \in calls'
               PROVE  /\ c # {}
                      /\ c \subseteq 1..(next' - 1)
                      /\ c \subseteq Range(jobs') \/ c \cap Range(jobs') = {}
    BY DEF CallsWhole
  <2>1. CASE c \in calls
    BY <1>3, <1>6, <2>1 DEF IInv, CallsWhole
  <2>2. CASE c = S
    BY <1>1, <1>3, <1>6, <2>2
  <2>. QED BY <2>1, <2>2 DEF Submit, Hand
<1>. QED BY <1>7, <1>8, <1>9

LEMMA PostKeeps ==
  ASSUME IInv, Posts
  PROVE  Flow' /\ RequestsOnce' /\ CallsWhole'
<1>1. /\ Range(batch) = {Head(batch)} \cup Range(batch')
      /\ IsInjective(batch') /\ Head(batch) \notin Range(batch')
  BY PopFromQueue DEF IInv, TypeOK, RequestsOnce, Posts
<1>2. Flow'
  BY <1>1 DEF IInv, Flow, Posts, queueVars
<1>3. RequestsOnce' /\ CallsWhole'
  BY <1>1 DEF IInv, RequestsOnce, CallsWhole, Posts, queueVars
<1>. QED BY <1>2, <1>3

LEMMA Inductive == IInv /\ [Next]_vars => IInv'
<1> SUFFICES ASSUME IInv, [Next]_vars
             PROVE  Flow' /\ RequestsOnce' /\ CallsWhole'
  BY TypeInductive DEF IInv
<1>1. CASE Get
  BY <1>1 DEF Get, IInv, Flow, RequestsOnce, CallsWhole, queueVars, engineVars
<1>2. ASSUME NEW n \in 1..MaxBatch, Submit(n)
      PROVE  Flow' /\ RequestsOnce' /\ CallsWhole'
  BY <1>2, SubmitKeeps
<1>3. ASSUME NEW c \in calls, CallReturns(c)
      PROVE  Flow' /\ RequestsOnce' /\ CallsWhole'
  BY <1>3 DEF CallReturns, IInv, Flow, RequestsOnce, CallsWhole, engineVars
<1>4. CASE FreeStops \/ FreeBroadcasts \/ FreeJoins
  BY <1>4 DEF FreeStops, FreeBroadcasts, FreeJoins, Broadcast, IInv, TypeOK, Flow,
              RequestsOnce, CallsWhole, queueVars, engineVars
<1>5. CASE Locks \/ SeesNothing \/ Sleeps \/ Exits \/ SpuriousWakeup
  BY <1>5 DEF Locks, SeesNothing, Sleeps, Exits, SpuriousWakeup, IInv, Flow,
              RequestsOnce, CallsWhole, queueVars, engineVars
<1>6. CASE TakesBatch
  <2>1. Range(jobs') = {} /\ IsInjective(jobs') /\ batch = <<>> /\ Range(batch) = {}
    BY <1>6, EmptyQueue DEF TakesBatch, IInv, Flow
  <2>2. Flow'
    BY <1>6, <2>1 DEF TakesBatch, IInv, Flow
  <2>3. RequestsOnce' /\ CallsWhole'
    BY <1>6, <2>1 DEF TakesBatch, IInv, RequestsOnce, CallsWhole
  <2>. QED BY <2>2, <2>3
<1>7. CASE NoEngine
  BY <1>7 DEF NoEngine, IInv, Flow, RequestsOnce, CallsWhole, queueVars
<1>8. CASE AddsAll
  BY <1>8 DEF AddsAll, IInv, Flow, RequestsOnce, CallsWhole, queueVars
<1>9. CASE BatchEnds
  BY <1>9 DEF BatchEnds, IInv, Flow, RequestsOnce, CallsWhole, queueVars, engineVars
<1>10. CASE Posts
  BY <1>10, PostKeeps
<1>11. CASE PostsDone
  BY <1>11 DEF PostsDone, IInv, Flow, RequestsOnce, CallsWhole, queueVars, engineVars
<1>12. ASSUME NEW r \in Tokens, TransferEnds(r)
       PROVE  Flow' /\ RequestsOnce' /\ CallsWhole'
  BY <1>12 DEF TransferEnds, IInv, Flow, RequestsOnce, CallsWhole, queueVars
<1>13. CASE UNCHANGED vars
  BY <1>13 DEF vars, IInv, Flow, RequestsOnce, CallsWhole, queueVars, engineVars
<1>. QED
  BY <1>1, <1>2, <1>3, <1>4, <1>5, <1>6, <1>7, <1>8, <1>9, <1>10, <1>11, <1>12,
     <1>13 DEF Next, LoopThread, DispatcherStep

LEMMA Invariance == Spec => []IInv
  BY Initially, Inductive, PTL DEF Spec

-----------------------------------------------------------------------------
(* What follows from it.                                                   *)

(* No request is dropped and none is posted twice.                         *)
THEOREM RequestsOnceCorrect == Spec => []RequestsOnce
  BY Invariance, PTL DEF IInv

(* The dispatcher never touches the job record of a call that returned.    *)
THEOREM JobsAliveCorrect == Spec => []JobsAlive
<1>1. IInv => JobsAlive
  BY DEF IInv, Flow, RequestsOnce, JobsAlive
<1>. QED BY <1>1, Invariance, PTL

(* await_posted returns only when the result is written.                   *)
THEOREM ResultBeforePostCorrect == Spec => []ResultBeforePost
<1>1. IInv => ResultBeforePost
  BY DEF IInv, Flow, ResultBeforePost
<1>. QED BY <1>1, Invariance, PTL

(* The requests of one fetch_many_async end up in one batch.               *)
THEOREM CallInOneBatchCorrect == Spec => []CallInOneBatch
<1>1. IInv => CallInOneBatch
  BY DEF IInv, CallsWhole, CallInOneBatch
<1>. QED BY <1>1, Invariance, PTL

(* The dispatcher does not sleep over queued requests.                     *)
THEOREM NoSleepOverJobsCorrect == Spec => []NoSleepOverJobs
<1>1. IInv => NoSleepOverJobs
  BY DEF IInv, Flow, NoSleepOverJobs
<1>. QED BY <1>1, Invariance, PTL

(* close finds nothing left to serve.                                      *)
THEOREM DrainedWhenFreedCorrect == Spec => []DrainedWhenFreed
<1>1. IInv => DrainedWhenFreed
  BY EmptyQueue DEF IInv, Flow, RequestsOnce, DrainedWhenFreed
<1>. QED BY <1>1, Invariance, PTL

-----------------------------------------------------------------------------
(* The dispatcher is the helper the event loop relies on, provided its     *)
(* thread could be started.                                                *)

Started == dpc # "failed"

LEMMA StartedInvariant ==
  ASSUME "thread" \notin Failures
  PROVE  Spec => []Started
<1>1. Init => Started
  BY DEF Init, Started
<1>2. Started /\ [Next]_vars => Started'
  BY DEF Started, Next, LoopThread, DispatcherStep, vars, queueVars, Get, Submit,
         Broadcast, CallReturns, FreeStops, FreeBroadcasts, FreeJoins, Locks,
         SeesNothing, Sleeps, Exits, TakesBatch, NoEngine, AddsAll, BatchEnds,
         Posts, PostsDone, SpuriousWakeup, TransferEnds
<1>. QED BY <1>1, <1>2, PTL DEF Spec

SOpen   == Range(jobs) \cup Range(batch)
SClosed == opc = "freed"

LEMMA StepRefines ==
  IInv /\ Started /\ [Next]_vars => [Service!Next]_(Service!rvars)
<1> SUFFICES ASSUME IInv, Started, [Next]_vars
             PROVE  Service!Next \/ UNCHANGED <<SOpen, posted, SClosed>>
  BY DEF Service!rvars, SOpen, SClosed
<1> USE DEF SOpen, SClosed
<1>1. ASSUME NEW n \in 1..MaxBatch, Submit(n)
      PROVE  Service!Next
  <2> DEFINE S == next..(next + n - 1)
  <2>1. /\ Range(Fresh(n)) = S /\ Fresh(n) \in Seq(Tokens) /\ S \subseteq Tokens
        /\ jobs' = jobs \o Fresh(n)
    BY <1>1, FreshTokens DEF IInv, Submit, Hand, Fresh
  <2>2. Range(jobs') = Range(jobs) \cup S
    BY <2>1, ConcatQueues DEF IInv, TypeOK
  <2>3. 1..(next - 1) \cap S = {}
    BY DEF IInv, TypeOK
  <2>4. S \cap (SOpen \cup posted) = {}
    BY <2>3 DEF IInv, RequestsOnce
  <2>5. Service!Hand(S)
    BY <1>1, <2>2, <2>4 DEF Service!Hand, Submit, engineVars
  <2>. QED BY <2>1, <2>5 DEF Service!Next
<1>2. CASE TakesBatch
  <2>1. batch = <<>> /\ Range(batch) = {} /\ Range(jobs') = {} /\ batch' = jobs
        /\ posted' = posted /\ opc' = opc
    BY <1>2, EmptyQueue DEF TakesBatch, IInv, Flow
  <2>. QED BY <2>1
<1>3. CASE Posts
  <2>1. /\ Range(batch) = {Head(batch)} \cup Range(batch')
        /\ Head(batch) \notin Range(batch')
        /\ Head(batch) \in Tokens
    BY <1>3, PopFromQueue DEF IInv, TypeOK, RequestsOnce, Posts
  <2>2. Head(batch) \notin Range(jobs)
    BY <2>1 DEF IInv, RequestsOnce
  <2>3. opc # "freed"
    BY <1>3 DEF Posts, IInv, Flow
  <2>4. Service!Post(Head(batch))
    BY <1>3, <2>1, <2>2, <2>3 DEF Posts, Service!Post, queueVars
  <2>. QED BY <2>1, <2>4 DEF Service!Next
<1>4. CASE FreeJoins
  <2>1. Range(jobs) = {} /\ Range(batch) = {}
    BY <1>4, EmptyQueue DEF FreeJoins, IInv, Flow, Started
  <2>2. Service!Close
    BY <1>4, <2>1 DEF FreeJoins, Service!Close, queueVars, engineVars
  <2>. QED BY <2>2 DEF Service!Next
<1>5. CASE \/ Get \/ (\E c \in calls : CallReturns(c)) \/ FreeStops
           \/ FreeBroadcasts \/ Locks \/ SeesNothing \/ Sleeps \/ Exits
           \/ SpuriousWakeup \/ NoEngine \/ AddsAll
           \/ (\E r \in Tokens : TransferEnds(r))
           \/ BatchEnds \/ PostsDone \/ UNCHANGED vars
  BY <1>5 DEF Get, CallReturns, FreeStops, FreeBroadcasts, Locks, SeesNothing,
              Sleeps, Exits, SpuriousWakeup, NoEngine, AddsAll, TransferEnds,
              BatchEnds, PostsDone, vars, queueVars, engineVars
<1>. QED
  BY <1>1, <1>2, <1>3, <1>4, <1>5 DEF Next, LoopThread, DispatcherStep

(* The dispatcher implements RequestService, the contract Reactor is       *)
(* written against.                                                        *)
THEOREM ServiceImplemented ==
  ASSUME "thread" \notin Failures
  PROVE  Spec => ServesRequests
<1>1. Init => Service!Init
  BY EmptyQueue DEF Init, Service!Init
<1>. QED
  BY <1>1, Invariance, StartedInvariant, StepRefines, PTL
     DEF Spec, ServesRequests, Service!Spec
=============================================================================
