-------------------------- MODULE FilumProgram_proofs --------------------------
(***************************************************************************)
(* Proofs about the threads, the WaitGroup and the Once of filum (modules  *)
(* FilumThread, FilumSync and FilumProgram), for any threads and any       *)
(* finite set of actors.  In the order of the invariants:                  *)
(*   threads    ThreadTypeOK, Shape (who may still be inside start, which  *)
(*              ids are known), Counted (what `refs` counts), and from     *)
(*              them RecordLifetime and PollHonest;                        *)
(*   the rest   SyncTypeOK and plan, OnceShape (who runs fn, and what has  *)
(*              happened before done), GroupShape (what `count` counts).   *)
(***************************************************************************)
EXTENDS FilumProgram, FiniteSetTheorems, TLAPS

USE FilumThreadAssumption, ProgramAssumption

-----------------------------------------------------------------------------
(* Threads: type correctness.                                              *)

LEMMA ThreadTypeInductive ==
  ThreadTypeOK /\ [ThreadNext]_threadVars => ThreadTypeOK'
<1> SUFFICES ASSUME ThreadTypeOK, [ThreadNext]_threadVars
             PROVE  ThreadTypeOK'
  OBVIOUS
<1> USE DEF ThreadTypeOK, Positions, Goes, Enters, Exits, Keep, Release
<1>1. ASSUME NEW a \in Actors, NEW t \in Threads, StartCalls(a, t)
      PROVE  ThreadTypeOK'
  BY <1>1 DEF StartCalls
<1>2. ASSUME NEW a \in Actors, NEW t \in Threads, CallOn(a, t)
      PROVE  ThreadTypeOK'
  BY <1>2 DEF CallOn, JoinTakes, DetachTakes, Takes, LooksUp, PollBegins,
              PollUnknown
<1>3. ASSUME NEW a \in Actors, InCall(a) \/ SpuriousJoinWakeup(a)
      PROVE  ThreadTypeOK'
  <2>1. CASE StartRegisters(a) \/ StartReturns(a)
    BY <2>1 DEF StartRegisters, StartReturns
  <2>2. CASE \/ Unlinks(a) \/ JoinSleeps(a) \/ JoinSees(a) \/ Leaves(a)
             \/ SpuriousJoinWakeup(a)
    BY <2>2 DEF Unlinks, JoinSleeps, JoinSees, Leaves, SpuriousJoinWakeup
  <2>3. CASE PollIsValid(a) \/ PollFinds(a) \/ PollLost(a) \/ PollReads(a)
    BY <2>3 DEF PollIsValid, PollFinds, PollLost, PollReads
  <2>. QED BY <1>3, <2>1, <2>2, <2>3 DEF InCall
<1>4. ASSUME NEW t \in Threads, Ends(t) \/ Epilogue(t)
      PROVE  ThreadTypeOK'
  <2>1. CASE Ends(t) \/ Dies(t)
    BY <2>1 DEF Ends, Dies
  <2>2. CASE Finishes(t)
    <3>1. /\ Awoken(t) \in [Actors -> Positions]
          /\ \A a \in Actors : Awoken(t)[a] = "idle" <=> apc[a] = "idle"
      BY DEF Awoken
    <3>. QED BY <2>2, <3>1 DEF Finishes
  <2>. QED BY <1>4, <2>1, <2>2 DEF Epilogue
<1>5. CASE UNCHANGED threadVars
  BY <1>5 DEF threadVars
<1>. QED BY <1>1, <1>2, <1>3, <1>4, <1>5 DEF ThreadNext

-----------------------------------------------------------------------------
(* Threads: shape.                                                         *)

\* A thread that was never started is unknown to everybody.  While start is
\* under way nobody else has the id, so nobody can take the record that
\* start is going to read; every other call is about a known id.  A record
\* that left the table never comes back.
Shape ==
  /\ \A t \in Threads : tpc[t] = "none" =>
       /\ t \notin table /\ t \notin known /\ ~finished[t]
       /\ \A a \in Actors : on[a] # t
  /\ \A a \in Actors : apc[a] = "register" => on[a] \notin table
  /\ \A a \in Actors : apc[a] = "read" => on[a] \in table
  /\ \A a \in Actors : apc[a] \in {"register", "read"} => on[a] \notin known
  /\ \A a \in Actors : apc[a] \notin {"idle", "register", "read"}
                        => on[a] \in known
  /\ \A a, b \in Actors :
       /\ apc[a] \in {"register", "read"} /\ apc[b] \in {"register", "read"}
       /\ on[a] = on[b]
       => a = b
  /\ told \subseteq known
  /\ \A t \in Threads : finished[t] => tpc[t] \in {"release", "gone"}

LEMMA ShapeInductive ==
  Shape /\ ThreadTypeOK /\ [ThreadNext]_threadVars => Shape'
<1> SUFFICES ASSUME Shape, ThreadTypeOK, [ThreadNext]_threadVars
             PROVE  Shape'
  OBVIOUS
<1> USE DEF Shape, ThreadTypeOK, Goes, Enters, Exits
<1>1. ASSUME NEW a \in Actors, NEW t \in Threads, StartCalls(a, t)
      PROVE  Shape'
  BY <1>1 DEF StartCalls
<1>2. ASSUME NEW a \in Actors, NEW t \in Threads, CallOn(a, t)
      PROVE  Shape'
  <2>1. CASE JoinTakes(a, t) \/ DetachTakes(a, t)
    BY <2>1 DEF JoinTakes, DetachTakes, Takes
  <2>2. CASE LooksUp(a, t) \/ PollBegins(a, t) \/ PollUnknown(a, t)
    BY <2>2 DEF LooksUp, PollBegins, PollUnknown
  <2>. QED BY <1>2, <2>1, <2>2 DEF CallOn
<1>3. ASSUME NEW a \in Actors, InCall(a) \/ SpuriousJoinWakeup(a)
      PROVE  Shape'
  <2>1. CASE StartRegisters(a)
    BY <2>1 DEF StartRegisters
  <2>2. CASE StartReturns(a)
    BY <2>2 DEF StartReturns
  <2>3. CASE \/ Unlinks(a) \/ JoinSleeps(a) \/ JoinSees(a) \/ Leaves(a)
             \/ SpuriousJoinWakeup(a)
    BY <2>3 DEF Unlinks, JoinSleeps, JoinSees, Leaves, SpuriousJoinWakeup
  <2>4. CASE PollIsValid(a) \/ PollFinds(a) \/ PollLost(a) \/ PollReads(a)
    BY <2>4 DEF PollIsValid, PollFinds, PollLost, PollReads
  <2>. QED BY <1>3, <2>1, <2>2, <2>3, <2>4 DEF InCall
<1>4. ASSUME NEW t \in Threads, Ends(t) \/ Epilogue(t)
      PROVE  Shape'
  BY <1>4 DEF Ends, Epilogue, Finishes, Dies, Awoken
<1>5. CASE UNCHANGED threadVars
  BY <1>5 DEF threadVars
<1>. QED BY <1>1, <1>2, <1>3, <1>4, <1>5 DEF ThreadNext

-----------------------------------------------------------------------------
(* Threads: what `refs` counts.                                            *)

\* Positions in which an actor has a temporary reference, and positions in
\* which the reference of the table is in its hands.
Holding == {"unlinkJoin", "unlinkDetach", "lock", "waiting", "leave", "probe",
            "peek"}
Owing   == {"register", "unlinkJoin", "unlinkDetach"}
Running == {"run", "finish", "release"}

Holds(a, t) == on[a] = t /\ apc[a] \in Holding
Owes(a, t)  == on[a] = t /\ apc[a] \in Owing

Holders(t) == {a \in Actors : Holds(a, t)}
Owers(t)   == {a \in Actors : Owes(a, t)}

One(p) == IF p THEN 1 ELSE 0

RefsOf(t) == One(t \in table) + One(tpc[t] \in Running)
               + Cardinality(Owers(t)) + Cardinality(Holders(t))

Counted ==
  /\ \A t \in Threads : refs[t] = RefsOf(t)
  /\ live = {t \in Threads : refs[t] > 0}

LEMMA CountsAreNumbers ==
  ASSUME NEW t \in Threads
  PROVE  /\ Cardinality(Holders(t)) \in Nat /\ Cardinality(Holders(t))' \in Nat
         /\ Cardinality(Owers(t)) \in Nat /\ Cardinality(Owers(t))' \in Nat
         /\ \A a \in Actors : Holds(a, t) => Cardinality(Holders(t)) > 0
         /\ \A a \in Actors : Owes(a, t) => Cardinality(Owers(t)) > 0
         /\ Cardinality(Holders(t)) > 0 => \E a \in Actors : Holds(a, t)
         /\ Cardinality(Owers(t)) > 0 => \E a \in Actors : Owes(a, t)
<1>1. /\ IsFiniteSet(Holders(t)) /\ IsFiniteSet(Holders(t)')
      /\ IsFiniteSet(Owers(t)) /\ IsFiniteSet(Owers(t)')
  BY FS_Subset DEF Holders, Owers
<1>2. /\ Cardinality(Holders(t)) = 0 <=> Holders(t) = {}
      /\ Cardinality(Owers(t)) = 0 <=> Owers(t) = {}
  BY <1>1, FS_EmptySet
<1>3. /\ Cardinality(Holders(t)) \in Nat /\ Cardinality(Holders(t)') \in Nat
      /\ Cardinality(Owers(t)) \in Nat /\ Cardinality(Owers(t)') \in Nat
  BY <1>1, FS_CardinalityType
<1>4. /\ (\E a \in Actors : Holds(a, t)) <=> Holders(t) # {}
      /\ (\E a \in Actors : Owes(a, t)) <=> Owers(t) # {}
  BY DEF Holders, Owers
<1>. QED BY <1>2, <1>3, <1>4

\* A step of one actor changes what it counts for itself, and nothing else.
LEMMA OneActorMoves ==
  ASSUME NEW a \in Actors, NEW t \in Threads,
         \A b \in Actors \ {a} : apc'[b] = apc[b] /\ on'[b] = on[b]
  PROVE  /\ Cardinality(Holders(t))' =
              Cardinality(Holders(t)) - One(Holds(a, t)) + One(Holds(a, t)')
         /\ Cardinality(Owers(t))' =
              Cardinality(Owers(t)) - One(Owes(a, t)) + One(Owes(a, t)')
<1>1. /\ IsFiniteSet(Holders(t)) /\ IsFiniteSet(Owers(t))
      /\ Cardinality(Holders(t)) \in Nat /\ Cardinality(Owers(t)) \in Nat
  BY FS_Subset, FS_CardinalityType DEF Holders, Owers
<1>2. \A b \in Actors \ {a} : /\ Holds(b, t)' <=> Holds(b, t)
                              /\ Owes(b, t)' <=> Owes(b, t)
  BY DEF Holds, Owes
<1>3. Holders(t)' = IF Holds(a, t)' THEN Holders(t) \cup {a} ELSE Holders(t) \ {a}
  BY <1>2 DEF Holders
<1>4. Owers(t)' = IF Owes(a, t)' THEN Owers(t) \cup {a} ELSE Owers(t) \ {a}
  BY <1>2 DEF Owers
<1>5. (a \in Holders(t) <=> Holds(a, t)) /\ (a \in Owers(t) <=> Owes(a, t))
  BY DEF Holders, Owers
<1>6. /\ Cardinality(Holders(t) \cup {a}) =
            IF a \in Holders(t) THEN Cardinality(Holders(t))
                                ELSE Cardinality(Holders(t)) + 1
      /\ Cardinality(Owers(t) \cup {a}) =
            IF a \in Owers(t) THEN Cardinality(Owers(t))
                              ELSE Cardinality(Owers(t)) + 1
  BY <1>1, FS_AddElement
<1>7. /\ Cardinality(Holders(t) \ {a}) =
            IF a \in Holders(t) THEN Cardinality(Holders(t)) - 1
                                ELSE Cardinality(Holders(t))
      /\ Cardinality(Owers(t) \ {a}) =
            IF a \in Owers(t) THEN Cardinality(Owers(t)) - 1
                              ELSE Cardinality(Owers(t))
  BY <1>1, FS_RemoveElement
<1>8. Cardinality(Holders(t))' =
        Cardinality(Holders(t)) - One(Holds(a, t)) + One(Holds(a, t)')
  BY <1>1, <1>3, <1>5, <1>6, <1>7 DEF One
<1>9. Cardinality(Owers(t))' =
        Cardinality(Owers(t)) - One(Owes(a, t)) + One(Owes(a, t)')
  BY <1>1, <1>4, <1>5, <1>6, <1>7 DEF One
<1>. QED BY <1>8, <1>9

\* The record is allocated while its count is positive: kept by a step that
\* releases a reference, or adds some.
LEMMA LiveKept ==
  ASSUME ThreadTypeOK, live = {t \in Threads : refs[t] > 0}, NEW t \in Threads,
         \/ refs[t] > 0 /\ Release(t)
         \/ refs[t] > 0 /\ Keep(t) /\ live' = live
  PROVE  live' = {u \in Threads : refs'[u] > 0}
  BY DEF Release, Keep, ThreadTypeOK

\* The count is positive exactly while somebody refers to the record.
LEMMA PositiveCount ==
  ASSUME Counted, NEW t \in Threads
  PROVE  refs[t] > 0 <=> \/ t \in table
                         \/ tpc[t] \in Running
                         \/ \E a \in Actors : Holds(a, t) \/ Owes(a, t)
  BY CountsAreNumbers DEF Counted, RefsOf, One

LEMMA CountedInductive ==
  Counted /\ Shape /\ ThreadTypeOK /\ ThreadTypeOK' /\ [ThreadNext]_threadVars
  => Counted'
<1> SUFFICES ASSUME Counted, Shape, ThreadTypeOK, ThreadTypeOK',
                    [ThreadNext]_threadVars
             PROVE  Counted'
  OBVIOUS
<1>0. \A u \in Threads : /\ Cardinality(Holders(u)) \in Nat
                         /\ Cardinality(Owers(u)) \in Nat
                         /\ Cardinality(Holders(u))' \in Nat
                         /\ Cardinality(Owers(u))' \in Nat
  BY CountsAreNumbers
<1> USE DEF Goes, Enters, Exits
<1>1. ASSUME NEW a \in Actors, NEW t \in Threads, StartCalls(a, t)
      PROVE  Counted'
  <2>1. \A b \in Actors \ {a} : apc'[b] = apc[b] /\ on'[b] = on[b]
    BY <1>1 DEF StartCalls, ThreadTypeOK
  <2>2. /\ tpc[t] = "none" /\ tpc'[t] = "run" /\ t \notin table /\ table' = table
        /\ \A u \in Threads \ {t} : tpc'[u] = tpc[u] /\ refs'[u] = refs[u]
        /\ refs'[t] = 2 /\ live' = live \cup {t}
        /\ \A u \in Threads : ~Holds(a, u) /\ ~Owes(a, u) /\ ~Holds(a, u)'
        /\ \A u \in Threads : Owes(a, u)' <=> u = t
    BY <1>1 DEF StartCalls, ThreadTypeOK, Shape, Holds, Owes, Holding, Owing
  <2>3. Cardinality(Holders(t)) = 0 /\ Cardinality(Owers(t)) = 0
    BY <1>0, <2>2, CountsAreNumbers DEF Shape, Holds, Owes
  <2>4. ASSUME NEW u \in Threads
        PROVE  refs'[u] = RefsOf(u)'
    <3>1. /\ Cardinality(Holders(u))' = Cardinality(Holders(u))
          /\ Cardinality(Owers(u))' = Cardinality(Owers(u)) + One(u = t)
      BY <1>0, <2>1, <2>2, OneActorMoves DEF One
    <3>2. CASE u = t
      BY <2>2, <2>3, <3>1, <3>2 DEF RefsOf, One, Running
    <3>3. CASE u # t
      BY <1>0, <2>2, <3>1, <3>3 DEF RefsOf, Counted, One
    <3>. QED BY <3>2, <3>3
  <2>5. live' = {u \in Threads : refs'[u] > 0}
    BY <2>2 DEF Counted
  <2>. QED BY <2>4, <2>5 DEF Counted
<1>2. ASSUME NEW a \in Actors, StartRegisters(a)
      PROVE  Counted'
  <2> DEFINE t == on[a]
  <2>1. \A b \in Actors \ {a} : apc'[b] = apc[b] /\ on'[b] = on[b]
    BY <1>2 DEF StartRegisters, ThreadTypeOK
  <2>2. /\ t \in Threads /\ t \notin table /\ table' = table \cup {t}
        /\ refs' = refs /\ live' = live /\ tpc' = tpc
        /\ \A u \in Threads : ~Holds(a, u) /\ ~Holds(a, u)' /\ ~Owes(a, u)'
        /\ \A u \in Threads : Owes(a, u) <=> u = t
    BY <1>2 DEF StartRegisters, ThreadTypeOK, Shape, Holds, Owes, Holding, Owing
  <2>3. ASSUME NEW u \in Threads
        PROVE  refs'[u] = RefsOf(u)'
    BY <1>0, <2>1, <2>2, OneActorMoves DEF RefsOf, Counted, One
  <2>. QED BY <2>2, <2>3 DEF Counted
<1>3. ASSUME NEW a \in Actors, NEW t \in Threads,
             JoinTakes(a, t) \/ DetachTakes(a, t)
      PROVE  Counted'
  <2>1. \A b \in Actors \ {a} : apc'[b] = apc[b] /\ on'[b] = on[b]
    BY <1>3 DEF JoinTakes, DetachTakes, Takes, ThreadTypeOK
  <2>2. /\ t \in table /\ table' = table \ {t} /\ tpc' = tpc
        /\ Keep(t) /\ live' = live
        /\ \A u \in Threads : ~Holds(a, u) /\ ~Owes(a, u)
        /\ \A u \in Threads : /\ Holds(a, u)' <=> u = t
                              /\ Owes(a, u)' <=> u = t
    BY <1>3 DEF JoinTakes, DetachTakes, Takes, ThreadTypeOK, Holds, Owes,
                Holding, Owing
  <2>3. ASSUME NEW u \in Threads
        PROVE  refs'[u] = RefsOf(u)'
    BY <1>0, <2>1, <2>2, OneActorMoves
       DEF RefsOf, Counted, One, Keep, ThreadTypeOK
  <2>4. refs[t] > 0
    BY <2>2, PositiveCount
  <2>. QED BY <2>2, <2>3, <2>4, LiveKept DEF Counted
<1>4. ASSUME NEW a \in Actors, NEW t \in Threads,
             \/ LooksUp(a, t) \/ PollBegins(a, t)
             \/ PollFinds(a) /\ t = on[a]
      PROVE  Counted'
  <2>1. \A b \in Actors \ {a} : apc'[b] = apc[b] /\ on'[b] = on[b]
    BY <1>4 DEF LooksUp, PollBegins, PollFinds, ThreadTypeOK
  <2>2. /\ t \in table /\ table' = table /\ tpc' = tpc
        /\ Keep(t) /\ live' = live
        /\ \A u \in Threads : ~Holds(a, u) /\ ~Owes(a, u) /\ ~Owes(a, u)'
        /\ \A u \in Threads : Holds(a, u)' <=> u = t
    BY <1>4 DEF LooksUp, PollBegins, PollFinds, ThreadTypeOK, Holds, Owes,
                Holding, Owing
  <2>3. ASSUME NEW u \in Threads
        PROVE  refs'[u] = RefsOf(u)'
    BY <1>0, <2>1, <2>2, OneActorMoves
       DEF RefsOf, Counted, One, Keep, ThreadTypeOK
  <2>4. refs[t] > 0
    BY <2>2, PositiveCount
  <2>. QED BY <2>2, <2>3, <2>4, LiveKept DEF Counted
<1>5. ASSUME NEW a \in Actors, Unlinks(a)
      PROVE  Counted'
  <2> DEFINE t == on[a]
  <2>1. \A b \in Actors \ {a} : apc'[b] = apc[b] /\ on'[b] = on[b]
    BY <1>5 DEF Unlinks, ThreadTypeOK
  <2>2. /\ t \in Threads /\ table' = table /\ tpc' = tpc /\ Release(t)
        /\ \A u \in Threads : /\ Holds(a, u) <=> u = t
                              /\ Owes(a, u) <=> u = t
        /\ \A u \in Threads : /\ Holds(a, u)' <=> u = t
                              /\ ~Owes(a, u)'
    BY <1>5 DEF Unlinks, ThreadTypeOK, Holds, Owes, Holding, Owing
  <2>3. ASSUME NEW u \in Threads
        PROVE  refs'[u] = RefsOf(u)'
    <3>1. /\ Cardinality(Holders(u))' = Cardinality(Holders(u))
          /\ Cardinality(Owers(u))' = Cardinality(Owers(u)) - One(u = t)
      BY <1>0, <2>1, <2>2, OneActorMoves DEF One
    <3>2. refs'[u] = refs[u] - One(u = t)
      BY <2>2 DEF Release, ThreadTypeOK, One
    <3>. QED BY <1>0, <2>2, <3>1, <3>2 DEF RefsOf, Counted, One
  <2>4. refs[t] > 0
    BY <2>2, PositiveCount
  <2>. QED BY <2>2, <2>3, <2>4, LiveKept DEF Counted
<1>6. ASSUME NEW a \in Actors, Leaves(a) \/ PollIsValid(a)
      PROVE  Counted'
  <2> DEFINE t == on[a]
  <2>1. \A b \in Actors \ {a} : apc'[b] = apc[b] /\ on'[b] = on[b]
    BY <1>6 DEF Leaves, PollIsValid, ThreadTypeOK
  <2>2. /\ t \in Threads /\ table' = table /\ tpc' = tpc /\ Release(t)
        /\ \A u \in Threads : Holds(a, u) <=> u = t
        /\ \A u \in Threads : ~Owes(a, u) /\ ~Owes(a, u)' /\ ~Holds(a, u)'
    BY <1>6 DEF Leaves, PollIsValid, ThreadTypeOK, Holds, Owes, Holding, Owing
  <2>3. ASSUME NEW u \in Threads
        PROVE  refs'[u] = RefsOf(u)'
    BY <1>0, <2>1, <2>2, OneActorMoves
       DEF RefsOf, Counted, One, Release, ThreadTypeOK
  <2>4. refs[t] > 0
    BY <2>2, PositiveCount
  <2>. QED BY <2>2, <2>3, <2>4, LiveKept DEF Counted
<1>7. ASSUME UNCHANGED <<table, refs, live>>,
             \A u \in Threads : tpc'[u] \in Running <=> tpc[u] \in Running,
             \A b \in Actors, u \in Threads : /\ Holds(b, u)' <=> Holds(b, u)
                                              /\ Owes(b, u)' <=> Owes(b, u)
      PROVE  Counted'
  <2>1. \A u \in Threads : Holders(u)' = Holders(u) /\ Owers(u)' = Owers(u)
    BY <1>7 DEF Holders, Owers
  <2>. QED BY <1>7, <2>1 DEF Counted, RefsOf, One
<1>8. ASSUME NEW a \in Actors,
             \/ StartReturns(a) \/ JoinSleeps(a) \/ JoinSees(a)
             \/ SpuriousJoinWakeup(a) \/ PollLost(a) \/ PollReads(a)
      PROVE  Counted'
  <2>1. UNCHANGED <<table, refs, live, tpc>>
    BY <1>8 DEF StartReturns, JoinSleeps, JoinSees, SpuriousJoinWakeup,
                PollLost, PollReads
  <2>2. \A b \in Actors, u \in Threads : /\ Holds(b, u)' <=> Holds(b, u)
                                         /\ Owes(b, u)' <=> Owes(b, u)
    BY <1>8 DEF StartReturns, JoinSleeps, JoinSees, SpuriousJoinWakeup,
                PollLost, PollReads, Holds, Owes, Holding, Owing, ThreadTypeOK
  <2>. QED BY <1>7, <2>1, <2>2
<1>9. ASSUME NEW a \in Actors, NEW t \in Threads, PollUnknown(a, t)
      PROVE  Counted'
  BY <1>7, <1>9 DEF PollUnknown, Holds, Owes
<1>10. ASSUME NEW t \in Threads, Ends(t) \/ Finishes(t)
       PROVE  Counted'
  <2>1. /\ UNCHANGED <<table, refs, live>>
        /\ \A u \in Threads : tpc'[u] \in Running <=> tpc[u] \in Running
    BY <1>10 DEF Ends, Finishes, Running, ThreadTypeOK
  <2>2. \A b \in Actors, u \in Threads : /\ Holds(b, u)' <=> Holds(b, u)
                                         /\ Owes(b, u)' <=> Owes(b, u)
    BY <1>10 DEF Ends, Finishes, Awoken, Holds, Owes, Holding, Owing
  <2>. QED BY <1>7, <2>1, <2>2
<1>11. ASSUME NEW t \in Threads, Dies(t)
       PROVE  Counted'
  <2>1. /\ UNCHANGED <<table, apc, on>> /\ Release(t)
        /\ tpc[t] \in Running /\ tpc'[t] \notin Running
        /\ \A u \in Threads \ {t} : tpc'[u] = tpc[u]
    BY <1>11 DEF Dies, Running, ThreadTypeOK
  <2>2. \A u \in Threads : Holders(u)' = Holders(u) /\ Owers(u)' = Owers(u)
    BY <2>1 DEF Holders, Owers, Holds, Owes
  <2>3. ASSUME NEW u \in Threads
        PROVE  refs'[u] = RefsOf(u)'
    BY <1>0, <2>1, <2>2 DEF RefsOf, Counted, One, Release, ThreadTypeOK
  <2>4. refs[t] > 0
    BY <2>1, PositiveCount
  <2>. QED BY <2>1, <2>3, <2>4, LiveKept DEF Counted
<1>12. CASE UNCHANGED threadVars
  BY <1>7, <1>12 DEF threadVars, Holds, Owes
<1>13. \A a \in Actors : PollFinds(a) => on[a] \in Threads
  BY DEF PollFinds, ThreadTypeOK
<1>. QED
  BY <1>1, <1>2, <1>3, <1>4, <1>5, <1>6, <1>8, <1>9, <1>10, <1>11, <1>12, <1>13
     DEF ThreadNext, InCall, CallOn, Epilogue

-----------------------------------------------------------------------------
(* Threads: what follows.                                                  *)

\* Of a thread that is_finished reports, the table has the record only if
\* its function has returned: ids that were told are known, and a known id
\* never enters the table again.
LEMMA PollHonestInductive ==
  PollHonest /\ Shape /\ ThreadTypeOK /\ [ThreadNext]_threadVars => PollHonest'
<1> SUFFICES ASSUME PollHonest, Shape, ThreadTypeOK, [ThreadNext]_threadVars
             PROVE  PollHonest'
  OBVIOUS
<1> USE DEF PollHonest, Shape, ThreadTypeOK, Goes, Enters, Exits
<1>1. ASSUME NEW a \in Actors, NEW t \in Threads,
             StartCalls(a, t) \/ CallOn(a, t)
      PROVE  PollHonest'
  BY <1>1 DEF StartCalls, CallOn, JoinTakes, DetachTakes, Takes, LooksUp,
              PollBegins, PollUnknown
<1>2. ASSUME NEW a \in Actors, InCall(a) \/ SpuriousJoinWakeup(a)
      PROVE  PollHonest'
  BY <1>2 DEF InCall, StartRegisters, StartReturns, Unlinks, JoinSleeps,
              JoinSees, Leaves, SpuriousJoinWakeup, PollIsValid, PollFinds,
              PollLost, PollReads
<1>3. ASSUME NEW t \in Threads, Ends(t) \/ Epilogue(t)
      PROVE  PollHonest'
  BY <1>3 DEF Ends, Epilogue, Finishes, Dies
<1>4. CASE UNCHANGED threadVars
  BY <1>4 DEF threadVars
<1>. QED BY <1>1, <1>2, <1>3, <1>4 DEF ThreadNext

\* The program drives the threads through their own operations.
LEMMA ProgramStepsThreads == [Next]_vars => [ThreadNext]_threadVars
<1> SUFFICES ASSUME [Next]_vars
             PROVE  [ThreadNext]_threadVars
  OBVIOUS
<1>1. ASSUME NEW t \in Threads, ThreadStep(t)
      PROVE  [ThreadNext]_threadVars
  BY <1>1 DEF ThreadStep, PassesOnce, Works, Returns, ThreadNext
<1>2. ASSUME NEW a \in Actors,
             \/ Continues(a) \/ WaitsForGroup(a)
             \/ \E t \in Threads : CountsThread(a, t) \/ UsesHandle(a, t)
      PROVE  [ThreadNext]_threadVars
  BY <1>2 DEF Continues, WaitsForGroup, CountsThread, UsesHandle, StartsThread,
              ThreadNext
<1>3. CASE Wakeup
  BY <1>3 DEF Wakeup, ThreadNext
<1>4. CASE UNCHANGED vars
  BY <1>4 DEF vars
<1>. QED BY <1>1, <1>2, <1>3, <1>4 DEF Next

ThreadInvariant == ThreadTypeOK /\ Shape /\ Counted /\ PollHonest

LEMMA ThreadInvariantCorrect == Spec => []ThreadInvariant
<1>1. Init => ThreadInvariant
  <2> SUFFICES ASSUME Init
               PROVE  ThreadInvariant
    OBVIOUS
  <2>1. ThreadTypeOK /\ Shape /\ PollHonest
    BY DEF Init, ThreadInit, ThreadTypeOK, Positions, Shape, PollHonest
  <2>2. ASSUME NEW t \in Threads
        PROVE  refs[t] = RefsOf(t)
    <3>1. Cardinality(Holders(t)) = 0 /\ Cardinality(Owers(t)) = 0
      BY CountsAreNumbers DEF Init, ThreadInit, Holds, Owes
    <3>. QED BY <3>1 DEF Init, ThreadInit, RefsOf, One, Running
  <2>3. live = {t \in Threads : refs[t] > 0}
    BY DEF Init, ThreadInit
  <2>. QED BY <2>1, <2>2, <2>3 DEF ThreadInvariant, Counted
<1>2. ThreadInvariant /\ [Next]_vars => ThreadInvariant'
  BY ProgramStepsThreads, ThreadTypeInductive, ShapeInductive, CountedInductive,
     PollHonestInductive DEF ThreadInvariant
<1>. QED BY <1>1, <1>2, PTL DEF Spec

(* For any number of threads and of actors that start, join, detach, poll  *)
(* and look at them, a record is freed when, and only when, nobody can     *)
(* reach it any more: no use after free, no leak.                          *)
THEOREM RecordLifetimeCorrect == Spec => []RecordLifetime
<1>1. ThreadInvariant => RecordLifetime
  <2> SUFFICES ASSUME ThreadTypeOK, Shape, Counted
               PROVE  RecordLifetime
    BY DEF ThreadInvariant
  <2>1. ASSUME NEW t \in Threads
        PROVE  refs[t] > 0 <=> \/ t \in table
                               \/ tpc[t] \in Running
                               \/ \E a \in Actors : PointsTo(a, t)
    <3>1. ASSUME NEW a \in Actors, PointsTo(a, t)
          PROVE  t \in table \/ Holds(a, t) \/ Owes(a, t)
      BY <3>1 DEF PointsTo, Holds, Owes, Holding, Owing, ThreadTypeOK, Positions,
                  Shape
    <3>2. ASSUME NEW a \in Actors, Holds(a, t) \/ Owes(a, t)
          PROVE  PointsTo(a, t)
      BY <3>2 DEF PointsTo, Holds, Owes, Holding, Owing
    <3>. QED BY <3>1, <3>2, PositiveCount
  <2>. QED BY <2>1 DEF RecordLifetime, Counted, Running
<1>. QED BY <1>1, ThreadInvariantCorrect, PTL

(* is_finished never says of a thread whose handle is still valid that it  *)
(* is over while it runs, although it looks the handle up twice.           *)
THEOREM PollHonestCorrect == Spec => []PollHonest
<1>1. ThreadInvariant => PollHonest
  BY DEF ThreadInvariant
<1>. QED BY <1>1, ThreadInvariantCorrect, PTL

-----------------------------------------------------------------------------
(* The whole program: type correctness.                                    *)

LEMMA RestTypeInductive ==
  TypeOK /\ ThreadTypeOK' /\ [Next]_vars => TypeOK'
<1> SUFFICES ASSUME TypeOK, ThreadTypeOK', [Next]_vars
             PROVE  SyncTypeOK' /\ plan' \in
                      [Threads -> {"none", "init", "work", "end"} \cup Actors]
  BY DEF TypeOK
<1> USE DEF TypeOK, SyncTypeOK, groupVars, onceVars
<1>1. ASSUME NEW t \in Threads, ThreadStep(t)
      PROVE  SyncTypeOK' /\ plan' \in
               [Threads -> {"none", "init", "work", "end"} \cup Actors]
  <2>1. CASE PassesOnce(t)
    <3>1. CASE OnceSleeps(t) \/ OncePasses(t)
      BY <2>1, <3>1 DEF PassesOnce, OnceSleeps, OncePasses, OnceProceeds,
                        OnceReturns, OnceSettles, OnceRuns, FnReturns
    <3>2. CASE OnceRuns(t) \/ FnReturns(t)
      <4>1. done' \in BOOLEAN /\ running' \in BOOLEAN /\ inited' \in BOOLEAN
        BY <3>2, Zenon DEF OnceRuns, FnReturns
      <4>2. /\ count' = count /\ gpc' = gpc /\ inits' \in Nat
            /\ opc' \in [Users -> {"out", "lock", "waiting", "run", "settle"}]
        BY <3>2 DEF OnceRuns, FnReturns
      <4>3. plan' = plan
        BY <2>1, <3>2 DEF PassesOnce, OnceProceeds, OnceReturns, OncePasses,
                          OnceSettles, OnceRuns, FnReturns, AtMutex
      <4>. QED BY <4>1, <4>2, <4>3
    <3>3. CASE OnceSettles(t)
      BY <2>1, <3>3 DEF PassesOnce, OnceSettles, Woken
    <3>. QED BY <2>1, <3>1, <3>2, <3>3 DEF PassesOnce, OnceProceeds, OnceReturns
  <2>2. CASE Works(t)
    BY <2>2 DEF Works, Done, Woken
  <2>3. CASE Returns(t) \/ (Epilogue(t) /\ UNCHANGED <<syncVars, plan>>)
    BY <2>3 DEF Returns, syncVars
  <2>. QED BY <1>1, <2>1, <2>2, <2>3 DEF ThreadStep
<1>2. ASSUME NEW a \in Actors, WaitsForGroup(a)
      PROVE  SyncTypeOK' /\ plan' = plan
  BY <1>2 DEF WaitsForGroup, WaitSleeps, WaitReturns
<1>3. ASSUME NEW a \in Actors, Continues(a)
      PROVE  SyncTypeOK' /\ plan' \in
               [Threads -> {"none", "init", "work", "end"} \cup Actors]
  BY <1>2, <1>3 DEF Continues, StartsThread, syncVars
<1>4. ASSUME NEW a \in Actors, NEW t \in Threads,
             CountsThread(a, t) \/ UsesHandle(a, t)
      PROVE  SyncTypeOK' /\ plan' \in
               [Threads -> {"none", "init", "work", "end"} \cup Actors]
  BY <1>4 DEF CountsThread, UsesHandle, Add, syncVars
<1>5. CASE Wakeup
  BY <1>5 DEF Wakeup, SpuriousSyncWakeup, syncVars
<1>6. CASE UNCHANGED vars
  BY <1>6 DEF vars, syncVars
<1>. QED BY <1>1, <1>2, <1>3, <1>4, <1>5, <1>6 DEF Next

(* Every state the threads, the group and the once reach is well typed.    *)
THEOREM TypeCorrect == Spec => []TypeOK
<1>1. Init => TypeOK
  <2>1. Init => ThreadTypeOK
    BY DEF Init, ThreadInit, ThreadTypeOK, Positions
  <2>2. Init => SyncTypeOK
    <3>1. Init => done \in BOOLEAN /\ running \in BOOLEAN /\ inited \in BOOLEAN
      BY Zenon DEF Init, SyncInit
    <3>. QED BY <3>1 DEF Init, SyncInit, SyncTypeOK
  <2>. QED BY <2>1, <2>2 DEF Init, TypeOK
<1>2. TypeOK /\ [Next]_vars => TypeOK'
  <2>1. TypeOK /\ [Next]_vars => ThreadTypeOK'
    BY ProgramStepsThreads, ThreadTypeInductive DEF TypeOK
  <2>. QED BY <2>1, RestTypeInductive
<1>. QED BY <1>1, <1>2, PTL DEF Spec

-----------------------------------------------------------------------------
(* The Once.                                                               *)

\* At most one thread is between taking the Once and giving it back, and it
\* is marked running meanwhile; inits says which of the three phases it is in.
OnceShape ==
  /\ \A u \in Users : opc[u] \in {"run", "settle"} => running
  /\ \A u, v \in Users :
       opc[u] \in {"run", "settle"} /\ opc[v] \in {"run", "settle"} => u = v
  /\ running => ~done /\ inits = 1
  /\ ~running /\ ~done => inits = 0
  /\ done => inits = 1 /\ inited
  /\ \A u \in Users : opc[u] = "settle" => inited
  /\ \A t \in Threads : plan[t] \in {"work", "end"} => done

LEMMA OnceShapeInductive ==
  OnceShape /\ TypeOK /\ [Next]_vars => OnceShape'
<1> SUFFICES ASSUME OnceShape, TypeOK, [Next]_vars
             PROVE  OnceShape'
  OBVIOUS
<1>0. /\ opc \in [Users -> {"out", "lock", "waiting", "run", "settle"}]
      /\ plan \in [Threads -> {"none", "init", "work", "end"} \cup Actors]
      /\ inits \in Nat
  BY DEF TypeOK, SyncTypeOK
<1>1. ASSUME UNCHANGED onceVars,
             \A t \in Threads : plan'[t] \in {"work", "end"}
                                  => plan[t] \in {"work", "end"}
      PROVE  OnceShape'
  BY <1>1 DEF onceVars, OnceShape
<1>2. ASSUME NEW t \in Threads, PassesOnce(t)
      PROVE  OnceShape'
  <2>1. CASE OnceSleeps(t)
    <3>1. plan' = plan \/ plan' = [plan EXCEPT ![t] = "work"]
      BY <1>2 DEF PassesOnce
    <3>2. plan' = plan
      BY <1>0, <1>2, <2>1 DEF PassesOnce, OnceSleeps, OnceReturns, OncePasses,
                        OnceSettles, AtMutex
    <3>. QED BY <1>0, <2>1, <3>2 DEF OnceSleeps, OnceShape
  <2>2. CASE OncePasses(t)
    BY <1>0, <1>2, <2>2 DEF PassesOnce, OncePasses, OnceShape, AtMutex
  <2>3. CASE OnceRuns(t)
    <3>1. plan' = plan
      BY <1>0, <1>2, <2>3 DEF PassesOnce, OnceRuns, OnceReturns, OncePasses,
                        OnceSettles, AtMutex
    <3>. QED BY <1>0, <2>3, <3>1 DEF OnceRuns, OnceShape
  <2>4. CASE FnReturns(t)
    <3>1. plan' = plan
      BY <1>0, <1>2, <2>4 DEF PassesOnce, FnReturns, OnceReturns, OncePasses,
                        OnceSettles, AtMutex
    <3>. QED BY <1>0, <2>4, <3>1 DEF FnReturns, OnceShape
  <2>5. CASE OnceSettles(t)
    BY <1>0, <1>2, <2>5 DEF PassesOnce, OnceSettles, OnceShape, Woken
  <2>. QED BY <1>2, <2>1, <2>2, <2>3, <2>4, <2>5
           DEF PassesOnce, OnceProceeds, OnceReturns
<1>3. ASSUME NEW t \in Threads, ThreadStep(t), ~PassesOnce(t)
      PROVE  OnceShape'
  <2>1. CASE Works(t)
    BY <1>0, <1>1, <2>1 DEF Works, Done
  <2>2. CASE Returns(t) \/ (Epilogue(t) /\ UNCHANGED <<syncVars, plan>>)
    BY <1>1, <2>2 DEF Returns, syncVars, onceVars
  <2>. QED BY <1>3, <2>1, <2>2 DEF ThreadStep
<1>4. ASSUME NEW a \in Actors, WaitsForGroup(a)
      PROVE  OnceShape'
  BY <1>1, <1>4 DEF WaitsForGroup, WaitSleeps, WaitReturns
<1>5. ASSUME NEW a \in Actors, Continues(a)
      PROVE  OnceShape'
  <2>1. CASE InCall(a) /\ UNCHANGED <<syncVars, plan>>
    BY <1>1, <2>1 DEF syncVars, onceVars
  <2>2. ASSUME NEW t \in Threads, StartsThread(a, t)
        PROVE  OnceShape'
    BY <1>0, <1>1, <2>2 DEF StartsThread, syncVars, onceVars
  <2>. QED BY <1>4, <1>5, <2>1, <2>2 DEF Continues
<1>6. ASSUME NEW a \in Actors, NEW t \in Threads,
             CountsThread(a, t) \/ UsesHandle(a, t)
      PROVE  OnceShape'
  <2>1. CASE CountsThread(a, t)
    BY <1>0, <1>1, <2>1 DEF CountsThread, Add
  <2>2. CASE UsesHandle(a, t)
    BY <1>1, <2>2 DEF UsesHandle, syncVars, onceVars
  <2>. QED BY <1>6, <2>1, <2>2
<1>7. CASE Wakeup
  <2>1. ASSUME NEW a \in Actors, UNCHANGED <<syncVars, plan>>
        PROVE  OnceShape'
    BY <1>1, <2>1 DEF syncVars, onceVars
  <2>2. ASSUME NEW u \in Users, SpuriousSyncWakeup(u), plan' = plan
        PROVE  OnceShape'
    BY <1>0, <1>1, <2>2 DEF SpuriousSyncWakeup, OnceShape
  <2>. QED BY <1>7, <2>1, <2>2 DEF Wakeup
<1>8. CASE UNCHANGED vars
  BY <1>1, <1>8 DEF vars, syncVars, onceVars
<1>. QED BY <1>2, <1>3, <1>4, <1>5, <1>6, <1>7, <1>8 DEF Next

(* However many threads meet in do_once, the function runs at most once,   *)
(* and nobody goes on before it has returned.                              *)
THEOREM InitializedOnceCorrect == Spec => []InitializedOnce
<1>1. Init => OnceShape
  BY DEF Init, SyncInit, OnceShape
<1>2. OnceShape /\ TypeOK /\ [Next]_vars => OnceShape'
  BY OnceShapeInductive
<1>3. OnceShape => InitializedOnce
  BY DEF OnceShape, InitializedOnce
<1>. QED BY <1>1, <1>2, <1>3, TypeCorrect, PTL DEF Spec

-----------------------------------------------------------------------------
(* The group.                                                              *)

\* Threads that are counted and have not called done.
Pending == {t \in Threads : plan[t] \in {"init", "work"} \cup Actors}

GroupShape == IsFiniteSet(Pending) /\ count = Cardinality(Pending)

LEMMA GroupShapeInductive ==
  GroupShape /\ TypeOK /\ [Next]_vars => GroupShape'
<1> SUFFICES ASSUME GroupShape, TypeOK, [Next]_vars
             PROVE  GroupShape'
  OBVIOUS
<1>0. plan \in [Threads -> {"none", "init", "work", "end"} \cup Actors]
  BY DEF TypeOK
<1>1. ASSUME count' = count,
             \A t \in Threads :
               \/ plan'[t] = plan[t]
               \/ /\ plan[t] \in {"init", "work"} \cup Actors
                  /\ plan'[t] \in {"init", "work"} \cup Actors
      PROVE  GroupShape'
  <2>1. Pending' = Pending
    BY <1>1 DEF Pending
  <2>. QED BY <1>1, <2>1 DEF GroupShape
<1>2. ASSUME NEW t \in Threads, ThreadStep(t)
      PROVE  GroupShape'
  <2>1. CASE PassesOnce(t)
    <3>1. count' = count
      BY <2>1 DEF PassesOnce, OnceProceeds, OnceReturns, OnceSleeps, OnceRuns,
                  FnReturns, OncePasses, OnceSettles, groupVars
    <3>. QED BY <1>0, <1>1, <2>1, <3>1 DEF PassesOnce
  <2>2. CASE Works(t)
    <3>1. Pending' = Pending \ {t} /\ t \in Pending
      BY <1>0, <2>2 DEF Works, Pending
    <3>. QED BY <2>2, <3>1, FS_RemoveElement DEF Works, Done, GroupShape
  <2>3. CASE Returns(t) \/ (Epilogue(t) /\ UNCHANGED <<syncVars, plan>>)
    BY <1>1, <2>3 DEF Returns, syncVars
  <2>. QED BY <1>2, <2>1, <2>2, <2>3 DEF ThreadStep
<1>3. ASSUME NEW a \in Actors, WaitsForGroup(a)
      PROVE  GroupShape'
  BY <1>1, <1>3 DEF WaitsForGroup, WaitSleeps, WaitReturns
<1>4. ASSUME NEW a \in Actors, Continues(a)
      PROVE  GroupShape'
  <2>1. CASE InCall(a) /\ UNCHANGED <<syncVars, plan>>
    BY <1>1, <2>1 DEF syncVars
  <2>2. ASSUME NEW t \in Threads, StartsThread(a, t)
        PROVE  GroupShape'
    BY <1>0, <1>1, <2>2 DEF StartsThread, syncVars
  <2>. QED BY <1>3, <1>4, <2>1, <2>2 DEF Continues
<1>5. ASSUME NEW a \in Actors, NEW t \in Threads, CountsThread(a, t)
      PROVE  GroupShape'
  <2>1. Pending' = Pending \cup {t} /\ t \notin Pending
    BY <1>0, <1>5 DEF CountsThread, Pending
  <2>. QED BY <1>5, <2>1, FS_AddElement DEF CountsThread, Add, GroupShape
<1>6. ASSUME NEW a \in Actors, NEW t \in Threads, UsesHandle(a, t)
      PROVE  GroupShape'
  BY <1>1, <1>6 DEF UsesHandle, syncVars
<1>7. CASE Wakeup
  BY <1>1, <1>7 DEF Wakeup, SpuriousSyncWakeup, syncVars, groupVars
<1>8. CASE UNCHANGED vars
  BY <1>1, <1>8 DEF vars, syncVars
<1>. QED BY <1>2, <1>3, <1>4, <1>5, <1>6, <1>7, <1>8 DEF Next

LEMMA GroupShapeCorrect == Spec => []GroupShape
<1>1. Init => GroupShape
  <2> SUFFICES ASSUME Init
               PROVE  GroupShape
    OBVIOUS
  <2>1. Pending = {} /\ count = 0
    BY DEF Init, SyncInit, Pending
  <2>. QED BY <2>1, FS_EmptySet DEF GroupShape
<1>2. GroupShape /\ TypeOK /\ [Next]_vars => GroupShape'
  BY GroupShapeInductive
<1>. QED BY <1>1, <1>2, TypeCorrect, PTL DEF Spec

\* The only way out of a join's wait is to have seen `finished`.
LEMMA JoinLeavesBySeeing ==
  ASSUME ThreadTypeOK, [ThreadNext]_threadVars, NEW a \in Actors,
         apc[a] = "lock", apc'[a] = "leave"
  PROVE  finished[on[a]] /\ on[a] \in Threads
<1> USE DEF ThreadTypeOK, Positions, Goes, Enters, Exits
<1>1. on[a] \in Threads
  OBVIOUS
<1>2. ASSUME NEW b \in Actors, NEW t \in Threads,
             StartCalls(b, t) \/ CallOn(b, t)
      PROVE  FALSE
  BY <1>2 DEF StartCalls, CallOn, JoinTakes, DetachTakes, Takes, LooksUp,
              PollBegins, PollUnknown
<1>3. ASSUME NEW b \in Actors, InCall(b) \/ SpuriousJoinWakeup(b)
      PROVE  finished[on[a]]
  <2>1. CASE StartRegisters(b) \/ StartReturns(b) \/ Unlinks(b)
    BY <2>1 DEF StartRegisters, StartReturns, Unlinks
  <2>2. CASE JoinSleeps(b) \/ JoinSees(b) \/ Leaves(b) \/ SpuriousJoinWakeup(b)
    BY <2>2 DEF JoinSleeps, JoinSees, Leaves, SpuriousJoinWakeup
  <2>3. CASE PollIsValid(b) \/ PollFinds(b) \/ PollLost(b) \/ PollReads(b)
    BY <2>3 DEF PollIsValid, PollFinds, PollLost, PollReads
  <2>. QED BY <1>3, <2>1, <2>2, <2>3 DEF InCall
<1>4. ASSUME NEW t \in Threads, Ends(t) \/ Epilogue(t)
      PROVE  FALSE
  BY <1>4 DEF Ends, Epilogue, Finishes, Dies, Awoken
<1>5. CASE UNCHANGED threadVars
  BY <1>5 DEF threadVars
<1>. QED BY <1>1, <1>2, <1>3, <1>4, <1>5 DEF ThreadNext

\* The only way out of the wait for the group is a counter of zero.
LEMMA WaitLeavesAtZero ==
  ASSUME TypeOK, [Next]_vars, NEW a \in Actors,
         gpc[a] = "lock", gpc'[a] = "out"
  PROVE  count = 0
<1>0. gpc \in [Users -> {"out", "lock", "waiting"}] /\ a \in Users
  BY DEF TypeOK, SyncTypeOK
<1>1. gpc' # gpc
  OBVIOUS
<1>2. ASSUME NEW t \in Threads, ThreadStep(t)
      PROVE  FALSE
  <2>1. CASE PassesOnce(t)
    BY <1>1, <2>1 DEF PassesOnce, OnceProceeds, OnceReturns, OnceSleeps,
                OnceRuns, FnReturns, OncePasses, OnceSettles, groupVars
  <2>2. CASE Works(t)
    BY <1>0, <2>2 DEF Works, Done, Woken
  <2>3. CASE Returns(t) \/ (Epilogue(t) /\ UNCHANGED <<syncVars, plan>>)
    BY <1>1, <2>3 DEF Returns, syncVars
  <2>. QED BY <1>2, <2>1, <2>2, <2>3 DEF ThreadStep
<1>3. ASSUME NEW b \in Actors, WaitsForGroup(b)
      PROVE  count = 0
  <2>1. b \in Users
    OBVIOUS
  <2>. QED BY <1>0, <1>3, <2>1 DEF WaitsForGroup, WaitSleeps, WaitReturns
<1>4. ASSUME NEW b \in Actors, Continues(b)
      PROVE  count = 0
  BY <1>1, <1>3, <1>4 DEF Continues, StartsThread, syncVars
<1>5. ASSUME NEW b \in Actors, NEW t \in Threads,
             CountsThread(b, t) \/ UsesHandle(b, t)
      PROVE  FALSE
  BY <1>1, <1>5 DEF CountsThread, Add, UsesHandle, syncVars
<1>6. CASE Wakeup
  BY <1>0, <1>1, <1>6 DEF Wakeup, SpuriousSyncWakeup, syncVars, groupVars
<1>7. CASE UNCHANGED vars
  BY <1>1, <1>7 DEF vars, syncVars
<1>. QED BY <1>2, <1>3, <1>4, <1>5, <1>6, <1>7 DEF Next

(* Whatever wakes a waiter, a join returns only after the end of its       *)
(* thread, and wait_group_wait only after every thread counted so far has  *)
(* called done.                                                            *)
THEOREM NoEarlyReturnCorrect == Spec => NoEarlyReturn
<1>1. ThreadInvariant /\ TypeOK /\ GroupShape /\ [Next]_vars =>
        [\A a \in Actors :
           /\ apc[a] = "lock" /\ apc'[a] = "leave" => tpc[on[a]] # "run"
           /\ gpc[a] = "lock" /\ gpc'[a] = "out" =>
                \A t \in Threads : plan[t] \in {"none", "end"}]_vars
  <2> SUFFICES ASSUME ThreadInvariant, TypeOK, GroupShape, [Next]_vars,
                      NEW a \in Actors
               PROVE  /\ apc[a] = "lock" /\ apc'[a] = "leave"
                           => tpc[on[a]] # "run"
                      /\ gpc[a] = "lock" /\ gpc'[a] = "out" =>
                           \A t \in Threads : plan[t] \in {"none", "end"}
    OBVIOUS
  <2>1. ASSUME apc[a] = "lock", apc'[a] = "leave"
        PROVE  tpc[on[a]] # "run"
    BY <2>1, ProgramStepsThreads, JoinLeavesBySeeing DEF ThreadInvariant, Shape
  <2>2. ASSUME gpc[a] = "lock", gpc'[a] = "out", NEW t \in Threads
        PROVE  plan[t] \in {"none", "end"}
    <3>1. count = 0
      BY <2>2, WaitLeavesAtZero
    <3>2. Pending = {}
      BY <3>1, FS_EmptySet DEF GroupShape
    <3>. QED BY <3>2 DEF Pending, TypeOK
  <2>. QED BY <2>1, <2>2
<1>. QED
  BY <1>1, ThreadInvariantCorrect, TypeCorrect, GroupShapeCorrect, PTL
     DEF Spec, NoEarlyReturn
=============================================================================
