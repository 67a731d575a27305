----------------------------- MODULE FilumThread -----------------------------
(***************************************************************************)
(* First-class threads of filum: the table of thread records and their     *)
(* reference counts, src/runtime/pengu_runtime.c (POSIX branch), behind    *)
(* filum.start, Thread.join, detach, free, is_finished, name, set_name     *)
(* and id.                                                                 *)
(*                                                                         *)
(* A critical section under g_threads_lock or under the record's own lock, *)
(* and one atomic change of `refs`, is one step.  A thread record and its  *)
(* id are the same model value: ids are never reused.  A handle is an id,  *)
(* so any actor may use one that start has returned, any number of times.  *)
(*                                                                         *)
(* An actor is inside one call at a time:                                  *)
(*   register, read        start, after pthread_create and after the table *)
(*   unlinkJoin, lock, waiting, leave        join                          *)
(*   unlinkDetach, leave                     detach, free                  *)
(*   probe, ask, peek, leave                 is_finished (two lookups)     *)
(*   leave                                   is_valid, id, name, set_name  *)
(***************************************************************************)
EXTENDS Integers, FiniteSets

CONSTANTS
  Threads,  \* thread records, each started at most once
  Actors,   \* threads of the program that use handles
  None      \* an actor outside a call refers to no record

ASSUME FilumThreadAssumption ==
  /\ IsFiniteSet(Actors)
  /\ None \notin Threads

VARIABLES
  table,     \* the records reachable from g_threads
  refs,      \* t->refs
  live,      \* records allocated and not freed
  finished,  \* t->finished
  tpc,       \* where each thread is in pengu_thread_entry
  apc,       \* where each actor is
  on,        \* the record or id the actor's call is about
  known,     \* ids that start has returned
  told       \* history: threads that is_finished called finished

threadVars == <<table, refs, live, finished, tpc, apc, on, known, told>>

Positions == {"idle", "register", "read", "unlinkJoin", "unlinkDetach",
              "lock", "waiting", "leave", "probe", "ask", "peek"}

ThreadTypeOK ==
  /\ table \subseteq Threads
  /\ refs \in [Threads -> Int]
  /\ live \subseteq Threads
  /\ finished \in [Threads -> BOOLEAN]
  /\ tpc \in [Threads -> {"none", "run", "finish", "release", "gone"}]
  /\ apc \in [Actors -> Positions]
  /\ on \in [Actors -> Threads \cup {None}]
  /\ \A a \in Actors : on[a] = None <=> apc[a] = "idle"
  /\ known \subseteq Threads
  /\ told \subseteq Threads

ThreadInit ==
  /\ table = {}
  /\ refs = [t \in Threads |-> 0]
  /\ live = {}
  /\ finished = [t \in Threads |-> FALSE]
  /\ tpc = [t \in Threads |-> "none"]
  /\ apc = [a \in Actors |-> "idle"]
  /\ on = [a \in Actors |-> None]
  /\ known = {}
  /\ told = {}

-----------------------------------------------------------------------------
(* References.                                                             *)

Keep(t) == refs' = [refs EXCEPT ![t] = @ + 1]

\* pengu_thread_release: whoever drops the last reference frees the record.
Release(t) ==
  /\ refs' = [refs EXCEPT ![t] = @ - 1]
  /\ live' = IF refs[t] = 1 THEN live \ {t} ELSE live

Goes(a, pc) == apc' = [apc EXCEPT ![a] = pc]

Enters(a, pc, t) ==
  /\ apc[a] = "idle"
  /\ Goes(a, pc)
  /\ on' = [on EXCEPT ![a] = t]

Exits(a) ==
  /\ Goes(a, "idle")
  /\ on' = [on EXCEPT ![a] = None]

-----------------------------------------------------------------------------
(* pengu_c_filum_thread_start.  (When pthread_create fails the record is   *)
(* freed before anybody knows of it and no id is returned.)                *)

StartPublishesId(a, t) ==
  /\ tpc[t] = "none"
  /\ Enters(a, "register", t)
  /\ live' = live \cup {t}
  /\ refs' = [refs EXCEPT ![t] = 2]
  /\ tpc' = [tpc EXCEPT ![t] = "run"]
  /\ known' = known \cup {t}
  /\ UNCHANGED <<table, finished, told>>

StartCalls(a, t) ==
  /\ tpc[t] = "none"
  /\ Enters(a, "register", t)
  /\ live' = live \cup {t}
  /\ refs' = [refs EXCEPT ![t] = 2]
  /\ tpc' = [tpc EXCEPT ![t] = "run"]
  /\ UNCHANGED <<table, finished, known, told>>

StartRegisters(a) ==
  /\ apc[a] = "register"
  /\ table' = table \cup {on[a]}
  /\ Goes(a, "read")
  /\ UNCHANGED <<refs, live, finished, tpc, on, known, told>>

\* return t->id, read after the table lock is released.
StartReturns(a) ==
  /\ apc[a] = "read"
  /\ known' = known \cup {on[a]}
  /\ Exits(a)
  /\ UNCHANGED <<table, refs, live, finished, tpc, told>>

-----------------------------------------------------------------------------
(* pengu_thread_entry.                                                     *)

\* t->run(t->box) returns.
Ends(t) ==
  /\ tpc[t] = "run"
  /\ tpc' = [tpc EXCEPT ![t] = "finish"]
  /\ UNCHANGED <<table, refs, live, finished, apc, on, known, told>>

Awoken(t) ==
  [a \in Actors |-> IF apc[a] = "waiting" /\ on[a] = t THEN "lock" ELSE apc[a]]

FinishesQuietly(t) ==
  /\ tpc[t] = "finish"
  /\ finished' = [finished EXCEPT ![t] = TRUE]
  /\ tpc' = [tpc EXCEPT ![t] = "release"]
  /\ UNCHANGED <<table, refs, live, apc, on, known, told>>

\* pengu_thread_finish: broadcast to whoever joins this thread.
Finishes(t) ==
  /\ tpc[t] = "finish"
  /\ finished' = [finished EXCEPT ![t] = TRUE]
  /\ apc' = Awoken(t)
  /\ tpc' = [tpc EXCEPT ![t] = "release"]
  /\ UNCHANGED <<table, refs, live, on, known, told>>

Dies(t) ==
  /\ tpc[t] = "release"
  /\ Release(t)
  /\ tpc' = [tpc EXCEPT ![t] = "gone"]
  /\ UNCHANGED <<table, finished, apc, on, known, told>>

-----------------------------------------------------------------------------
(* join, detach and free.  A handle that is no longer in the table is      *)
(* refused (INVALID) without touching anything.                            *)

TakesWithoutReference(a, t, pc) ==
  /\ t \in known \cap table
  /\ Enters(a, pc, t)
  /\ table' = table \ {t}
  /\ UNCHANGED <<refs, live, finished, tpc, known, told>>

\* pengu_thread_take: out of the table, with a temporary reference.
Takes(a, t, pc) ==
  /\ t \in known \cap table
  /\ Enters(a, pc, t)
  /\ table' = table \ {t}
  /\ Keep(t)
  /\ UNCHANGED <<live, finished, tpc, known, told>>

JoinTakes(a, t) == Takes(a, t, "unlinkJoin")

DetachTakes(a, t) == Takes(a, t, "unlinkDetach")

\* ... and the reference the table owned is released.
Unlinks(a) ==
  /\ apc[a] \in {"unlinkJoin", "unlinkDetach"}
  /\ Release(on[a])
  /\ Goes(a, IF apc[a] = "unlinkJoin" THEN "lock" ELSE "leave")
  /\ UNCHANGED <<table, finished, tpc, on, known, told>>

JoinSleeps(a) ==
  /\ apc[a] = "lock"
  /\ ~finished[on[a]]
  /\ Goes(a, "waiting")
  /\ UNCHANGED <<table, refs, live, finished, tpc, on, known, told>>

SpuriousJoinWakeup(a) ==
  /\ apc[a] = "waiting"
  /\ Goes(a, "lock")
  /\ UNCHANGED <<table, refs, live, finished, tpc, on, known, told>>

JoinSees(a) ==
  /\ apc[a] = "lock"
  /\ finished[on[a]]
  /\ Goes(a, "leave")
  /\ UNCHANGED <<table, refs, live, finished, tpc, on, known, told>>

\* The call drops its temporary reference and returns.
Leaves(a) ==
  /\ apc[a] = "leave"
  /\ Release(on[a])
  /\ Exits(a)
  /\ UNCHANGED <<table, finished, tpc, known, told>>

-----------------------------------------------------------------------------
(* Looking at a thread.                                                    *)

\* is_valid, id, name and set_name: lookup, one critical section, release.
LooksUp(a, t) ==
  /\ t \in known \cap table
  /\ Enters(a, "leave", t)
  /\ Keep(t)
  /\ UNCHANGED <<table, live, finished, tpc, known, told>>

\* filum.is_finished first asks is_valid; an unknown handle is "finished".
PollBegins(a, t) ==
  /\ t \in known \cap table
  /\ Enters(a, "probe", t)
  /\ Keep(t)
  /\ UNCHANGED <<table, live, finished, tpc, known, told>>

PollUnknown(a, t) ==
  /\ apc[a] = "idle"
  /\ t \in known \ table
  /\ told' = told \cup {t}
  /\ UNCHANGED <<table, refs, live, finished, tpc, apc, on, known>>

PollIsValid(a) ==
  /\ apc[a] = "probe"
  /\ Release(on[a])
  /\ Goes(a, "ask")
  /\ UNCHANGED <<table, finished, tpc, on, known, told>>

\* The second lookup, by pengu_c_filum_thread_is_finished.
PollFinds(a) ==
  /\ apc[a] = "ask"
  /\ on[a] \in table
  /\ Keep(on[a])
  /\ Goes(a, "peek")
  /\ UNCHANGED <<table, live, finished, tpc, on, known, told>>

PollLost(a) ==
  /\ apc[a] = "ask"
  /\ on[a] \notin table
  /\ told' = told \cup {on[a]}
  /\ Exits(a)
  /\ UNCHANGED <<table, refs, live, finished, tpc, known>>

PollReads(a) ==
  /\ apc[a] = "peek"
  /\ told' = IF finished[on[a]] THEN told \cup {on[a]} ELSE told
  /\ Goes(a, "leave")
  /\ UNCHANGED <<table, refs, live, finished, tpc, on, known>>

-----------------------------------------------------------------------------
\* What an actor does inside a call.
InCall(a) ==
  \/ StartRegisters(a) \/ StartReturns(a)
  \/ Unlinks(a) \/ JoinSleeps(a) \/ JoinSees(a) \/ Leaves(a)
  \/ PollIsValid(a) \/ PollFinds(a) \/ PollLost(a) \/ PollReads(a)

\* The calls on a handle, which an actor makes when it likes.
CallOn(a, t) ==
  \/ JoinTakes(a, t) \/ DetachTakes(a, t)
  \/ LooksUp(a, t) \/ PollBegins(a, t) \/ PollUnknown(a, t)

\* What a thread does once its function has returned.
Epilogue(t) == Finishes(t) \/ Dies(t)

ThreadNext ==
  \/ \E a \in Actors :
       \/ InCall(a) \/ SpuriousJoinWakeup(a)
       \/ \E t \in Threads : StartCalls(a, t) \/ CallOn(a, t)
  \/ \E t \in Threads : Ends(t) \/ Epilogue(t)

ThreadSpec == ThreadInit /\ [][ThreadNext]_threadVars

-----------------------------------------------------------------------------
(* Properties.                                                             *)

\* Whether an actor has a pointer to the record, not only its id.
PointsTo(a, t) == on[a] = t /\ apc[a] # "ask"

(* A record is allocated exactly while somebody refers to it: the table,   *)
(* the thread itself, or an actor inside a call.  So nobody touches a      *)
(* freed record (start reads t->id without a reference of its own), and no *)
(* record outlives the last reference.                                     *)
RecordLifetime ==
  live = {t \in Threads : \/ t \in table
                          \/ tpc[t] \in {"run", "finish", "release"}
                          \/ \E a \in Actors : PointsTo(a, t)}

(* is_finished says "finished" of a handle nobody has consumed only when   *)
(* the function of the thread has returned.  (Of a handle that a join has  *)
(* taken it says so at once, although the thread may still run.)           *)
PollHonest == \A t \in told \cap table : tpc[t] # "run"
=============================================================================
