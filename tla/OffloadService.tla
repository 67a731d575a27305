--------------------------- MODULE OffloadService ---------------------------
(***************************************************************************)
(* What the offload pool of runtime/pengu_reactor.c promises the event     *)
(* loop, without threads, locks or queues: a job handed to the pool is     *)
(* executed once, its completion becomes visible once, and it is handed to *)
(* the loop once.  Closing the pool may discard completions that were not  *)
(* handed out; it never discards a job that was accepted and not executed. *)
(***************************************************************************)

CONSTANT Completions  \* (task id, token) pairs the pool can be given

VARIABLES
  pending,    \* accepted, not executed yet
  finished,   \* executed, completion not handed to the loop yet
  delivered,  \* completion handed to the loop
  discarded   \* completion thrown away by the destructor

svars == <<pending, finished, delivered, discarded>>

Known == pending \cup finished \cup delivered \cup discarded

Init ==
  /\ pending = {}
  /\ finished = {}
  /\ delivered = {}
  /\ discarded = {}

Accept(c) ==
  /\ c \in Completions \ Known
  /\ pending' = pending \cup {c}
  /\ UNCHANGED <<finished, delivered, discarded>>

\* A helper thread posts the completion of work of its own.
Post(c) ==
  /\ c \in Completions \ Known
  /\ finished' = finished \cup {c}
  /\ UNCHANGED <<pending, delivered, discarded>>

Finish(c) ==
  /\ c \in pending
  /\ pending' = pending \ {c}
  /\ finished' = finished \cup {c}
  /\ UNCHANGED <<delivered, discarded>>

Deliver(c) ==
  /\ c \in finished
  /\ finished' = finished \ {c}
  /\ delivered' = delivered \cup {c}
  /\ UNCHANGED <<pending, discarded>>

\* The destructor runs once nothing is pending any more.
Close ==
  /\ pending = {}
  /\ finished' = {}
  /\ discarded' = discarded \cup finished
  /\ UNCHANGED <<pending, delivered>>

Next ==
  \/ \E c \in Completions : Accept(c) \/ Post(c) \/ Finish(c) \/ Deliver(c)
  \/ Close

Spec == Init /\ [][Next]_svars
=============================================================================
