--------------------------- MODULE RequestService ---------------------------
(***************************************************************************)
(* The contract between the event loop and the helper thread of            *)
(* std/petitio.pengu: the requests of a call are handed over together,     *)
(* each is posted to the loop once, in any order, and the helper goes away *)
(* only when none is open.  PetitioDispatcher implements it; Reactor is    *)
(* written against it (HelperStep and the guard of Close).                 *)
(***************************************************************************)
CONSTANT Requests

VARIABLES open, posted, closed

rvars == <<open, posted, closed>>

Init == open = {} /\ posted = {} /\ closed = FALSE

Hand(S) ==
  /\ ~closed
  /\ S \cap (open \cup posted) = {}
  /\ open' = open \cup S
  /\ UNCHANGED <<posted, closed>>

Post(r) ==
  /\ ~closed
  /\ r \in open
  /\ open' = open \ {r}
  /\ posted' = posted \cup {r}
  /\ UNCHANGED closed

Close ==
  /\ open = {}
  /\ closed' = TRUE
  /\ UNCHANGED <<open, posted>>

Next ==
  \/ \E S \in SUBSET Requests : Hand(S)
  \/ \E r \in Requests : Post(r)
  \/ Close

Spec == Init /\ [][Next]_rvars
=============================================================================
