------------------------------- MODULE Channel -------------------------------
(***************************************************************************)
(* What std/filum.pengu promises of a channel: a bounded first-in          *)
(* first-out queue of values that can be closed; values queued when it is  *)
(* closed remain receivable.  A channel of capacity 0 (a rendezvous) holds *)
(* one value at most, the one being handed over, and a sender may take it  *)
(* back once the channel is closed.                                        *)
(***************************************************************************)
EXTENDS Naturals, Sequences

CONSTANT Values

VARIABLES cap, queue, received, closed

cvars == <<cap, queue, received, closed>>

Room == IF cap = 0 THEN 1 ELSE cap

Init == cap \in Nat /\ queue = <<>> /\ received = <<>> /\ closed = FALSE

Put(v) ==
  /\ ~closed /\ Len(queue) < Room
  /\ queue' = Append(queue, v)
  /\ UNCHANGED <<cap, received, closed>>

Get ==
  /\ queue # <<>>
  /\ received' = Append(received, Head(queue))
  /\ queue' = Tail(queue)
  /\ UNCHANGED <<cap, closed>>

TakeBack ==
  /\ closed /\ cap = 0
  /\ queue' = <<>>
  /\ UNCHANGED <<cap, received, closed>>

Close ==
  /\ closed' = TRUE
  /\ UNCHANGED <<cap, queue, received>>

Next == (\E v \in Values : Put(v)) \/ Get \/ TakeBack \/ Close

Spec == Init /\ [][Next]_cvars
=============================================================================
