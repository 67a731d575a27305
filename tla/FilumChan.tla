------------------------------ MODULE FilumChan ------------------------------
(***************************************************************************)
(* Channels of std/filum.pengu: PenguNativeChan in runtime/pengu_runtime.c *)
(* (POSIX).  All fields are guarded by one mutex, so a critical section is *)
(* one step; a thread that waits on a condition variable leaves the        *)
(* critical section and enters a new one when it is woken.                 *)
(*                                                                         *)
(* A message is the number of its send call.  The buffer is the code's     *)
(* ring: slot, head, tail, size.                                           *)
(***************************************************************************)
EXTENDS Integers, Sequences, FiniteSets, Functions

CONSTANTS
  Senders, Receivers,  \* threads that send, threads that receive
  Caps,                \* capacities a channel is created with
  MaxMsg               \* bound: calls of send

ASSUME ChanAssumption ==
  /\ Caps \subseteq Nat
  /\ MaxMsg \in Nat
  /\ IsFiniteSet(Senders) /\ IsFiniteSet(Receivers)

VARIABLES
  cap, slot, head, tail, size, closed,  \* fields of the channel
  active,     \* calls of send and recv inside the channel
  spc, smsg,  \* where each sender is, and the message it sends
  rpc,        \* where each receiver is
  next,       \* the next message
  accepted,   \* messages whose send returned true
  refused,    \* messages whose send returned false
  received,   \* messages received, in order
  ended,      \* some recv has returned false
  gone        \* "no", "freed", or "aborted" by chan_free

ring    == <<cap, slot, head, tail, size>>
history == <<accepted, refused, received, ended>>
vars == <<ring, closed, active, spc, smsg, rpc, next, history, gone>>

Msgs == 1..MaxMsg

\* A rendezvous channel has one physical slot.
Stride == IF cap = 0 THEN 1 ELSE cap

TypeOK ==
  /\ cap \in Caps
  /\ slot \in [0..(Stride - 1) -> Msgs \cup {0}]
  /\ head \in 0..(Stride - 1) /\ tail \in 0..(Stride - 1)
  /\ size \in 0..Stride
  /\ closed \in BOOLEAN
  /\ active \in Int
  /\ spc \in [Senders -> {"idle", "call", "full", "retry", "offered", "recheck"}]
  /\ smsg \in [Senders -> Msgs \cup {0}]
  /\ rpc \in [Receivers -> {"idle", "call", "empty", "retry"}]
  /\ next \in 1..(MaxMsg + 1)
  /\ accepted \subseteq Msgs /\ refused \subseteq Msgs
  /\ received \in Seq(Msgs)
  /\ ended \in BOOLEAN
  /\ gone \in {"no", "freed", "aborted"}

\* chan_new.
Init ==
  /\ cap \in Caps
  /\ slot = [i \in 0..(Stride - 1) |-> 0]
  /\ head = 0 /\ tail = 0 /\ size = 0
  /\ closed = FALSE
  /\ active = 0
  /\ spc = [s \in Senders |-> "idle"] /\ smsg = [s \in Senders |-> 0]
  /\ rpc = [r \in Receivers |-> "idle"]
  /\ next = 1
  /\ accepted = {} /\ refused = {} /\ received = <<>> /\ ended = FALSE
  /\ gone = "no"

-----------------------------------------------------------------------------
(* The two condition variables.                                            *)

Waiters == {s \in Senders : spc[s] \in {"full", "offered"}}

\* What a sender does after a broadcast of not_full.
Woken(pc) == CASE pc = "full" -> "retry" [] pc = "offered" -> "recheck" [] OTHER -> pc

BroadcastNotFull == [s \in Senders |-> Woken(spc[s])]

SignalNotFull ==
  IF Waiters = {} THEN spc
  ELSE [s \in Senders |-> IF s = CHOOSE t \in Waiters : TRUE THEN Woken(spc[s]) ELSE spc[s]]

BroadcastNotEmpty ==
  rpc' = [r \in Receivers |-> IF rpc[r] = "empty" THEN "retry" ELSE rpc[r]]

SignalNotEmpty ==
  \/ /\ \A r \in Receivers : rpc[r] # "empty"
     /\ rpc' = rpc
  \/ \E r \in Receivers :
       /\ rpc[r] = "empty"
       /\ rpc' = [rpc EXCEPT ![r] = "retry"]

-----------------------------------------------------------------------------
(* chan_send.                                                              *)

SendCalled(s) ==
  /\ gone = "no" /\ spc[s] = "idle" /\ next <= MaxMsg
  /\ spc' = [spc EXCEPT ![s] = "call"]
  /\ smsg' = [smsg EXCEPT ![s] = next]
  /\ next' = next + 1
  /\ UNCHANGED <<ring, closed, active, rpc, history, gone>>

\* The number of active calls once `pc` has entered the critical section.
Entered(pc) == IF pc = "call" THEN active + 1 ELSE active

Sending(s) == gone = "no" /\ spc[s] \in {"call", "retry"}

SendBlocks(s) ==
  /\ Sending(s)
  /\ size = Stride /\ ~closed
  /\ active' = Entered(spc[s])
  /\ spc' = [spc EXCEPT ![s] = "full"]
  /\ UNCHANGED <<ring, closed, smsg, rpc, next, history, gone>>

RefusedStaysActive(s) ==
  /\ Sending(s)
  /\ closed
  /\ active' = Entered(spc[s])
  /\ spc' = [spc EXCEPT ![s] = "idle"]
  /\ refused' = refused \cup {smsg[s]}
  /\ UNCHANGED <<ring, closed, smsg, rpc, next, accepted, received, ended, gone>>

SendRefused(s) ==
  /\ Sending(s)
  /\ closed
  /\ active' = Entered(spc[s]) - 1
  /\ spc' = [spc EXCEPT ![s] = "idle"]
  /\ refused' = refused \cup {smsg[s]}
  /\ UNCHANGED <<ring, closed, smsg, rpc, next, accepted, received, ended, gone>>

BuffersWithoutTest(s) ==
  /\ Sending(s)
  /\ cap > 0 /\ ~closed
  /\ slot' = [slot EXCEPT ![tail] = smsg[s]]
  /\ tail' = (tail + 1) % cap
  /\ size' = IF size = cap THEN size ELSE size + 1
  /\ SignalNotEmpty
  /\ active' = Entered(spc[s]) - 1
  /\ spc' = [spc EXCEPT ![s] = "idle"]
  /\ accepted' = accepted \cup {smsg[s]}
  /\ UNCHANGED <<cap, head, closed, smsg, next, refused, received, ended, gone>>

SendBuffers(s) ==
  /\ Sending(s)
  /\ cap > 0 /\ size # cap /\ ~closed
  /\ slot' = [slot EXCEPT ![tail] = smsg[s]]
  /\ tail' = (tail + 1) % cap
  /\ size' = size + 1
  /\ SignalNotEmpty
  /\ active' = Entered(spc[s]) - 1
  /\ spc' = [spc EXCEPT ![s] = "idle"]
  /\ accepted' = accepted \cup {smsg[s]}
  /\ UNCHANGED <<cap, head, closed, smsg, next, refused, received, ended, gone>>

\* A rendezvous: the value is put in the slot and the sender waits until
\* the slot is empty.
SendOffers(s) ==
  /\ Sending(s)
  /\ cap = 0 /\ size # 1 /\ ~closed
  /\ slot' = [slot EXCEPT ![0] = smsg[s]]
  /\ size' = 1
  /\ BroadcastNotEmpty
  /\ active' = Entered(spc[s])
  /\ spc' = [spc EXCEPT ![s] = "offered"]
  /\ UNCHANGED <<cap, head, tail, closed, smsg, next, history, gone>>

SendStillOffered(s) ==
  /\ gone = "no" /\ spc[s] = "recheck"
  /\ size = 1 /\ ~closed
  /\ spc' = [spc EXCEPT ![s] = "offered"]
  /\ UNCHANGED <<ring, closed, active, smsg, rpc, next, history, gone>>

OfferEndsAtOnce(s) ==
  /\ gone = "no" /\ spc[s] = "recheck"
  /\ spc' = [BroadcastNotFull EXCEPT ![s] = "idle"]
  /\ active' = active - 1
  /\ accepted' = accepted \cup {smsg[s]}
  /\ UNCHANGED <<ring, closed, smsg, rpc, next, refused, received, ended, gone>>

\* ok = !closed || size == 0: what is in the slot is taken for the value
\* this sender put there.
SendOfferEnds(s) ==
  /\ gone = "no" /\ spc[s] = "recheck"
  /\ size = 0 \/ closed
  /\ \/ /\ size = 0
        /\ accepted' = accepted \cup {smsg[s]}
        /\ UNCHANGED <<size, refused>>
     \/ /\ size = 1
        /\ size' = 0
        /\ refused' = refused \cup {smsg[s]}
        /\ UNCHANGED accepted
  /\ spc' = [BroadcastNotFull EXCEPT ![s] = "idle"]
  /\ active' = active - 1
  /\ UNCHANGED <<cap, slot, head, tail, closed, smsg, rpc, next, received, ended, gone>>

-----------------------------------------------------------------------------
(* chan_recv.                                                              *)

RecvCalled(r) ==
  /\ gone = "no" /\ rpc[r] = "idle"
  /\ rpc' = [rpc EXCEPT ![r] = "call"]
  /\ UNCHANGED <<ring, closed, active, spc, smsg, next, history, gone>>

Receiving(r) == gone = "no" /\ rpc[r] \in {"call", "retry"}

RecvBlocks(r) ==
  /\ Receiving(r)
  /\ size = 0 /\ ~closed
  /\ active' = Entered(rpc[r])
  /\ rpc' = [rpc EXCEPT ![r] = "empty"]
  /\ UNCHANGED <<ring, closed, spc, smsg, next, history, gone>>

EndsWhenClosed(r) ==
  /\ Receiving(r)
  /\ closed
  /\ active' = Entered(rpc[r]) - 1
  /\ rpc' = [rpc EXCEPT ![r] = "idle"]
  /\ ended' = TRUE
  /\ UNCHANGED <<ring, closed, spc, smsg, next, accepted, refused, received, gone>>

\* recv returns false: closed and drained.
RecvEnds(r) ==
  /\ Receiving(r)
  /\ size = 0 /\ closed
  /\ active' = Entered(rpc[r]) - 1
  /\ rpc' = [rpc EXCEPT ![r] = "idle"]
  /\ ended' = TRUE
  /\ UNCHANGED <<ring, closed, spc, smsg, next, accepted, refused, received, gone>>

TakesAndSignals(r) ==
  /\ Receiving(r)
  /\ size # 0
  /\ received' = Append(received, slot[head])
  /\ head' = (head + 1) % Stride
  /\ size' = size - 1
  /\ spc' = SignalNotFull
  /\ active' = Entered(rpc[r]) - 1
  /\ rpc' = [rpc EXCEPT ![r] = "idle"]
  /\ UNCHANGED <<cap, slot, tail, closed, smsg, next, accepted, refused, ended, gone>>

RecvTakes(r) ==
  /\ Receiving(r)
  /\ size # 0
  /\ received' = Append(received, slot[head])
  /\ head' = (head + 1) % Stride
  /\ size' = size - 1
  /\ spc' = BroadcastNotFull
  /\ active' = Entered(rpc[r]) - 1
  /\ rpc' = [rpc EXCEPT ![r] = "idle"]
  /\ UNCHANGED <<cap, slot, tail, closed, smsg, next, accepted, refused, ended, gone>>

-----------------------------------------------------------------------------
(* close and free, by any thread that is not inside the channel.           *)

CloseWakesReceivers ==
  /\ gone = "no"
  /\ closed' = TRUE
  /\ BroadcastNotEmpty
  /\ UNCHANGED <<ring, active, spc, smsg, next, history, gone>>

Close ==
  /\ gone = "no"
  /\ closed' = TRUE
  /\ BroadcastNotEmpty
  /\ spc' = BroadcastNotFull
  /\ UNCHANGED <<ring, active, smsg, next, history, gone>>

\* chan_free reads `active` and aborts if a call is inside.  Its caller sees
\* to it that no other thread is about to call.
Free ==
  /\ gone = "no"
  /\ \A s \in Senders : spc[s] # "call"
  /\ \A r \in Receivers : rpc[r] # "call"
  /\ \/ /\ active # 0
        /\ gone' = "aborted"
        /\ UNCHANGED <<closed, spc, rpc>>
     \/ /\ active = 0
        /\ gone' = "freed"
        /\ closed' = TRUE
        /\ BroadcastNotEmpty
        /\ spc' = BroadcastNotFull
  /\ UNCHANGED <<ring, active, smsg, next, history>>

SpuriousWakeup ==
  /\ gone = "no"
  /\ \/ \E s \in Waiters :
          spc' = [spc EXCEPT ![s] = Woken(@)] /\ UNCHANGED rpc
     \/ \E r \in Receivers :
          rpc[r] = "empty" /\ rpc' = [rpc EXCEPT ![r] = "retry"] /\ UNCHANGED spc
  /\ UNCHANGED <<ring, closed, active, smsg, next, history, gone>>

\* What a thread inside a call does as soon as it holds the mutex.
SendStep(s) ==
  \/ SendBlocks(s) \/ SendRefused(s) \/ SendBuffers(s)
  \/ SendOffers(s) \/ SendStillOffered(s) \/ SendOfferEnds(s)

RecvStep(r) == RecvBlocks(r) \/ RecvEnds(r) \/ RecvTakes(r)

Next ==
  \/ \E s \in Senders : SendCalled(s) \/ SendStep(s)
  \/ \E r \in Receivers : RecvCalled(r) \/ RecvStep(r)
  \/ Close \/ Free \/ SpuriousWakeup

Spec == Init /\ [][Next]_vars

(***************************************************************************)
(* A thread inside a call is scheduled and gets the mutex in the end.      *)
(* Nothing makes a program call, close or free.                            *)
(***************************************************************************)
Fairness ==
  /\ \A s \in Senders : WF_vars(SendStep(s))
  /\ \A r \in Receivers : WF_vars(RecvStep(r))

FairSpec == Spec /\ Fairness

-----------------------------------------------------------------------------
(* Properties.                                                             *)

\* The place of the value that is i places behind the head.
Place(i) == (head + i) % Stride

Queue == [i \in 1..size |-> slot[Place(i - 1)]]

Count(pc, where) == Cardinality({t \in DOMAIN pc : pc[t] \in where})

(* The ring with its threads is the queue filum.pengu promises.            *)
Promised == INSTANCE Channel WITH Values <- Msgs, queue <- Queue

ImplementsChannel == Promised!Spec

(* Nobody sleeps on a condition that has become true: receivers are woken  *)
(* one by one (signal), and as many are on their way as there are values,  *)
(* whoever else comes in between; senders are all woken by every receive.  *)
NobodySleepsInVain ==
  /\ (\E r \in Receivers : rpc[r] = "empty") => size <= Count(rpc, {"retry"}) /\ ~closed
  /\ Waiters # {} => size = Stride /\ ~closed

(* What send tells its caller is what happens to the value: on a buffered  *)
(* channel for every call, on a rendezvous as long as it is not closed.    *)
SendTold ==
  /\ cap > 0 => /\ accepted \subseteq Range(received) \cup Range(Queue)
                /\ refused \cap (Range(received) \cup Range(Queue)) = {}
  /\ cap = 0 /\ ~closed => accepted \subseteq Range(received) /\ refused = {}

(* `active` counts the calls inside on every path: a call that is missed   *)
(* would be destroyed under its lock by chan_free, and one that stays      *)
(* counted would make every later chan_free abort the program.             *)
ActiveCounted ==
  active = Count(spc, {"full", "retry", "offered", "recheck"})
             + Count(rpc, {"empty", "retry"})

(* filum.pengu:606: "Buffered values remain receivable": when recv has      *)
(* reported the end to anybody, every value that was reported sent has     *)
(* been received, and no value is received any more.                       *)
EndIsFinal ==
  [][ended => /\ received' = received
              /\ cap > 0 => accepted \subseteq Range(received)]_vars

(* Closing a channel lets every blocked call return.                       *)
CloseReleases ==
  /\ \A s \in Senders : closed /\ spc[s] # "idle" ~> spc[s] = "idle" \/ gone # "no"
  /\ \A r \in Receivers : closed /\ rpc[r] # "idle" ~> rpc[r] = "idle" \/ gone # "no"

(* filum.pengu:590: "Returns true when sent, or false when the channel is  *)
(* closed.": on every channel, a value that was reported sent is received  *)
(* or can be, and one that was refused is not.                             *)
SendReportsTruth ==
  /\ accepted \subseteq Range(received) \cup Range(Queue)
  /\ refused \cap Range(received) = {}
=============================================================================
