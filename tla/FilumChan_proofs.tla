-------------------------- MODULE FilumChan_proofs --------------------------
(***************************************************************************)
(* Proofs about channels (module FilumChan), for any capacity, any number  *)
(* of senders and receivers and any number of messages.                    *)
(*                                                                         *)
(* RInv (the ring is well formed) is inductive with TypeOK; with it every  *)
(* step of the ring is a step of Channel.  The counting invariants and     *)
(* SendTold are then shown on top of it.                                   *)
(***************************************************************************)
EXTENDS FilumChan, FiniteSetTheorems, TLAPS

USE ChanAssumption

-----------------------------------------------------------------------------
(* Queues.                                                                 *)

\* The empty queue has no elements.
LEMMA EmptyQueue == Range(<<>>) = {}
  BY DEF Range

\* Appending adds the element.
LEMMA AppendToQueue ==
  ASSUME NEW S, NEW q \in Seq(S), NEW x \in S
  PROVE  /\ Append(q, x) \in Seq(S)
         /\ Len(Append(q, x)) = Len(q) + 1
         /\ Append(q, x) # <<>>
         /\ Range(Append(q, x)) = Range(q) \cup {x}
<1>1. /\ Append(q, x) \in Seq(S) /\ Len(Append(q, x)) = Len(q) + 1
      /\ Append(q, x) # <<>> /\ Len(q) \in Nat
      /\ DOMAIN q = 1..Len(q) /\ DOMAIN Append(q, x) = 1..(Len(q) + 1)
      /\ \A i \in DOMAIN q : Append(q, x)[i] = q[i]
      /\ Append(q, x)[Len(q) + 1] = x
  OBVIOUS
<1>2. Range(q) \cup {x} \subseteq Range(Append(q, x))
  BY <1>1 DEF Range
<1>3. Range(Append(q, x)) \subseteq Range(q) \cup {x}
  BY <1>1 DEF Range
<1>. QED BY <1>1, <1>2, <1>3

\* Popping removes the head.
LEMMA PopFromQueue ==
  ASSUME NEW S, NEW q \in Seq(S), q # <<>>
  PROVE  /\ Head(q) \in S
         /\ Tail(q) \in Seq(S)
         /\ Len(Tail(q)) = Len(q) - 1
         /\ Range(q) = {Head(q)} \cup Range(Tail(q))
<1>1. /\ Head(q) = q[1] /\ q[1] \in S /\ Len(q) \in Nat \ {0}
      /\ Tail(q) \in Seq(S) /\ Len(Tail(q)) = Len(q) - 1
      /\ \A i \in 1..Len(Tail(q)) : Tail(q)[i] = q[i + 1]
  OBVIOUS
<1>2. DOMAIN q = 1..Len(q) /\ DOMAIN Tail(q) = 1..(Len(q) - 1)
  BY <1>1
<1>3. Range(q) = {Head(q)} \cup Range(Tail(q))
  <2>1. ASSUME NEW i \in DOMAIN q, i # 1
        PROVE  q[i] \in Range(Tail(q))
    <3>1. i - 1 \in DOMAIN Tail(q) /\ Tail(q)[i - 1] = q[i]
      BY <1>1, <1>2, <2>1
    <3>. QED BY <3>1 DEF Range
  <2>2. ASSUME NEW x \in Range(q)
        PROVE  x \in {Head(q)} \cup Range(Tail(q))
    <3>1. PICK i \in DOMAIN q : x = q[i]
      BY DEF Range
    <3>. QED BY <1>1, <2>1, <3>1
  <2>3. Head(q) \in Range(q)
    BY <1>1, <1>2 DEF Range
  <2>4. Range(Tail(q)) \subseteq Range(q)
    BY <1>1, <1>2 DEF Range
  <2>. QED BY <2>2, <2>3, <2>4
<1>. QED BY <1>1, <1>3

\* The elements of a queue are elements of the set it is over.
LEMMA RangeOfQueue ==
  ASSUME NEW S, NEW q \in Seq(S)
  PROVE  Range(q) \subseteq S
  BY DEF Range

-----------------------------------------------------------------------------
(* The ring.                                                               *)

LEMMA WrapAround ==
  ASSUME NEW n \in Nat \ {0}, NEW i \in 0..(n - 1), NEW k \in 0..n
  PROVE  (i + k) % n = IF i + k < n THEN i + k ELSE i + k - n
<1>1. CASE i + k < n
  BY <1>1
<1>2. CASE i + k >= n
  BY <1>2
<1>. QED BY <1>1, <1>2

(* The values of the ring are messages, tail is one place behind them, a   *)
(* thread inside send has a message, and only a rendezvous is offered.     *)
TailBehind == tail = Place(size)

ValuesInRing == \A i \in 0..(size - 1) : slot[Place(i)] \in Msgs

SendersCarry ==
  \A s \in Senders : /\ spc[s] # "idle" => smsg[s] \in Msgs
                     /\ spc[s] \in {"offered", "recheck"} => cap = 0

RInv == TailBehind /\ ValuesInRing /\ SendersCarry

LEMMA StrideIsPositive ==
  ASSUME TypeOK
  PROVE  Stride \in Nat \ {0}
BY DEF TypeOK, Stride

LEMMA PlaceInRing ==
  ASSUME TypeOK, NEW i \in 0..Stride
  PROVE  /\ Place(i) \in 0..(Stride - 1)
         /\ Place(i) = IF head + i < Stride THEN head + i ELSE head + i - Stride
<1>1. Stride \in Nat \ {0} /\ head \in 0..(Stride - 1)
  BY StrideIsPositive DEF TypeOK
<1>2. (head + i) % Stride
        = IF head + i < Stride THEN head + i ELSE head + i - Stride
  BY <1>1, WrapAround
<1>. QED BY <1>1, <1>2 DEF Place

\* The places of the values and the free place behind them are distinct.
LEMMA PlacesDistinct ==
  ASSUME TypeOK, NEW i \in 0..(Stride - 1), NEW j \in 0..(Stride - 1), i # j
  PROVE  Place(i) # Place(j)
<1>1. Stride \in Nat \ {0} /\ head \in 0..(Stride - 1)
  BY StrideIsPositive DEF TypeOK
<1>. QED BY <1>1, PlaceInRing

\* One step of a cursor.
LEMMA NextPlace ==
  ASSUME TypeOK, NEW i \in 0..(Stride - 1)
  PROVE  (Place(i) + 1) % Stride = Place(i + 1)
<1>1. /\ Stride \in Nat \ {0} /\ head \in 0..(Stride - 1)
      /\ 1 \in 0..Stride /\ i \in 0..Stride
  BY StrideIsPositive DEF TypeOK
<1>2. Place(i) \in 0..(Stride - 1)
  BY <1>1, PlaceInRing
<1>3. (Place(i) + 1) % Stride = IF Place(i) + 1 < Stride THEN Place(i) + 1 ELSE Place(i) + 1 - Stride
  BY <1>1, <1>2, WrapAround
<1>. QED BY <1>1, <1>3, PlaceInRing

\* Removing the head moves every value one place nearer.
LEMMA PlaceAfterHead ==
  ASSUME TypeOK, NEW h \in 0..(Stride - 1), h = (head + 1) % Stride,
         NEW i \in 0..(Stride - 1)
  PROVE  (h + i) % Stride = Place(i + 1)
<1>1. /\ Stride \in Nat \ {0} /\ head \in 0..(Stride - 1)
      /\ 1 \in 0..Stride /\ i \in 0..Stride
  BY StrideIsPositive DEF TypeOK
<1>2. h = IF head + 1 < Stride THEN head + 1 ELSE head + 1 - Stride
  BY <1>1, WrapAround
<1>3. (h + i) % Stride = IF h + i < Stride THEN h + i ELSE h + i - Stride
  BY <1>1, WrapAround
<1>. QED BY <1>1, <1>2, <1>3, PlaceInRing, SMTT(30)

-----------------------------------------------------------------------------
(* Type correctness.                                                       *)

LEMMA BroadcastKeepsCalls ==
  ASSUME TypeOK
  PROVE  /\ BroadcastNotFull \in
              [Senders -> {"idle", "call", "full", "retry", "offered", "recheck"}]
         /\ \A s \in Senders :
              /\ BroadcastNotFull[s] = "idle" <=> spc[s] = "idle"
              /\ BroadcastNotFull[s] \in {"offered", "recheck"}
                   <=> spc[s] \in {"offered", "recheck"}
BY DEF TypeOK, BroadcastNotFull, Woken

\* The steps that leave the ring alone.
Quiet ==
  \/ \E s \in Senders : \/ SendCalled(s) \/ SendBlocks(s) \/ SendRefused(s)
                        \/ SendStillOffered(s)
  \/ \E r \in Receivers : RecvCalled(r) \/ RecvBlocks(r) \/ RecvEnds(r)
  \/ Close \/ Free \/ SpuriousWakeup

LEMMA QuietRing ==
  ASSUME RInv, UNCHANGED ring
  PROVE  TailBehind' /\ ValuesInRing'
BY DEF RInv, TailBehind, ValuesInRing, Place, Stride, ring

LEMMA QuietStep ==
  ASSUME TypeOK, RInv, Quiet
  PROVE  TypeOK' /\ RInv'
<1> SUFFICES TypeOK' /\ SendersCarry' /\ UNCHANGED ring
  BY QuietRing DEF RInv
<1> USE DEF TypeOK, RInv, SendersCarry, ring, history, Entered, Stride
<1>1. ASSUME NEW s \in Senders, SendCalled(s)
      PROVE  TypeOK' /\ SendersCarry' /\ UNCHANGED ring
  BY <1>1 DEF SendCalled, Msgs
<1>2. ASSUME NEW s \in Senders, SendBlocks(s) \/ SendRefused(s) \/ SendStillOffered(s)
      PROVE  TypeOK' /\ SendersCarry' /\ UNCHANGED ring
  <2>1. CASE SendBlocks(s)
    BY <2>1 DEF SendBlocks, Sending
  <2>2. CASE SendRefused(s)
    BY <2>2 DEF SendRefused, Sending
  <2>3. CASE SendStillOffered(s)
    BY <2>3 DEF SendStillOffered
  <2>. QED BY <1>2, <2>1, <2>2, <2>3
<1>3. ASSUME NEW r \in Receivers, RecvCalled(r) \/ RecvBlocks(r) \/ RecvEnds(r)
      PROVE  TypeOK' /\ SendersCarry' /\ UNCHANGED ring
  <2>1. CASE RecvCalled(r)
    BY <2>1 DEF RecvCalled
  <2>2. CASE RecvBlocks(r)
    BY <2>2 DEF RecvBlocks, Receiving
  <2>3. CASE RecvEnds(r)
    BY <2>3 DEF RecvEnds, Receiving
  <2>. QED BY <1>3, <2>1, <2>2, <2>3
<1>4. CASE Close \/ Free
  BY <1>4, BroadcastKeepsCalls DEF Close, Free, BroadcastNotEmpty
<1>5. CASE SpuriousWakeup
  BY <1>5 DEF SpuriousWakeup, Waiters, Woken
<1>. QED BY <1>1, <1>2, <1>3, <1>4, <1>5 DEF Quiet

LEMMA BuffersStep ==
  ASSUME TypeOK, RInv, NEW s \in Senders, SendBuffers(s)
  PROVE  TypeOK' /\ RInv'
<1>1. /\ Stride = cap /\ Stride' = Stride /\ cap \in Nat \ {0}
      /\ size \in 0..(Stride - 1) /\ size + 1 \in 0..Stride
  BY DEF SendBuffers, Stride, TypeOK
<1>2. /\ tail \in 0..(Stride - 1)
      /\ tail' = Place(size + 1)
      /\ tail' \in 0..(Stride - 1)
  BY <1>1, NextPlace, PlaceInRing DEF SendBuffers, RInv, TailBehind, TypeOK
<1>3. smsg[s] \in Msgs
  BY DEF SendBuffers, Sending, RInv, SendersCarry
<1>4. TypeOK'
  BY <1>1, <1>2, <1>3
     DEF SendBuffers, SignalNotEmpty, Entered, Sending, TypeOK
<1>5. \A i \in Int : Place(i)' = Place(i)
  BY <1>1 DEF SendBuffers, Place
<1>6. ASSUME NEW i \in 0..(size' - 1)
      PROVE  slot'[Place(i)] \in Msgs
  <2>1. CASE i = size
    BY <1>2, <1>3, <2>1 DEF SendBuffers, RInv, TailBehind, TypeOK
  <2>2. CASE i # size
    <3>1. i \in 0..(size - 1) /\ i \in 0..(Stride - 1)
      BY <1>1, <2>2 DEF SendBuffers
    <3>2. Place(i) # tail /\ Place(i) \in 0..(Stride - 1)
      BY <1>1, <2>2, <3>1, PlacesDistinct, PlaceInRing DEF RInv, TailBehind
    <3>. QED BY <3>1, <3>2 DEF SendBuffers, RInv, ValuesInRing, TypeOK
  <2>. QED BY <2>1, <2>2
<1>7. \A t \in Senders : /\ spc'[t] # "idle" => smsg'[t] \in Msgs
                         /\ spc'[t] \in {"offered", "recheck"} => cap' = 0
  BY DEF SendBuffers, RInv, SendersCarry, TypeOK
<1>8. tail' = Place(size)'
  BY <1>1, <1>2, <1>5 DEF SendBuffers, Place
<1>. QED BY <1>4, <1>5, <1>6, <1>7, <1>8 DEF RInv, TailBehind, ValuesInRing, SendersCarry

LEMMA OffersStep ==
  ASSUME TypeOK, RInv, NEW s \in Senders,
         SendOffers(s) \/ SendOfferEnds(s)
  PROVE  TypeOK' /\ RInv'
<1>1. CASE SendOffers(s)
  <2>1. /\ Stride = 1 /\ Stride' = 1 /\ size = 0 /\ size' = 1
        /\ head = 0 /\ tail = 0 /\ head' = 0 /\ tail' = 0
    BY <1>1 DEF SendOffers, Stride, TypeOK
  <2>2. smsg[s] \in Msgs
    BY <1>1 DEF SendOffers, Sending, RInv, SendersCarry
  <2>3. TypeOK'
    BY <1>1, <2>1, <2>2 DEF SendOffers, BroadcastNotEmpty, Entered, TypeOK, history
  <2>4. Place(0)' = 0 /\ Place(1)' = 0
    BY <2>1 DEF Place
  <2>5. slot'[0] \in Msgs
    BY <1>1, <2>1, <2>2 DEF SendOffers, TypeOK
  <2>6. \A t \in Senders : /\ spc'[t] # "idle" => smsg'[t] \in Msgs
                           /\ spc'[t] \in {"offered", "recheck"} => cap' = 0
    BY <1>1, <2>2 DEF SendOffers, RInv, SendersCarry, TypeOK
  <2>. QED BY <2>1, <2>3, <2>4, <2>5, <2>6 DEF RInv, TailBehind, ValuesInRing, SendersCarry
<1>2. CASE SendOfferEnds(s)
  <2>1. /\ cap = 0 /\ Stride = 1 /\ Stride' = 1 /\ size \in {0, 1} /\ size' = 0
        /\ head = 0 /\ tail = 0 /\ head' = 0 /\ tail' = 0
    BY <1>2 DEF SendOfferEnds, Stride, TypeOK, RInv, SendersCarry
  <2>2. smsg[s] \in Msgs
    BY <1>2 DEF SendOfferEnds, RInv, SendersCarry
  <2>3. TypeOK'
    BY <1>2, <2>1, <2>2, BroadcastKeepsCalls DEF SendOfferEnds, TypeOK
  <2>4. Place(0)' = 0
    BY <2>1 DEF Place
  <2>5. \A t \in Senders : /\ spc'[t] # "idle" => smsg'[t] \in Msgs
                           /\ spc'[t] \in {"offered", "recheck"} => cap' = 0
    BY <1>2, <2>1, BroadcastKeepsCalls DEF SendOfferEnds, RInv, SendersCarry, TypeOK
  <2>. QED BY <2>1, <2>3, <2>4, <2>5 DEF RInv, TailBehind, ValuesInRing, SendersCarry
<1>. QED BY <1>1, <1>2

LEMMA TakesStep ==
  ASSUME TypeOK, RInv, NEW r \in Receivers, RecvTakes(r)
  PROVE  TypeOK' /\ RInv'
<1>1. /\ Stride \in Nat \ {0} /\ Stride' = Stride
      /\ size \in 1..Stride /\ size' = size - 1 /\ size - 1 \in 0..(Stride - 1)
      /\ head \in 0..(Stride - 1)
  BY StrideIsPositive DEF RecvTakes, Stride, TypeOK
<1>2. /\ head' = Place(1) /\ head' \in 0..(Stride - 1) /\ Place(0) = head
  <2>1. 0 \in 0..Stride /\ 1 \in 0..Stride
    BY <1>1
  <2>2. head' = Place(1)
    BY DEF RecvTakes, Place
  <2>. QED BY <1>1, <2>1, <2>2, PlaceInRing
<1>3. slot[head] \in Msgs
  BY <1>1, <1>2 DEF RInv, ValuesInRing
<1>4. TypeOK'
  <2>1. received' \in Seq(Msgs)
    BY <1>3 DEF RecvTakes, TypeOK
  <2>. QED
    BY <1>1, <1>2, <2>1, BroadcastKeepsCalls
       DEF RecvTakes, Receiving, Entered, TypeOK
<1>5. \A i \in 0..(Stride - 1) : Place(i)' = Place(i + 1)
  BY <1>1, <1>2, PlaceAfterHead DEF RecvTakes, Place
<1>6. tail' = Place(size)'
  BY <1>1, <1>5 DEF RecvTakes, RInv, TailBehind
<1>7. \A i \in 0..(size' - 1) : slot'[Place(i)'] \in Msgs
  BY <1>1, <1>5 DEF RecvTakes, RInv, ValuesInRing
<1>8. \A t \in Senders : /\ spc'[t] # "idle" => smsg'[t] \in Msgs
                         /\ spc'[t] \in {"offered", "recheck"} => cap' = 0
  BY BroadcastKeepsCalls DEF RecvTakes, RInv, SendersCarry, TypeOK
<1>. QED BY <1>4, <1>6, <1>7, <1>8 DEF RInv, TailBehind, ValuesInRing, SendersCarry

LEMMA RingInductive == TypeOK /\ RInv /\ [Next]_vars => TypeOK' /\ RInv'
<1> SUFFICES ASSUME TypeOK, RInv, [Next]_vars
             PROVE  TypeOK' /\ RInv'
  OBVIOUS
<1>1. CASE UNCHANGED vars
  BY <1>1, QuietRing DEF vars, ring, history, TypeOK, RInv, SendersCarry, Stride
<1>. QED
  BY <1>1, QuietStep, BuffersStep, OffersStep, TakesStep
     DEF Next, SendStep, RecvStep, Quiet

LEMMA RingInit == Init => TypeOK /\ RInv
<1> SUFFICES ASSUME Init PROVE TypeOK /\ RInv
  OBVIOUS
<1>1. Stride \in Nat \ {0}
  BY DEF Init, Stride
<1>2. TypeOK
  <2>1. [i \in 0..(Stride - 1) |-> 0] \in [0..(Stride - 1) -> Msgs \cup {0}]
    OBVIOUS
  <2>2. 1 \in 1..(MaxMsg + 1) /\ 0 \in 0..(Stride - 1) /\ 0 \in 0..Stride
    BY <1>1
  <2>3. slot \in [0..(Stride - 1) -> Msgs \cup {0}]
    BY <2>1 DEF Init
  <2>4. /\ spc \in [Senders -> {"idle", "call", "full", "retry", "offered", "recheck"}]
        /\ smsg \in [Senders -> Msgs \cup {0}]
        /\ rpc \in [Receivers -> {"idle", "call", "empty", "retry"}]
        /\ received \in Seq(Msgs)
    BY DEF Init
  <2>5. /\ head \in 0..(Stride - 1) /\ tail \in 0..(Stride - 1)
        /\ size \in 0..Stride /\ next \in 1..(MaxMsg + 1) /\ active \in Int
    BY <2>2 DEF Init
  <2>6. cap \in Caps /\ closed \in BOOLEAN /\ ended \in BOOLEAN /\ gone \in {"no", "freed", "aborted"}
    BY DEF Init
  <2>7. accepted \subseteq Msgs /\ refused \subseteq Msgs
    BY DEF Init
  <2>. QED BY <2>3, <2>4, <2>5, <2>6, <2>7 DEF TypeOK
<1>3. Place(0) = 0
  BY <1>2, PlaceInRing, StrideIsPositive DEF Init
<1>. QED BY <1>2, <1>3 DEF Init, RInv, TailBehind, ValuesInRing, SendersCarry

LEMMA RingInvariant == Spec => [](TypeOK /\ RInv)
  BY RingInit, RingInductive, PTL DEF Spec

(* The cursors stay in the ring and size in its capacity, and every thread *)
(* is where the code can put it.                                           *)
THEOREM TypeCorrect == Spec => []TypeOK
  BY RingInvariant, PTL

-----------------------------------------------------------------------------
(* The ring is a queue.                                                    *)

LEMMA QueueFromRing ==
  TypeOK /\ RInv => /\ Queue \in Seq(Msgs)
                    /\ Len(Queue) = size
                    /\ \A i \in 1..size : Queue[i] = slot[Place(i - 1)]
<1> SUFFICES ASSUME TypeOK, RInv
             PROVE  /\ Queue \in Seq(Msgs)
                    /\ Len(Queue) = size
                    /\ \A i \in 1..size : Queue[i] = slot[Place(i - 1)]
  OBVIOUS
<1>1. size \in Nat
  BY StrideIsPositive DEF TypeOK
<1>2. \A i \in 1..size : slot[Place(i - 1)] \in Msgs
  BY <1>1 DEF RInv, ValuesInRing
<1>. QED BY <1>1, <1>2 DEF Queue

LEMMA QueueAfterStep ==
  (TypeOK /\ RInv)' => (Queue \in Seq(Msgs) /\ Len(Queue) = size)'
<1>1. TypeOK /\ RInv => Queue \in Seq(Msgs) /\ Len(Queue) = size
  BY QueueFromRing
<1>. QED BY <1>1, PTL

LEMMA QuietQueue ==
  ASSUME UNCHANGED ring
  PROVE  Queue' = Queue
BY DEF ring, Queue, Place, Stride

\* send puts its message behind the last one.
LEMMA PutAppends ==
  ASSUME TypeOK, RInv, NEW s \in Senders,
         SendBuffers(s) \/ SendOffers(s)
  PROVE  /\ Queue' = Append(Queue, smsg[s])
         /\ smsg[s] \in Msgs
         /\ Len(Queue) < Stride
<1>1. TypeOK' /\ RInv'
  BY BuffersStep, OffersStep
<1>2. /\ Stride \in Nat \ {0} /\ Stride' = Stride
      /\ size \in 0..(Stride - 1) /\ size' = size + 1 /\ head' = head
  <2>1. CASE SendBuffers(s)
    BY <2>1 DEF SendBuffers, Stride, TypeOK
  <2>2. CASE SendOffers(s)
    BY <2>2 DEF SendOffers, Stride, TypeOK
  <2>. QED BY <2>1, <2>2
<1>0. smsg[s] \in Msgs
  BY DEF SendBuffers, SendOffers, Sending, RInv, SendersCarry
<1>3. slot' = [slot EXCEPT ![tail] = smsg[s]]
  BY DEF SendBuffers, SendOffers, Stride, TypeOK
<1>4. \A i \in Int : Place(i)' = Place(i)
  BY <1>2 DEF Place
<1>5. tail = Place(size) /\ tail \in 0..(Stride - 1)
  BY DEF RInv, TailBehind, TypeOK
<1>6. Len(Queue') = size + 1 /\ Queue' \in Seq(Msgs)
  BY <1>1, <1>2, QueueAfterStep
<1>7. ASSUME NEW i \in 1..(size + 1)
      PROVE  Queue'[i] = Append(Queue, smsg[s])[i]
  <2>1. Queue'[i] = slot'[Place(i - 1)]
    BY <1>2, <1>4 DEF Queue
  <2>2. CASE i = size + 1
    <3>1. Place(i - 1) = tail
      BY <1>2, <1>5, <2>2
    <3>. QED BY <1>0, <1>2, <1>3, <1>5, <2>1, <2>2, <3>1, QueueFromRing DEF TypeOK
  <2>3. CASE i # size + 1
    <3>1. i \in 1..size /\ i - 1 \in 0..(Stride - 1) /\ i - 1 # size
      BY <1>2, <2>3
    <3>2. Place(i - 1) # tail /\ Place(i - 1) \in 0..(Stride - 1)
      BY <1>2, <1>5, <3>1, PlacesDistinct, PlaceInRing
    <3>. QED BY <1>2, <1>3, <2>1, <3>1, <3>2, QueueFromRing DEF TypeOK
  <2>. QED BY <2>2, <2>3
<1>. QED BY <1>0, <1>2, <1>6, <1>7, QueueFromRing

\* recv takes the first message.
LEMMA GetTakesHead ==
  ASSUME TypeOK, RInv, NEW r \in Receivers, RecvTakes(r)
  PROVE  /\ Queue # <<>>
         /\ slot[head] = Head(Queue)
         /\ Queue' = Tail(Queue)
<1>1. TypeOK' /\ RInv'
  BY TakesStep
<1>2. /\ Stride \in Nat \ {0} /\ Stride' = Stride
      /\ size \in 1..Stride /\ size' = size - 1 /\ slot' = slot
      /\ head \in 0..(Stride - 1)
  BY StrideIsPositive DEF RecvTakes, Stride, TypeOK
<1>3. Place(0) = head
  BY <1>2, PlaceInRing
<1>4. Queue # <<>> /\ slot[head] = Head(Queue)
  BY <1>2, <1>3, QueueFromRing
<1>5. head' \in 0..(Stride - 1)
  BY <1>1, <1>2 DEF TypeOK
<1>6. \A i \in 0..(Stride - 1) : Place(i)' = Place(i + 1)
  BY <1>2, <1>5, PlaceAfterHead DEF RecvTakes, Place
<1>7. Len(Queue') = size - 1 /\ Queue' \in Seq(Msgs)
  BY <1>1, <1>2, QueueAfterStep
<1>8. ASSUME NEW i \in 1..(size - 1)
      PROVE  Queue'[i] = Tail(Queue)[i]
  <2>1. Queue'[i] = slot'[Place(i - 1)']
    BY <1>2 DEF Queue
  <2>2. Place(i - 1)' = Place(i)
    BY <1>2, <1>6
  <2>3. Queue[i + 1] = slot[Place(i)]
    BY <1>2, QueueFromRing
  <2>. QED BY <1>2, <2>1, <2>2, <2>3, QueueFromRing
<1>. QED BY <1>2, <1>4, <1>7, <1>8, QueueFromRing

(* The ring with its locks and conditions refines Channel.                 *)
THEOREM ChannelImplemented == Spec => ImplementsChannel
<1>1. Init => Promised!Init
  BY DEF Init, Promised!Init, Queue
<1>2. TypeOK /\ RInv /\ [Next]_vars => [Promised!Next]_Promised!cvars
  <2> SUFFICES ASSUME TypeOK, RInv, [Next]_vars
               PROVE  [Promised!Next]_Promised!cvars
    OBVIOUS
  <2> USE DEF Promised!Next, Promised!cvars, Promised!Room
  <2>1. CASE UNCHANGED vars
    BY <2>1, QuietQueue DEF vars, ring, history
  <2>2. CASE Quiet
    <3>1. UNCHANGED <<ring, received>> /\ Queue' = Queue
      BY <2>2, QuietQueue
         DEF Quiet, SendCalled, SendBlocks, SendRefused, SendStillOffered,
             RecvCalled, RecvBlocks, RecvEnds, Close, Free, SpuriousWakeup, history
    <3>2. closed' = closed \/ closed' = TRUE
      BY <2>2
         DEF Quiet, SendCalled, SendBlocks, SendRefused, SendStillOffered,
             RecvCalled, RecvBlocks, RecvEnds, Close, Free, SpuriousWakeup
    <3>. QED BY <3>1, <3>2 DEF Promised!Close, ring
  <2>3. ASSUME NEW s \in Senders, SendBuffers(s) \/ SendOffers(s)
        PROVE  Promised!Put(smsg[s]) /\ smsg[s] \in Msgs
    BY <2>3, PutAppends DEF Promised!Put, SendBuffers, SendOffers, Stride, history
  <2>4. ASSUME NEW s \in Senders, SendOfferEnds(s)
        PROVE  Promised!TakeBack \/ UNCHANGED Promised!cvars
    <3>1. cap = 0
      BY <2>4 DEF SendOfferEnds, RInv, SendersCarry
    <3>2. CASE size = 0
      <4>1. UNCHANGED ring
        BY <2>4, <3>2 DEF SendOfferEnds, ring
      <4>. QED BY <2>4, <4>1, QuietQueue DEF SendOfferEnds
    <3>3. CASE size # 0
      <4>1. closed /\ size' = 0
        BY <2>4, <3>3 DEF SendOfferEnds
      <4>2. Queue' = <<>>
        BY <4>1 DEF Queue
      <4>. QED BY <2>4, <3>1, <4>1, <4>2 DEF SendOfferEnds, Promised!TakeBack
    <3>. QED BY <3>2, <3>3
  <2>5. ASSUME NEW r \in Receivers, RecvTakes(r)
        PROVE  Promised!Get
    BY <2>5, GetTakesHead DEF Promised!Get, RecvTakes
  <2>. QED
    BY <2>1, <2>2, <2>3, <2>4, <2>5 DEF Next, SendStep, RecvStep, Quiet
<1>. QED
  BY <1>1, <1>2, RingInvariant, PTL DEF Spec, ImplementsChannel, Promised!Spec

-----------------------------------------------------------------------------
(* Counting threads.                                                       *)

\* A step that moves one thread changes a count by that thread.
LEMMA CountMoves ==
  ASSUME NEW T, IsFiniteSet(T), NEW pc, NEW pc2, NEW where, NEW t \in T,
         DOMAIN pc = T, DOMAIN pc2 = T,
         \A u \in T \ {t} : pc2[u] \in where <=> pc[u] \in where
  PROVE  /\ Count(pc, where) \in Nat /\ Count(pc2, where) \in Nat
         /\ pc[t] \in where /\ pc2[t] \in where
              => Count(pc2, where) = Count(pc, where)
         /\ pc[t] \notin where /\ pc2[t] \notin where
              => Count(pc2, where) = Count(pc, where)
         /\ pc[t] \notin where /\ pc2[t] \in where
              => Count(pc2, where) = Count(pc, where) + 1
         /\ pc[t] \in where /\ pc2[t] \notin where
              => Count(pc2, where) = Count(pc, where) - 1
<1> DEFINE A == {u \in DOMAIN pc : pc[u] \in where}
           B == {u \in DOMAIN pc2 : pc2[u] \in where}
<1>1. IsFiniteSet(A) /\ IsFiniteSet(B)
  BY FS_Subset
<1>2. Cardinality(A) \in Nat /\ Cardinality(B) \in Nat
  BY <1>1, FS_CardinalityType
<1>3. CASE (pc[t] \in where) <=> (pc2[t] \in where)
  <2>1. A = B
    BY <1>3
  <2>. QED BY <1>2, <1>3, <2>1 DEF Count
<1>4. CASE pc[t] \notin where /\ pc2[t] \in where
  <2>1. B = A \cup {t} /\ t \notin A
    BY <1>4
  <2>2. Cardinality(B) = Cardinality(A) + 1
    BY <1>1, <2>1, FS_AddElement
  <2>. QED BY <1>2, <1>4, <2>2 DEF Count
<1>5. CASE pc[t] \in where /\ pc2[t] \notin where
  <2>1. B = A \ {t} /\ t \in A
    BY <1>5
  <2>2. Cardinality(B) = Cardinality(A) - 1
    BY <1>1, <2>1, FS_RemoveElement
  <2>. QED BY <1>2, <1>5, <2>2 DEF Count
<1>. QED BY <1>3, <1>4, <1>5

LEMMA CountStays ==
  ASSUME NEW T, IsFiniteSet(T), NEW pc, NEW pc2, NEW where,
         DOMAIN pc = T, DOMAIN pc2 = T,
         \A u \in T : pc2[u] \in where <=> pc[u] \in where
  PROVE  Count(pc, where) \in Nat /\ Count(pc2, where) = Count(pc, where)
<1> DEFINE A == {u \in DOMAIN pc : pc[u] \in where}
           B == {u \in DOMAIN pc2 : pc2[u] \in where}
<1>1. A = B /\ IsFiniteSet(A)
  BY FS_Subset
<1>. QED BY <1>1, FS_CardinalityType DEF Count

-----------------------------------------------------------------------------
(* Nobody sleeps in vain.                                                  *)

\* Receivers that were woken.
Coming == Count(rpc, {"retry"})

LEMMA ComingMoves ==
  ASSUME TypeOK, NEW r \in Receivers, NEW v, rpc' = [rpc EXCEPT ![r] = v]
  PROVE  /\ Coming \in Nat /\ Coming' \in Nat
         /\ rpc[r] = "retry" /\ v # "retry" => Coming' = Coming - 1
         /\ rpc[r] # "retry" /\ v = "retry" => Coming' = Coming + 1
         /\ rpc[r] # "retry" /\ v # "retry" => Coming' = Coming
<1>1. DOMAIN rpc = Receivers /\ DOMAIN rpc' = Receivers /\ rpc'[r] = v
  BY DEF TypeOK
<1>2. \A u \in Receivers \ {r} : rpc'[u] \in {"retry"} <=> rpc[u] \in {"retry"}
  BY <1>1
<1> DEFINE before == rpc  after == rpc'
<1>3. /\ Count(before, {"retry"}) \in Nat /\ Count(after, {"retry"}) \in Nat
      /\ before[r] \notin {"retry"} /\ after[r] \notin {"retry"}
           => Count(after, {"retry"}) = Count(before, {"retry"})
      /\ before[r] \notin {"retry"} /\ after[r] \in {"retry"}
           => Count(after, {"retry"}) = Count(before, {"retry"}) + 1
      /\ before[r] \in {"retry"} /\ after[r] \notin {"retry"}
           => Count(after, {"retry"}) = Count(before, {"retry"}) - 1
  <2> HIDE DEF before, after
  <2>1. DOMAIN before = Receivers /\ DOMAIN after = Receivers
    BY <1>1 DEF before, after
  <2>2. \A u \in Receivers \ {r} : after[u] \in {"retry"} <=> before[u] \in {"retry"}
    BY <1>2 DEF before, after
  <2>. QED BY <2>1, <2>2, CountMoves, SMTT(30)
<1>4. Coming' = Count(after, {"retry"})
  BY DEF Coming, Count
<1>. QED BY <1>1, <1>3, <1>4 DEF Coming

LEMMA WakeupsSuffice ==
  ASSUME TypeOK, RInv, NobodySleepsInVain, [Next]_vars
  PROVE  NobodySleepsInVain'
<1> DEFINE Asleep == \E r \in Receivers : rpc[r] = "empty"
           Receive == Asleep => size <= Coming /\ ~closed
           Send    == Waiters # {} => size = Stride /\ ~closed
<1> SUFFICES Receive' /\ Send'
  BY DEF NobodySleepsInVain, Coming
<1>0. /\ Receive /\ Send /\ size \in Nat /\ Stride \in Nat \ {0} /\ Stride' = Stride
      /\ DOMAIN rpc = Receivers /\ DOMAIN rpc' = Receivers
      /\ IsFiniteSet(Receivers)
  <2>1. TypeOK'
    BY RingInductive
  <2>2. cap' = cap
    BY DEF Next, vars, SendStep, RecvStep, ring, SendCalled, SendBlocks, SendRefused,
           SendBuffers, SendOffers, SendStillOffered, SendOfferEnds, RecvCalled,
           RecvBlocks, RecvEnds, RecvTakes, Close, Free, SpuriousWakeup
  <2>. QED
    BY <2>1, <2>2, StrideIsPositive DEF NobodySleepsInVain, Coming, TypeOK, Stride
<1>00. Coming \in Nat
  BY <1>0, CountStays DEF Coming
<1>1. CASE UNCHANGED vars
  BY <1>0, <1>1 DEF vars, ring, Waiters, Coming, Count
<1>2. ASSUME NEW s \in Senders,
             SendCalled(s) \/ SendBlocks(s) \/ SendRefused(s) \/ SendStillOffered(s)
      PROVE  Receive' /\ Send'
  <2>1. rpc' = rpc /\ UNCHANGED <<ring, closed>>
    BY <1>2 DEF SendCalled, SendBlocks, SendRefused, SendStillOffered
  <2>2. Receive'
    BY <1>0, <2>1 DEF ring, Coming, Count
  <2>3. Send'
    <3>1. CASE SendCalled(s) \/ SendRefused(s)
      BY <1>0, <2>1, <3>1 DEF SendCalled, SendRefused, Waiters, ring, TypeOK
    <3>2. CASE SendBlocks(s) \/ SendStillOffered(s)
      BY <1>0, <2>1, <3>2
         DEF SendBlocks, SendStillOffered, ring, RInv, SendersCarry, Stride
    <3>. QED BY <1>2, <3>1, <3>2
  <2>. QED BY <2>2, <2>3
<1>3. ASSUME NEW s \in Senders, SendBuffers(s)
      PROVE  Receive' /\ Send'
  <2>1. size # Stride /\ size' = size + 1 /\ ~closed'
    BY <1>3 DEF SendBuffers, Stride
  <2>2. Send'
    BY <1>0, <1>3, <2>1 DEF SendBuffers, Sending, Waiters, TypeOK
  <2>3. CASE rpc' = rpc /\ ~Asleep
    BY <2>2, <2>3
  <2>4. ASSUME NEW r \in Receivers, rpc[r] = "empty", rpc' = [rpc EXCEPT ![r] = "retry"]
        PROVE  Receive'
    <3>1. Coming' = Coming + 1
      BY <2>4, ComingMoves
    <3>. QED BY <1>0, <1>00, <2>1, <2>4, <3>1
  <2>. QED BY <1>3, <2>2, <2>3, <2>4 DEF SendBuffers, SignalNotEmpty
<1>4. ASSUME NEW s \in Senders, SendOffers(s)
      PROVE  Receive' /\ Send'
  BY <1>0, <1>4 DEF SendOffers, BroadcastNotEmpty, Stride, Waiters, Sending, TypeOK
<1>5. ASSUME NEW s \in Senders, SendOfferEnds(s)
      PROVE  Receive' /\ Send'
  <2>1. rpc' = rpc /\ size' \in Int /\ size' <= size /\ closed' = closed
    BY <1>0, <1>5 DEF SendOfferEnds
  <2>2. Receive'
    BY <1>0, <1>00, <2>1 DEF Coming, Count
  <2>3. Waiters' = {}
    BY <1>5 DEF SendOfferEnds, Waiters, BroadcastNotFull, Woken, TypeOK
  <2>. QED BY <2>2, <2>3
<1>6. ASSUME NEW r \in Receivers, RecvCalled(r) \/ RecvBlocks(r) \/ RecvEnds(r)
      PROVE  Receive' /\ Send'
  <2>1. spc' = spc /\ UNCHANGED <<ring, closed>>
    BY <1>6 DEF RecvCalled, RecvBlocks, RecvEnds
  <2>2. Send'
    BY <1>0, <2>1 DEF ring, Waiters
  <2>3. CASE RecvCalled(r)
    <3>1. Coming' = Coming
      <4>1. rpc' = [rpc EXCEPT ![r] = "call"] /\ rpc[r] = "idle"
        BY <2>3 DEF RecvCalled
      <4>2. "call" # "retry" /\ rpc[r] # "retry"
        BY <4>1
      <4>. QED BY <4>1, <4>2, ComingMoves, Zenon
    <3>. QED BY <1>0, <2>1, <2>2, <2>3, <3>1 DEF RecvCalled, ring
  <2>4. CASE RecvBlocks(r)
    <3>1. Coming' \in Nat /\ size' = 0 /\ ~closed'
      <4>1. rpc' = [rpc EXCEPT ![r] = "empty"] /\ size = 0 /\ ~closed
        BY <2>4 DEF RecvBlocks
      <4>. QED BY <2>1, <4>1, ComingMoves DEF ring
    <3>. QED BY <2>2, <3>1
  <2>5. CASE RecvEnds(r)
    BY <1>0, <2>1, <2>2, <2>5 DEF RecvEnds
  <2>. QED BY <1>6, <2>3, <2>4, <2>5
<1>7. ASSUME NEW r \in Receivers, RecvTakes(r)
      PROVE  Receive' /\ Send'
  <2>1. Waiters' = {}
    BY <1>7 DEF RecvTakes, Waiters, BroadcastNotFull, Woken, TypeOK
  <2>2. /\ size' = size - 1 /\ closed' = closed
        /\ rpc' = [rpc EXCEPT ![r] = "idle"]
    BY <1>7 DEF RecvTakes
  <2>3. Coming' \in Nat /\ Coming' >= Coming - 1
    <3>1. Coming' = Coming - 1 \/ Coming' = Coming
      <4>1. "idle" # "retry" /\ rpc' = [rpc EXCEPT ![r] = "idle"]
        BY <2>2
      <4>. QED BY <4>1, ComingMoves, Zenon
    <3>2. Coming' \in Nat
      BY <2>2, ComingMoves
    <3>. QED BY <1>00, <3>1, <3>2
  <2>4. Asleep' => Asleep
    BY <1>0, <2>2
  <2>. QED BY <1>0, <1>00, <2>1, <2>2, <2>3, <2>4
<1>8. CASE Close \/ Free
  <2>1. \/ UNCHANGED <<rpc, spc, closed, ring>>
        \/ /\ rpc' = [r \in Receivers |-> IF rpc[r] = "empty" THEN "retry" ELSE rpc[r]]
           /\ spc' = BroadcastNotFull
    BY <1>8 DEF Close, Free, BroadcastNotEmpty
  <2>2. CASE UNCHANGED <<rpc, spc, closed, ring>>
    BY <1>0, <2>2 DEF ring, Waiters, Coming, Count
  <2>3. CASE /\ rpc' = [r \in Receivers |-> IF rpc[r] = "empty" THEN "retry" ELSE rpc[r]]
             /\ spc' = BroadcastNotFull
    BY <2>3 DEF Waiters, BroadcastNotFull, Woken, TypeOK
  <2>. QED BY <2>1, <2>2, <2>3
<1>9. CASE SpuriousWakeup
  <2>1. UNCHANGED <<ring, closed>>
    BY <1>9 DEF SpuriousWakeup
  <2>2. ASSUME NEW s \in Waiters, spc' = [spc EXCEPT ![s] = Woken(@)], rpc' = rpc
        PROVE  Receive' /\ Send'
    BY <1>0, <2>1, <2>2 DEF ring, Waiters, Woken, Coming, Count, TypeOK
  <2>3. ASSUME NEW r \in Receivers, rpc[r] = "empty",
               rpc' = [rpc EXCEPT ![r] = "retry"], spc' = spc
        PROVE  Receive' /\ Send'
    <3>1. Coming' = Coming + 1
      BY <2>3, ComingMoves
    <3>. QED BY <1>0, <1>00, <2>1, <2>3, <3>1 DEF ring, Waiters
  <2>. QED BY <1>9, <2>2, <2>3 DEF SpuriousWakeup
<1>. QED
  BY <1>1, <1>2, <1>3, <1>4, <1>5, <1>6, <1>7, <1>8, <1>9
     DEF Next, SendStep, RecvStep

(* Nobody sleeps on a condition that has become true.                      *)
THEOREM NobodySleepsInVainCorrect == Spec => []NobodySleepsInVain
<1>1. Init => NobodySleepsInVain
  BY DEF Init, NobodySleepsInVain, Waiters
<1>. QED BY <1>1, WakeupsSuffice, RingInvariant, PTL DEF Spec

-----------------------------------------------------------------------------
(* The count of active calls.                                              *)

InSend == {"full", "retry", "offered", "recheck"}
InRecv == {"empty", "retry"}

SendCalls == Count(spc, InSend)
RecvCalls == Count(rpc, InRecv)

LEMMA SendCallsMove ==
  ASSUME TypeOK, TypeOK', NEW s \in Senders,
         \A u \in Senders \ {s} : spc'[u] \in InSend <=> spc[u] \in InSend
  PROVE  /\ SendCalls \in Nat /\ SendCalls' \in Nat
         /\ (spc[s] \in InSend <=> spc'[s] \in InSend) => SendCalls' = SendCalls
         /\ spc[s] \notin InSend /\ spc'[s] \in InSend => SendCalls' = SendCalls + 1
         /\ spc[s] \in InSend /\ spc'[s] \notin InSend => SendCalls' = SendCalls - 1
<1> DEFINE before == spc  after == spc'
<1>1. /\ Count(before, InSend) \in Nat /\ Count(after, InSend) \in Nat
      /\ (before[s] \in InSend <=> after[s] \in InSend)
           => Count(after, InSend) = Count(before, InSend)
      /\ before[s] \notin InSend /\ after[s] \in InSend
           => Count(after, InSend) = Count(before, InSend) + 1
      /\ before[s] \in InSend /\ after[s] \notin InSend
           => Count(after, InSend) = Count(before, InSend) - 1
  <2>1. DOMAIN before = Senders /\ DOMAIN after = Senders
    BY DEF TypeOK
  <2>2. \A u \in Senders \ {s} : after[u] \in InSend <=> before[u] \in InSend
    OBVIOUS
  <2> HIDE DEF before, after
  <2>. QED BY <2>1, <2>2, CountMoves
<1>2. SendCalls' = Count(after, InSend)
  BY DEF SendCalls, Count, InSend
<1>. QED BY <1>1, <1>2 DEF SendCalls

LEMMA RecvCallsMove ==
  ASSUME TypeOK, TypeOK', NEW r \in Receivers,
         \A u \in Receivers \ {r} : rpc'[u] \in InRecv <=> rpc[u] \in InRecv
  PROVE  /\ RecvCalls \in Nat /\ RecvCalls' \in Nat
         /\ (rpc[r] \in InRecv <=> rpc'[r] \in InRecv) => RecvCalls' = RecvCalls
         /\ rpc[r] \notin InRecv /\ rpc'[r] \in InRecv => RecvCalls' = RecvCalls + 1
         /\ rpc[r] \in InRecv /\ rpc'[r] \notin InRecv => RecvCalls' = RecvCalls - 1
<1> DEFINE before == rpc  after == rpc'
<1>1. /\ Count(before, InRecv) \in Nat /\ Count(after, InRecv) \in Nat
      /\ (before[r] \in InRecv <=> after[r] \in InRecv)
           => Count(after, InRecv) = Count(before, InRecv)
      /\ before[r] \notin InRecv /\ after[r] \in InRecv
           => Count(after, InRecv) = Count(before, InRecv) + 1
      /\ before[r] \in InRecv /\ after[r] \notin InRecv
           => Count(after, InRecv) = Count(before, InRecv) - 1
  <2>1. DOMAIN before = Receivers /\ DOMAIN after = Receivers
    BY DEF TypeOK
  <2>2. \A u \in Receivers \ {r} : after[u] \in InRecv <=> before[u] \in InRecv
    OBVIOUS
  <2> HIDE DEF before, after
  <2>. QED BY <2>1, <2>2, CountMoves
<1>2. RecvCalls' = Count(after, InRecv)
  BY DEF RecvCalls, Count, InRecv
<1>. QED BY <1>1, <1>2 DEF RecvCalls

LEMMA CallsStay ==
  ASSUME TypeOK, TypeOK'
  PROVE  /\ SendCalls \in Nat /\ RecvCalls \in Nat
         /\ (\A u \in Senders : spc'[u] \in InSend <=> spc[u] \in InSend)
              => SendCalls' = SendCalls
         /\ (\A u \in Receivers : rpc'[u] \in InRecv <=> rpc[u] \in InRecv)
              => RecvCalls' = RecvCalls
<1>1. DOMAIN spc = Senders /\ DOMAIN spc' = Senders
  BY DEF TypeOK
<1>2. DOMAIN rpc = Receivers /\ DOMAIN rpc' = Receivers
  BY DEF TypeOK
<1>3. SendCalls \in Nat /\ RecvCalls \in Nat
  BY <1>1, <1>2, CountStays DEF SendCalls, RecvCalls
<1>4. ASSUME \A u \in Senders : spc'[u] \in InSend <=> spc[u] \in InSend
      PROVE  SendCalls' = SendCalls
  <2>1. {u \in DOMAIN spc' : spc'[u] \in InSend} = {u \in DOMAIN spc : spc[u] \in InSend}
    BY <1>1, <1>4
  <2>. QED BY <2>1 DEF SendCalls, Count, InSend
<1>5. ASSUME \A u \in Receivers : rpc'[u] \in InRecv <=> rpc[u] \in InRecv
      PROVE  RecvCalls' = RecvCalls
  <2>1. {u \in DOMAIN rpc' : rpc'[u] \in InRecv} = {u \in DOMAIN rpc : rpc[u] \in InRecv}
    BY <1>2, <1>5
  <2>. QED BY <2>1 DEF RecvCalls, Count, InRecv
<1>. QED BY <1>3, <1>4, <1>5

LEMMA CountedStep ==
  ASSUME TypeOK, RInv, ActiveCounted, [Next]_vars
  PROVE  ActiveCounted'
<1>0. TypeOK' /\ SendCalls \in Nat /\ RecvCalls \in Nat /\ active \in Int
  BY RingInductive, CallsStay DEF TypeOK
<1>00. active = SendCalls + RecvCalls
  BY DEF ActiveCounted, SendCalls, RecvCalls, InSend, InRecv
<1> SUFFICES active' = SendCalls' + RecvCalls'
  BY DEF ActiveCounted, SendCalls, RecvCalls, InSend, InRecv
<1> USE DEF InSend, InRecv
<1>1. CASE /\ active' = active
           /\ \A u \in Senders : spc'[u] \in InSend <=> spc[u] \in InSend
           /\ \A u \in Receivers : rpc'[u] \in InRecv <=> rpc[u] \in InRecv
  BY <1>0, <1>00, <1>1, CallsStay
<1>2. CASE UNCHANGED vars
  BY <1>1, <1>2 DEF vars
<1>3. CASE Close \/ Free \/ SpuriousWakeup
  <2>1. active' = active
    BY <1>3 DEF Close, Free, SpuriousWakeup
  <2>2. \A u \in Senders : spc'[u] \in InSend <=> spc[u] \in InSend
    BY <1>3 DEF Close, Free, SpuriousWakeup, BroadcastNotFull, Woken, Waiters, TypeOK
  <2>3. \A u \in Receivers : rpc'[u] \in InRecv <=> rpc[u] \in InRecv
    BY <1>3 DEF Close, Free, SpuriousWakeup, BroadcastNotEmpty, TypeOK
  <2>. QED BY <1>1, <2>1, <2>2, <2>3
<1>4. ASSUME NEW s \in Senders, SendCalled(s) \/ SendStillOffered(s)
      PROVE  active' = SendCalls' + RecvCalls'
  BY <1>1, <1>4 DEF SendCalled, SendStillOffered, TypeOK
<1>5. ASSUME NEW r \in Receivers, RecvCalled(r)
      PROVE  active' = SendCalls' + RecvCalls'
  BY <1>1, <1>5 DEF RecvCalled, TypeOK
<1>6. ASSUME NEW s \in Senders, SendBlocks(s) \/ SendOffers(s)
      PROVE  active' = SendCalls' + RecvCalls'
  <2>1. /\ spc[s] \in {"call", "retry"} /\ spc'[s] \in InSend
        /\ \A u \in Senders \ {s} : spc'[u] \in InSend <=> spc[u] \in InSend
    BY <1>6 DEF SendBlocks, SendOffers, Sending, TypeOK
  <2>2. RecvCalls' = RecvCalls
    BY <1>0, <1>6, CallsStay, SMTT(30)
       DEF SendBlocks, SendOffers, BroadcastNotEmpty, TypeOK
  <2>3. active' = IF spc[s] = "call" THEN active + 1 ELSE active
    BY <1>6 DEF SendBlocks, SendOffers, Entered
  <2>4. SendCalls' = IF spc[s] = "call" THEN SendCalls + 1 ELSE SendCalls
    BY <1>0, <2>1, SendCallsMove
  <2>. QED BY <1>0, <1>00, <2>2, <2>3, <2>4
<1>7. ASSUME NEW s \in Senders,
             SendRefused(s) \/ SendBuffers(s) \/ SendOfferEnds(s)
      PROVE  active' = SendCalls' + RecvCalls'
  <2>1. /\ spc[s] \in {"call", "retry", "recheck"} /\ spc'[s] = "idle"
        /\ \A u \in Senders \ {s} : spc'[u] \in InSend <=> spc[u] \in InSend
    BY <1>7 DEF SendRefused, SendBuffers, SendOfferEnds, Sending, BroadcastNotFull,
                Woken, TypeOK
  <2>2. RecvCalls' = RecvCalls
    BY <1>0, <1>7, CallsStay, SMTT(30)
       DEF SendRefused, SendBuffers, SendOfferEnds, SignalNotEmpty, TypeOK
  <2>3. active' = IF spc[s] = "call" THEN active ELSE active - 1
    BY <1>0, <1>7 DEF SendRefused, SendBuffers, SendOfferEnds, Sending, Entered
  <2>4. SendCalls' = IF spc[s] = "call" THEN SendCalls ELSE SendCalls - 1
    BY <1>0, <2>1, SendCallsMove
  <2>. QED BY <1>0, <1>00, <2>2, <2>3, <2>4
<1>8. ASSUME NEW r \in Receivers, RecvBlocks(r)
      PROVE  active' = SendCalls' + RecvCalls'
  <2>1. /\ rpc[r] \in {"call", "retry"} /\ rpc'[r] = "empty" /\ spc' = spc
        /\ \A u \in Receivers \ {r} : rpc'[u] \in InRecv <=> rpc[u] \in InRecv
    BY <1>8 DEF RecvBlocks, Receiving, TypeOK
  <2>2. SendCalls' = SendCalls
    BY <1>0, <2>1, CallsStay
  <2>3. active' = IF rpc[r] = "call" THEN active + 1 ELSE active
    BY <1>8 DEF RecvBlocks, Entered
  <2>4. RecvCalls' = IF rpc[r] = "call" THEN RecvCalls + 1 ELSE RecvCalls
    BY <1>0, <2>1, RecvCallsMove
  <2>. QED BY <1>0, <1>00, <2>2, <2>3, <2>4
<1>9. ASSUME NEW r \in Receivers, RecvEnds(r) \/ RecvTakes(r)
      PROVE  active' = SendCalls' + RecvCalls'
  <2>1. /\ rpc[r] \in {"call", "retry"} /\ rpc'[r] = "idle"
        /\ \A u \in Receivers \ {r} : rpc'[u] \in InRecv <=> rpc[u] \in InRecv
    BY <1>9 DEF RecvEnds, RecvTakes, Receiving, TypeOK
  <2>2. \A u \in Senders : spc'[u] \in InSend <=> spc[u] \in InSend
    BY <1>9 DEF RecvEnds, RecvTakes, BroadcastNotFull, Woken, TypeOK
  <2>5. SendCalls' = SendCalls
    BY <1>0, <2>2, CallsStay
  <2>3. active' = IF rpc[r] = "call" THEN active ELSE active - 1
    BY <1>0, <1>9 DEF RecvEnds, RecvTakes, Entered
  <2>4. RecvCalls' = IF rpc[r] = "call" THEN RecvCalls ELSE RecvCalls - 1
    BY <1>0, <2>1, RecvCallsMove
  <2>. QED BY <1>0, <1>00, <2>3, <2>4, <2>5
<1>. QED
  BY <1>2, <1>3, <1>4, <1>5, <1>6, <1>7, <1>8, <1>9 DEF Next, SendStep, RecvStep

(* chan_free sees every call that is inside the channel.                   *)
THEOREM ActiveCountedCorrect == Spec => []ActiveCounted
<1>1. Init => ActiveCounted
  <2> SUFFICES ASSUME Init PROVE ActiveCounted
    OBVIOUS
  <2>1. /\ {s \in DOMAIN spc : spc[s] \in {"full", "retry", "offered", "recheck"}} = {}
        /\ {r \in DOMAIN rpc : rpc[r] \in {"empty", "retry"}} = {}
    BY DEF Init
  <2>2. /\ Count(spc, {"full", "retry", "offered", "recheck"}) = 0
        /\ Count(rpc, {"empty", "retry"}) = 0
    BY <2>1, FS_EmptySet DEF Count
  <2>3. active = 0
    BY DEF Init
  <2>. QED BY <2>2, <2>3 DEF ActiveCounted
<1>. QED BY <1>1, CountedStep, RingInvariant, PTL DEF Spec

-----------------------------------------------------------------------------
(* What send reports.                                                      *)

Held == Range(received) \cup Range(Queue)

\* What a step does to the messages that are in the channel or received.
LEMMA HeldQuiet ==
  ASSUME UNCHANGED <<ring, received>>
  PROVE  Held' = Held
BY QuietQueue DEF Held

LEMMA HeldPut ==
  ASSUME TypeOK, RInv, NEW s \in Senders, SendBuffers(s) \/ SendOffers(s)
  PROVE  Held' = Held \cup {smsg[s]}
<1>1. Queue' = Append(Queue, smsg[s]) /\ smsg[s] \in Msgs /\ Queue \in Seq(Msgs)
  BY PutAppends, QueueFromRing
<1>2. received' = received
  BY DEF SendBuffers, SendOffers, history
<1>. QED BY <1>1, <1>2, AppendToQueue DEF Held

LEMMA HeldTake ==
  ASSUME TypeOK, RInv, NEW r \in Receivers, RecvTakes(r)
  PROVE  Held' = Held /\ Range(received) \subseteq Range(received')
<1>1. /\ Queue # <<>> /\ slot[head] = Head(Queue) /\ Queue' = Tail(Queue)
      /\ Queue \in Seq(Msgs) /\ received \in Seq(Msgs)
  BY GetTakesHead, QueueFromRing DEF TypeOK
<1>2. received' = Append(received, Head(Queue))
  BY <1>1 DEF RecvTakes
<1>3. /\ Head(Queue) \in Msgs
      /\ Range(Queue) = {Head(Queue)} \cup Range(Tail(Queue))
  BY <1>1, PopFromQueue
<1>4. Range(received') = Range(received) \cup {Head(Queue)}
  BY <1>1, <1>2, <1>3, AppendToQueue
<1>. QED BY <1>1, <1>3, <1>4 DEF Held

LEMMA HeldOffer ==
  ASSUME TypeOK, RInv, NEW s \in Senders, SendOfferEnds(s)
  PROVE  /\ Held' \subseteq Held
         /\ size = 0 => Held' = Held /\ Held = Range(received)
         /\ received' = received
<1>1. received' = received
  BY DEF SendOfferEnds
<1>2. CASE size = 0
  <2>1. Queue = <<>>
    BY <1>2 DEF Queue
  <2>2. UNCHANGED <<ring, received>>
    BY <1>2 DEF SendOfferEnds, ring
  <2>. QED BY <1>1, <2>1, <2>2, HeldQuiet, EmptyQueue DEF Held
<1>3. CASE size # 0
  <2>1. size' = 0
    BY <1>3 DEF SendOfferEnds
  <2>2. Queue' = <<>>
    BY <2>1 DEF Queue
  <2>. QED BY <1>1, <1>3, <2>2, EmptyQueue DEF Held
<1>. QED BY <1>2, <1>3

\* Messages of calls in flight are numbered apart, and a message that was
\* handed out is never the next one.
Numbered ==
  /\ \A s \in Senders : spc[s] # "idle" => smsg[s] < next
  /\ \A m \in accepted \cup refused \cup Held : m < next
  /\ \A s, u \in Senders :
       s # u /\ spc[s] # "idle" /\ spc[u] # "idle" => smsg[s] # smsg[u]

\* On a buffered channel a call in flight has not put its message yet.
BufferedTold ==
  cap > 0 => /\ accepted \subseteq Held
             /\ refused \cap Held = {}
             /\ \A s \in Senders : spc[s] # "idle" => smsg[s] \notin Held \cup refused

\* On an open rendezvous channel an offered message is in the slot or taken.
OfferTold ==
  cap = 0 /\ ~closed =>
    /\ accepted \subseteq Range(received)
    /\ refused = {}
    /\ \A s \in Senders : spc[s] \in {"offered", "recheck"} => smsg[s] \in Held

Told == Numbered /\ BufferedTold /\ OfferTold

LEMMA ToldImpliesSendTold == Told => SendTold
BY DEF Told, BufferedTold, OfferTold, SendTold, Held

LEMMA HeldAreMessages ==
  ASSUME TypeOK, RInv
  PROVE  Held \subseteq Msgs /\ Held \subseteq Int
<1>1. received \in Seq(Msgs) /\ Queue \in Seq(Msgs)
  BY QueueFromRing DEF TypeOK
<1>. QED BY <1>1, RangeOfQueue DEF Held, Msgs

\* Steps that change nobody's message and tell nobody anything.
LEMMA ToldSilent ==
  ASSUME Told, UNCHANGED <<ring, accepted, refused, received, smsg, next>>,
         closed => closed',
         \A s \in Senders :
           /\ spc'[s] = "idle" <=> spc[s] = "idle"
           /\ spc'[s] \in {"offered", "recheck"} => spc[s] \in {"offered", "recheck"}
  PROVE  Told'
<1>1. Held' = Held /\ cap' = cap
  BY HeldQuiet DEF ring
<1>. QED BY <1>1 DEF Told, Numbered, BufferedTold, OfferTold

LEMMA ToldStep ==
  ASSUME TypeOK, RInv, Told, [Next]_vars
  PROVE  Told'
<1> USE DEF TypeOK
<1>1. CASE UNCHANGED vars
  BY <1>1, ToldSilent DEF vars, ring, history
<1>2. CASE Close \/ Free \/ SpuriousWakeup
  <2>1. \A s \in Senders :
           /\ spc'[s] = "idle" <=> spc[s] = "idle"
           /\ spc'[s] \in {"offered", "recheck"} => spc[s] \in {"offered", "recheck"}
    BY <1>2, BroadcastKeepsCalls
       DEF Close, Free, SpuriousWakeup, Waiters, Woken
  <2>. QED BY <1>2, <2>1, ToldSilent DEF Close, Free, SpuriousWakeup, history
<1>3. ASSUME NEW r \in Receivers, RecvCalled(r) \/ RecvBlocks(r) \/ RecvEnds(r)
      PROVE  Told'
  BY <1>3, ToldSilent DEF RecvCalled, RecvBlocks, RecvEnds, history
<1>4. ASSUME NEW s \in Senders, SendBlocks(s) \/ SendStillOffered(s)
      PROVE  Told'
  <2>1. \A u \in Senders :
           /\ spc'[u] = "idle" <=> spc[u] = "idle"
           /\ spc'[u] \in {"offered", "recheck"} => spc[u] \in {"offered", "recheck"}
    BY <1>4 DEF SendBlocks, SendStillOffered, Sending
  <2>. QED BY <1>4, <2>1, ToldSilent DEF SendBlocks, SendStillOffered, history
<1>5. ASSUME NEW s \in Senders, SendCalled(s)
      PROVE  Told'
  <2>1. Held' = Held /\ cap' = cap
    BY <1>5, HeldQuiet DEF SendCalled, history, ring
  <2>2. Held \subseteq Int /\ accepted \cup refused \subseteq Int
    BY HeldAreMessages DEF Msgs
  <2>3. /\ smsg'[s] = next /\ next' = next + 1 /\ spc'[s] = "call"
        /\ \A u \in Senders \ {s} : smsg'[u] = smsg[u] /\ spc'[u] = spc[u]
        /\ UNCHANGED <<closed, accepted, refused, received>>
    BY <1>5 DEF SendCalled, history
  <2>4. \A u \in Senders : smsg[u] \in Int
    BY DEF Msgs
  <2>5. Numbered'
    <3>1. next \in Int /\ next < next' /\ \A n \in Int : n < next => n < next'
      BY <2>3
    <3>2. \A u \in Senders : spc'[u] # "idle" => smsg'[u] < next'
      BY <2>3, <2>4, <3>1 DEF Told, Numbered
    <3>3. \A m \in (accepted \cup refused \cup Held)' : m < next'
      BY <2>1, <2>2, <2>3, <3>1 DEF Told, Numbered
    <3>4. \A u, v \in Senders :
            u # v /\ spc'[u] # "idle" /\ spc'[v] # "idle" => smsg'[u] # smsg'[v]
      BY <2>3, <2>4, <3>1 DEF Told, Numbered
    <3>. QED BY <3>2, <3>3, <3>4 DEF Numbered
  <2>6. BufferedTold'
    BY <2>1, <2>2, <2>3 DEF Told, Numbered, BufferedTold
  <2>7. OfferTold'
    BY <2>1, <2>3 DEF Told, OfferTold
  <2>. QED BY <2>5, <2>6, <2>7 DEF Told
<1>6. ASSUME NEW s \in Senders, SendRefused(s)
      PROVE  Told'
  <2>1. Held' = Held /\ cap' = cap
    BY <1>6, HeldQuiet DEF SendRefused, ring
  <2>2. /\ spc[s] # "idle" /\ spc' = [spc EXCEPT ![s] = "idle"]
        /\ closed' /\ refused' = refused \cup {smsg[s]}
        /\ UNCHANGED <<accepted, received, smsg, next>>
    BY <1>6 DEF SendRefused, Sending
  <2>. QED BY <2>1, <2>2 DEF Told, Numbered, BufferedTold, OfferTold
<1>7. ASSUME NEW s \in Senders, SendBuffers(s)
      PROVE  Told'
  <2>1. Held' = Held \cup {smsg[s]}
    BY <1>7, HeldPut
  <2>2. /\ spc[s] # "idle" /\ spc' = [spc EXCEPT ![s] = "idle"]
        /\ cap > 0 /\ cap' = cap /\ accepted' = accepted \cup {smsg[s]}
        /\ UNCHANGED <<refused, received, smsg, next>>
    BY <1>7 DEF SendBuffers, Sending
  <2>3. Numbered'
    BY <2>1, <2>2 DEF Told, Numbered
  <2>4. BufferedTold'
    BY <2>1, <2>2 DEF Told, Numbered, BufferedTold
  <2>. QED BY <2>2, <2>3, <2>4 DEF Told, OfferTold
<1>8. ASSUME NEW s \in Senders, SendOffers(s)
      PROVE  Told'
  <2>1. Held' = Held \cup {smsg[s]}
    BY <1>8, HeldPut
  <2>2. /\ spc[s] # "idle" /\ spc' = [spc EXCEPT ![s] = "offered"]
        /\ cap = 0 /\ cap' = cap /\ ~closed
        /\ UNCHANGED <<accepted, refused, received, smsg, next>>
    BY <1>8 DEF SendOffers, Sending, history
  <2>. QED BY <2>1, <2>2 DEF Told, Numbered, BufferedTold, OfferTold
<1>9. ASSUME NEW s \in Senders, SendOfferEnds(s)
      PROVE  Told'
  <2>1. /\ Held' \subseteq Held
        /\ size = 0 => Held' = Held /\ Held = Range(received)
    BY <1>9, HeldOffer
  <2>2. /\ spc[s] = "recheck" /\ cap = 0 /\ cap' = cap
        /\ UNCHANGED <<closed, received, smsg, next>>
        /\ \/ accepted' = accepted \cup {smsg[s]} /\ refused' = refused /\ size = 0
           \/ refused' = refused \cup {smsg[s]} /\ accepted' = accepted /\ closed
    BY <1>9 DEF SendOfferEnds, RInv, SendersCarry
  <2>3. /\ spc'[s] = "idle"
        /\ \A u \in Senders \ {s} :
             /\ spc'[u] = "idle" <=> spc[u] = "idle"
             /\ spc'[u] \in {"offered", "recheck"} <=> spc[u] \in {"offered", "recheck"}
    BY <1>9, BroadcastKeepsCalls DEF SendOfferEnds
  <2>4. Numbered'
    BY <2>1, <2>2, <2>3 DEF Told, Numbered
  <2>5. BufferedTold'
    BY <2>2 DEF BufferedTold
  <2>6. OfferTold'
    BY <2>1, <2>2, <2>3 DEF Told, OfferTold
  <2>. QED BY <2>4, <2>5, <2>6 DEF Told
<1>10. ASSUME NEW r \in Receivers, RecvTakes(r)
       PROVE  Told'
  <2>1. Held' = Held /\ Range(received) \subseteq Range(received')
    BY <1>10, HeldTake
  <2>2. UNCHANGED <<cap, closed, smsg, next, accepted, refused>>
    BY <1>10 DEF RecvTakes
  <2>3. \A u \in Senders :
          /\ spc'[u] = "idle" <=> spc[u] = "idle"
          /\ spc'[u] \in {"offered", "recheck"} <=> spc[u] \in {"offered", "recheck"}
    BY <1>10, BroadcastKeepsCalls DEF RecvTakes
  <2>4. Numbered'
    BY <2>1, <2>2, <2>3 DEF Told, Numbered
  <2>5. BufferedTold'
    BY <2>1, <2>2, <2>3 DEF Told, BufferedTold
  <2>6. OfferTold'
    BY <2>1, <2>2, <2>3 DEF Told, OfferTold
  <2>. QED BY <2>4, <2>5, <2>6 DEF Told
<1>. QED
  BY <1>1, <1>2, <1>3, <1>4, <1>5, <1>6, <1>7, <1>8, <1>9, <1>10
     DEF Next, SendStep, RecvStep

LEMMA ToldInit == Init => Told
<1> SUFFICES ASSUME Init PROVE Told
  OBVIOUS
<1>1. Held = {}
  <2>1. Queue = <<>> /\ received = <<>>
    BY DEF Init, Queue
  <2>. QED BY <2>1, EmptyQueue DEF Held
<1>. QED BY <1>1 DEF Init, Told, Numbered, BufferedTold, OfferTold

LEMMA ToldInvariant == Spec => []Told
  BY ToldInit, ToldStep, RingInvariant, PTL DEF Spec

(* What send tells its caller is what happens to the value: on a buffered  *)
(* channel always, on a rendezvous while it is open.                       *)
THEOREM SendToldCorrect == Spec => []SendTold
  BY ToldInvariant, ToldImpliesSendTold, PTL

-----------------------------------------------------------------------------
(* The end of a channel.                                                   *)

\* The end is reported of a closed and empty channel, which stays so.
EndReached == ended => closed /\ size = 0

LEMMA EndReachedStep ==
  ASSUME TypeOK, EndReached, [Next]_vars
  PROVE  EndReached'
<1> USE DEF EndReached
<1>1. CASE UNCHANGED vars
  BY <1>1 DEF vars, ring, history
<1>2. CASE Close \/ Free \/ SpuriousWakeup
  BY <1>2 DEF Close, Free, SpuriousWakeup, ring, history
<1>3. ASSUME NEW s \in Senders, SendCalled(s) \/ SendStep(s)
      PROVE  EndReached'
  BY <1>3 DEF SendCalled, SendStep, SendBlocks, SendRefused, SendBuffers, SendOffers,
              SendStillOffered, SendOfferEnds, ring, history
<1>4. ASSUME NEW r \in Receivers, RecvCalled(r) \/ RecvStep(r)
      PROVE  EndReached'
  BY <1>4 DEF RecvCalled, RecvStep, RecvBlocks, RecvEnds, RecvTakes, ring, history
<1>. QED BY <1>1, <1>2, <1>3, <1>4 DEF Next

(* Once recv has reported the end, every value reported sent has been      *)
(* received, and nothing is received any more.                             *)
THEOREM EndIsFinalCorrect == Spec => EndIsFinal
<1>1. Init => EndReached
  BY DEF Init, EndReached
<1>2. Told /\ EndReached /\ ended /\ cap > 0 => accepted \subseteq Range(received)
  <2> SUFFICES ASSUME Told, EndReached, ended, cap > 0
               PROVE  accepted \subseteq Range(received)
    OBVIOUS
  <2>1. Queue = <<>>
    BY DEF EndReached, Queue
  <2>. QED BY <2>1, EmptyQueue DEF Told, BufferedTold, Held
<1>3. TypeOK /\ EndReached /\ Next /\ ended => received' = received
  <2> SUFFICES ASSUME TypeOK, EndReached, Next, ended
               PROVE  received' = received
    OBVIOUS
  <2>1. \A r \in Receivers : ~RecvTakes(r)
    BY DEF RecvTakes, EndReached
  <2>2. CASE \E s \in Senders : SendCalled(s) \/ SendStep(s)
    BY <2>2 DEF SendCalled, SendStep, SendBlocks, SendRefused, SendBuffers, SendOffers,
                SendStillOffered, SendOfferEnds, history
  <2>3. CASE \E r \in Receivers : RecvCalled(r) \/ RecvStep(r)
    BY <2>1, <2>3 DEF RecvCalled, RecvStep, RecvBlocks, RecvEnds, history
  <2>4. CASE Close \/ Free \/ SpuriousWakeup
    BY <2>4 DEF Close, Free, SpuriousWakeup, history
  <2>. QED BY <2>2, <2>3, <2>4 DEF Next
<1>4. TypeOK /\ EndReached /\ Told /\ [Next]_vars =>
        [ended => /\ received' = received
                  /\ cap > 0 => accepted \subseteq Range(received)]_vars
  BY <1>2, <1>3
<1>5. TypeOK /\ EndReached /\ [Next]_vars => EndReached'
  BY EndReachedStep
<1>. QED BY <1>1, <1>4, <1>5, RingInvariant, ToldInvariant, PTL DEF Spec, EndIsFinal
=============================================================================
