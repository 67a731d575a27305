----------------------------- MODULE MCFilumChan -----------------------------
(* TLC instance of FilumChan: two senders and two receivers.               *)
EXTENDS FilumChan

CONSTANTS s1, s2, r1, r2

TwoSenders   == {s1, s2}
TwoReceivers == {r1, r2}
AllCaps      == {0, 1, 2}
Rendezvous   == {0}
=============================================================================
