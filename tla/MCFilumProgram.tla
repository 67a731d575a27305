--------------------------- MODULE MCFilumProgram ---------------------------
(* Two threads and two actors: one actor joins or waits while the other    *)
(* starts, polls, detaches or waits as well.                               *)
EXTENDS FilumProgram

CONSTANTS t1, t2, a1, a2

MCThreads == {t1, t2}
MCActors  == {a1, a2}
MCUsers   == MCThreads \cup MCActors
=============================================================================
