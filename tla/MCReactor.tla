------------------------------ MODULE MCReactor ------------------------------
(* TLC instances of Reactor.  Each cfg picks the operations tasks may use. *)
EXTENDS Reactor

CONSTANTS w1, w2, h1, f1

OneWorker  == {w1}
TwoWorkers == {w1, w2}
OneHelper  == {h1}
OneFd      == {f1}
Durations  == {1}

OpsOffload == {"offload", "sleep", "close"}
OpsTasks   == {"fetch", "sleep", "sleep0", "park", "spawn", "stop", "close"}
=============================================================================
