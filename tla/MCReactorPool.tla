---------------------------- MODULE MCReactorPool ----------------------------
(* TLC instance of ReactorPool: two workers, one helper.                   *)
EXTENDS ReactorPool

CONSTANTS w1, w2, h1, j1, j2, j3, p1

MCWorkers == {w1, w2}
MCHelpers == {h1}
MCPosts   == {p1}

Jobs3 == {j1, j2, j3}
=============================================================================
