---------------------------- MODULE MCBuildCache ----------------------------
(* Two processes that build or check, over two good versions of the        *)
(* sources and a faulty one.  The flags "debug" and "define" differ in a   *)
(* -D only, so they share their keys; with it the code of v2 does not      *)
(* compile.                                                                *)
EXTENDS BuildCache, TLC

CONSTANTS b1, b2, v1, v2, v3

MCBuilds   == {b1, b2}
MCVersions == {v1, v2, v3}
MCFaulty   == {v3}
MCBroken   == {<<"define", v2>>}

MCFlags  == {"debug", "define", "check"}
MCChecks == {"check"}
MCHashed == "debug" :> "debug" @@ "define" :> "debug" @@ "check" :> "check"
MCRuns   == b1 :> {"debug", "check"} @@ b2 :> {"define"}
MCOutput == b1 :> "o1" @@ b2 :> "o2"

\* A debug and a release build of one project write one path.
MCProfiles == {"debug", "release", "check"}
MCOwnKeys  == [f \in MCProfiles |-> f]
MCBothRun  == b1 :> {"debug"} @@ b2 :> {"release"}
MCShared   == b1 :> "o1" @@ b2 :> "o1"
MCNone     == {}
=============================================================================
