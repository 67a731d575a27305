---------------------------- MODULE MCPkgProject ----------------------------
(* A package x whose repository is called raw, and a library y it needs in *)
(* version 2, which needs raw in turn.  The second version of y has the    *)
(* tag v2, and its default branch moves from the first to the second.      *)
(* Both versions of y have a build.pengu: that of the first writes where   *)
(* the hash looks, that of the second in lib or build only.                *)
EXTENDS PkgProject, TLC

MCNames    == {"raw", "x", "y"}
MCVersions == {"1", "2", "v2"}

\* X-half is what is left of an X of which only pengu.toml is not deleted,
\* Y1-built and Y2-built are what the build.pengu of Y1 and Y2 leaves.
MCTrees == {"X", "X-half", "Y1", "Y1-built", "Y2", "Y2-built"}

MCSpecs == {"x", "y^2", "y"}

MCFetched ==
  "x" :> {"X"} @@ "y^2" :> {"Y2"} @@ "y" :> {"Y1", "Y2"}

MCTold == [s \in MCSpecs |-> IF s = "y^2" THEN "v2" ELSE None]

MCAccepts ==
  "x" :> MCVersions @@ "y^2" :> {"2", "v2"} @@ "y" :> MCVersions

MCVersion ==
  [t \in MCTrees |-> IF t \in {"Y2", "Y2-built"} THEN "2" ELSE "1"]

One(n, s) == <<[name |-> n, spec |-> s]>>

MCNeeds ==
  [t \in MCTrees |-> CASE t \in {"X", "X-half"}    -> One("y", "y^2")
                      [] t \in {"Y1", "Y1-built"} -> <<>>
                      [] t \in {"Y2", "Y2-built"} -> One("raw", "x")]

MCImport == [t \in MCTrees |-> IF t \in {"X", "X-half"} THEN "x" ELSE None]

MCRemains == [t \in MCTrees |-> IF t = "X" THEN {"X-half"} ELSE {None}]

MCBuilds ==
  [t \in MCTrees |-> CASE t = "Y1" -> {"Y1-built"}
                      [] t = "Y2" -> {"Y2-built"}
                      [] OTHER    -> {}]

MCHash == [t \in MCTrees |-> IF t = "Y2-built" THEN "Y2" ELSE t]

Offer(n, s, explicit, rebuild) ==
  [name |-> n, spec |-> s, explicit |-> explicit, rebuild |-> rebuild]

MCOffers == {Offer("raw", "x", FALSE, FALSE), Offer("y", "y", TRUE, TRUE)}

MCFailures == {"fetch", "move", "script", "manifest", "lock"}
=============================================================================
