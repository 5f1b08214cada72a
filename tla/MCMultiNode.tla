---------------------------- MODULE MCMultiNode ----------------------------
(* Two pipelines, tasks of both and of an unknown one.                     *)
EXTENDS MultiNodeHistory, TLC

CONSTANTS a, b, ghost, a1, a2, b1, b2, stray, set1, set2, setB, bad,
          cNone, c1, c2

MCPipelines   == {a, b}
MCPipeOf      == (a1 :> a) @@ (a2 :> a) @@ (b1 :> b) @@ (b2 :> b) @@ (stray :> ghost)
MCTaskPipes   == [t \in Tasks |-> MCPipeOf[t]]
MCPipeUpdated == [u \in Updates |-> CASE u = bad -> ghost [] u = setB -> b [] OTHER -> a]
MCDirection   == [u \in Updates |-> "incoming"]
MCConfigs     == {cNone, c1, c2}
MCValue       == [u \in Updates |-> IF u = set1 THEN c1 ELSE c2]
\* The first call raises at its second entry, the second goes through.
MCWeightCalls == {<<[pipe |-> a, weight |-> 4], [pipe |-> b, weight |-> -1]>>,
                  <<[pipe |-> b, weight |-> NaN], [pipe |-> ghost, weight |-> 0]>>}
MCWeights     == {-1, 0, 4, NaN}
\* The clock may be stepped back while a task computes.
MCCosts       == {-1, 2}
=============================================================================
