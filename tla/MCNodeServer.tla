--------------------------- MODULE MCNodeServer ---------------------------
(* Two requests and three updates: two for the same direction (a sweep     *)
(* that was aborted and started again leaves a second handler waiting) and *)
(* one with a direction the node does not know.                            *)
EXTENDS NodeServerHistory, TLC

CONSTANTS r1, r2, u1, u2, bad, c0, c1, c2

MCRequests  == {r1, r2}
MCUpdates   == {u1, u2, bad}
MCConfigs   == {c0, c1, c2}
MCDirection == (u1 :> "incoming") @@ (u2 :> "incoming") @@ (bad :> "sideways")
MCValue     == (u1 :> c1) @@ (u2 :> c2) @@ (bad :> c1)
MCDefault   == [d \in Directions |-> c0]
===========================================================================
