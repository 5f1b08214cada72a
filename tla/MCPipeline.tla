----------------------------- MODULE MCPipeline -----------------------------
(* Settings are <<method, rate>>.  The runs of the sweep differ in the rate *)
(* on one link and in the method on the other, so mixed settings decode     *)
(* silently on the one and raise on the other.                              *)
EXTENDS PipelineNodes

CONSTANTS none, topk50, topk10, int8

MCConfigs  == {none, topk50, topk10, int8}
MCMethodOf == [c \in MCConfigs |->
                 CASE c = none -> "none"
                   [] c = int8 -> "llmint8"
                   [] OTHER    -> "topk"]

\* run r, link l
MCRunConfig == [r \in 1 .. R |-> [l \in 1 .. N - 1 |->
                  CASE r = 1          -> topk50
                    [] r > 1 /\ l = 1 -> topk10
                    [] OTHER          -> int8]]

\* Generated experiments have no links at the top: a node starts with "none".
MCDefault == [l \in 1 .. N - 1 |-> none]
=============================================================================
