--------------------------- MODULE MCMultiPipeline ---------------------------
(* Two pipelines share the chain.  From one round to the next, a changes its *)
(* rate on every link, so that mixed settings decode silently, and b changes *)
(* its method, so that they raise.                                           *)
EXTENDS MultiPipeline

CONSTANTS a, b, none, topk50, topk10, int8

MCConfigs  == {none, topk50, topk10, int8}
MCMethodOf == [c \in MCConfigs |->
                 CASE c = none -> "none"
                   [] c = int8 -> "llmint8"
                   [] OTHER    -> "topk"]

MCPipelines == {a, b}

MCRoundConfig == [r \in 1 .. R |-> [l \in MCPipelines \X (1 .. N - 1) |->
                    CASE r = 1               -> topk50
                      [] r > 1 /\ l[1] = a   -> topk10
                      [] OTHER               -> int8]]
=============================================================================
