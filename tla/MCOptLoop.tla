----------------------------- MODULE MCOptLoop -----------------------------
(* Two schemes, the second being llmint8 without a mapping, which becomes   *)
(* topk; each is profiled and then used by two kinds of adapter.           *)
EXTENDS OptLoop

CONSTANT n1

MCSchemes == <<"topk", "topk">>
MCSubs    == <<"profiling", "accuracy_model", "no_csi", "csi_aware">>
=============================================================================
