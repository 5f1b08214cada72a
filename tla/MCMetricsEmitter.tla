-------------------------- MODULE MCMetricsEmitter --------------------------
(* As many events as fill the buffer and overflow it, or as fill a batch    *)
(* and half of another.                                                     *)
EXTENDS MetricsEmitter

MCEvents == 1 .. 4
=============================================================================
