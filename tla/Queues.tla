------------------------------- MODULE Queues -------------------------------
(***************************************************************************)
(* What the proofs say of sequences whose elements have identities: the    *)
(* buffers of the emitter, and the logs in which the nodes' histories      *)
(* record what was accepted and served.                                    *)
(***************************************************************************)
EXTENDS Naturals, Sequences

Distinct(s) == \A i, j \in 1 .. Len(s) : s[i] = s[j] => i = j

Holds(s, x) == \E i \in 1 .. Len(s) : s[i] = x
=============================================================================
