-------------------------------- MODULE Sweep --------------------------------
(***************************************************************************)
(* What an experiment promises its reader: the runs of the sweep are       *)
(* measured one after the other, a result is recorded only while its run   *)
(* is the current one, at most once per batch, and every result of a run   *)
(* was measured with that run's compression on both ends of every link.    *)
(* Pipeline and MultiPipeline implement this specification.                *)
(***************************************************************************)
EXTENDS Naturals

CONSTANTS
    Runs,       \* 1 .. the number of runs the sweep resolved to
    Batches,    \* the batches of the dataset
    Settings    \* what each run is meant to measure for each batch

VARIABLES
    phase,      \* "pushing" the settings, "running", "done" or "aborted"
    run,        \* the current run
    results     \* the records: run, batch and what both ends of each link used

vars == <<phase, run, results>>

Init ==
    /\ phase = "pushing"
    /\ run = 1
    /\ results = {}

Start ==
    /\ phase = "pushing"
    /\ phase' = "running"
    /\ UNCHANGED <<run, results>>

Abort ==
    /\ phase = "pushing"
    /\ phase' = "aborted"
    /\ UNCHANGED <<run, results>>

Record(b) ==
    /\ phase = "running"
    /\ \A x \in results : <<x.run, x.batch>> # <<run, b>>
    /\ results' = results \cup
          {[run |-> run, batch |-> b,
            compressed |-> Settings[run][b], decompressed |-> Settings[run][b]]}
    /\ UNCHANGED <<phase, run>>

FinishRun ==
    /\ phase = "running"
    /\ IF run + 1 \in Runs
          THEN phase' = "pushing" /\ run' = run + 1
          ELSE phase' = "done" /\ run' = run
    /\ UNCHANGED results

Next == Start \/ Abort \/ FinishRun \/ \E b \in Batches : Record(b)

Spec == Init /\ [][Next]_vars
=============================================================================
