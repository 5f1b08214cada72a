------------------------------ MODULE Campaign ------------------------------
(***************************************************************************)
(* A whole experiment over several starts of the orchestrator: runner.py   *)
(* or multi_runner.py with the readiness polling, the --resume check       *)
(* against the metrics server, the events on their way to it, and the      *)
(* crashes after which the orchestrator is started again.  (opt_runner.py  *)
(* has no --resume: see OptLoop.)                                          *)
(*                                                                         *)
(* Runs are numbered over all sub-experiments; what one run does with the  *)
(* nodes is Pipeline and MultiPipeline, what becomes of one event in the   *)
(* emitter is MetricsEmitter.  An event is <<run, batch>>; batch 0 is the  *)
(* run_throughput event that multi-model runs emit when they are over.     *)
(***************************************************************************)
EXTENDS Naturals, Sequences

CONSTANTS
    Kinds,       \* which runners are looked at
    NumRuns,     \* runs of all sub-experiments, in order
    Firsts,      \* the first runs of the sub-experiments
    NumBatches,  \* batches of a run
    Ids,         \* run identifiers
    Stored,      \* sets of ids that other experiments may have stored
    Nodes,       \* the nodes of the experiment
    MaxRetries,  \* attempts at posting an event
    MaxStarts,   \* bound: how often the orchestrator is started
    MaxFaults    \* bound: failed queries, failed POSTs, nodes that restart

ASSUME KindsAssumption  == Kinds \subseteq {"single", "multi"}
ASSUME StoredAssumption == Stored \subseteq SUBSET Ids
ASSUME BoundsAssumption == NumRuns \in Nat \ {0} /\ NumBatches \in Nat
                             /\ MaxRetries \in Nat \ {0}
                             /\ MaxStarts \in Nat /\ MaxFaults \in Nat

Runs    == 1 .. NumRuns
Batches == 1 .. NumBatches
Events  == Runs \X (0 .. NumBatches)

VARIABLES
    kind,     \* which runner the orchestrator container runs, always with --resume
    id,       \* run id of every run
    foreign,  \* ids stored by experiments whose name contains this one's
    orch,     \* where the orchestrator is
    run,      \* the run it is at
    pending,  \* nodes that have not answered GET /health
    todo,     \* batches of the run that are not over
    buffer,   \* events the emitter holds, oldest first
    tries,    \* attempts at the oldest of them that failed
    late,     \* POSTs of an event nobody waits for any more: its sender has posted
              \* again, dropped the event or died
    log,      \* how often an event is in the files
    up,       \* nodes that answer
    starts,   \* starts so far
    blind,    \* completion checks that could not ask the metrics server
    stray,    \* history: how many of these an event has got into the files by
    faults,   \* faults so far
    skipped,  \* history: runs skipped since the last start
    ended     \* history: runs that some start carried through to their end

orchVars    == <<orch, run, pending, todo>>
eventVars   == <<buffer, tries, late, log, stray>>
historyVars == <<skipped, ended>>
given    == <<kind, id, foreign>>
vars == <<given, orchVars, eventVars, up, starts, blind, faults, historyVars>>

States == {"down", "waiting", "checking", "pushing", "running", "stopping", "finished"}
Alive  == {"waiting", "checking", "pushing", "running", "stopping"}

TypeOK ==
    /\ kind \in Kinds
    /\ id \in [Runs -> Ids]
    /\ foreign \in Stored
    /\ orch \in States
    /\ run \in 1 .. NumRuns + 1
    /\ pending \in SUBSET Nodes
    /\ todo \in SUBSET Batches
    /\ buffer \in Seq(Events)
    /\ tries \in 0 .. MaxRetries - 1
    /\ late \in [Events -> Nat]
    /\ log \in [Events -> Nat]
    /\ stray \in [Events -> Nat]
    /\ up \in SUBSET Nodes
    /\ starts \in Nat /\ blind \in Nat /\ faults \in Nat
    /\ skipped \in SUBSET Runs
    /\ ended \in SUBSET Runs

Init ==
    /\ kind \in Kinds
    /\ id \in [Runs -> Ids]
    /\ foreign \in Stored
    /\ orch = "down"
    /\ run = 1
    /\ pending = {}
    /\ todo = {}
    /\ buffer = <<>>
    /\ tries = 0
    /\ late = [e \in Events |-> 0]
    /\ log = [e \in Events |-> 0]
    /\ stray = [e \in Events |-> 0]
    /\ up \in SUBSET Nodes
    /\ starts = 0 /\ blind = 0 /\ faults = 0
    /\ skipped = {} /\ ended = {}

Fault == faults < MaxFaults /\ faults' = faults + 1

-----------------------------------------------------------------------------
(* The orchestrator.                                                       *)

\* The event type whose presence makes a run count as completed.
IsMarker(e) == IF kind = "single" THEN e[2] > 0 ELSE e[2] = 0

\* The container is started, for the first time or again.
Start ==
    /\ orch \in {"down", "finished"}
    /\ starts < MaxStarts
    /\ starts' = starts + 1
    /\ orch' = "waiting"
    /\ run' = 1
    /\ pending' = Nodes
    /\ todo' = {}
    /\ skipped' = {}
    /\ UNCHANGED <<given, eventVars, up, blind, faults, ended>>

\* A poll round asks a pending node; one that has answered is not asked again.
NodeAnswers(n) ==
    /\ orch = "waiting"
    /\ n \in pending \cap up
    /\ pending' = pending \ {n}
    /\ UNCHANGED <<given, orch, run, todo, eventVars, up, starts, blind, faults, historyVars>>

NodesReady ==
    /\ orch = "waiting"
    /\ pending = {}
    /\ orch' = "checking"
    /\ UNCHANGED <<given, run, pending, todo, eventVars, up, starts, blind, faults, historyVars>>

\* GET /metrics/query with the run id and the type of the marker, limit 1; it reads
\* every experiment whose name contains this one's.
Completed(r) ==
    \/ id[r] \in foreign
    \/ \E e \in Events : log[e] > 0 /\ id[e[1]] = id[r] /\ IsMarker(e)

\* On to the next run; a new sub-experiment polls the nodes before its runs.
NextRun ==
    /\ run' = run + 1
    /\ \/ run = NumRuns /\ orch' = "stopping"
       \/ run < NumRuns /\ orch' = IF run + 1 \in Firsts THEN "waiting" ELSE "checking"
    /\ pending' = Nodes

\* Mistake: any event of the run makes it complete.
SkipAnyEvent ==
    /\ orch = "checking"
    /\ \E e \in Events : log[e] > 0 /\ id[e[1]] = id[run]
    /\ NextRun
    /\ skipped' = skipped \cup {run}
    /\ UNCHANGED <<given, todo, eventVars, up, starts, blind, faults, ended>>

Skip ==
    /\ orch = "checking"
    /\ Completed(run)
    /\ NextRun
    /\ skipped' = skipped \cup {run}
    /\ UNCHANGED <<given, todo, eventVars, up, starts, blind, faults, ended>>

\* Mistake: the run is executed whatever the answer is.
ExecuteAnyway ==
    /\ orch = "checking"
    /\ orch' = "pushing"
    /\ UNCHANGED <<given, run, pending, todo, eventVars, up, starts, blind, faults, historyVars>>

Execute ==
    /\ orch = "checking"
    /\ ~Completed(run)
    /\ orch' = "pushing"
    /\ UNCHANGED <<given, run, pending, todo, eventVars, up, starts, blind, faults, historyVars>>

\* The query raised: the run counts as not completed.
ExecuteBlindly ==
    /\ orch = "checking"
    /\ Fault
    /\ blind' = blind + 1
    /\ orch' = "pushing"
    /\ UNCHANGED <<given, run, pending, todo, eventVars, up, starts, historyVars>>

\* Every end of every link of the run answered 200.
Push ==
    /\ orch = "pushing"
    /\ up = Nodes
    /\ orch' = "running"
    /\ todo' = Batches
    /\ UNCHANGED <<given, run, pending, eventVars, up, starts, blind, faults, historyVars>>

\* The result of a batch arrived and its events were emitted.
BatchRecorded(b) ==
    /\ orch = "running"
    /\ b \in todo
    /\ todo' = todo \ {b}
    /\ buffer' = Append(buffer, <<run, b>>)
    /\ UNCHANGED <<given, orch, run, pending, tries, late, log, stray, up, starts, blind,
                   faults, historyVars>>

\* The batch was given up after result_timeout_s or an exception.
BatchGivenUp(b) ==
    /\ orch = "running"
    /\ b \in todo
    /\ todo' = todo \ {b}
    /\ UNCHANGED <<given, orch, run, pending, eventVars, up, starts, blind, faults, historyVars>>

FinishRun ==
    /\ orch = "running"
    /\ todo = {}
    /\ buffer' = IF kind = "single" THEN buffer ELSE Append(buffer, <<run, 0>>)
    /\ NextRun
    /\ ended' = ended \cup {run}
    /\ UNCHANGED <<given, todo, tries, late, log, stray, up, starts, blind, faults, skipped>>

\* emitter.stop() has flushed the buffer (or given up on it).
Finish ==
    /\ orch = "stopping"
    /\ buffer = <<>>
    /\ orch' = "finished"
    /\ UNCHANGED <<given, run, pending, todo, eventVars, up, starts, blind, faults, historyVars>>

\* The POST of the oldest event outlives the interest of its sender.
Outlives == buffer # <<>> /\ late' = [late EXCEPT ![Head(buffer)] = @ + 1]

\* The process dies: killed, or an exception of the readiness poll or of a push
\* leaves the session block, which skips emitter.stop().
Dies ==
    /\ orch' = "down"
    /\ buffer' = <<>>
    /\ tries' = 0
    /\ late' = late \/ Outlives
    /\ UNCHANGED <<given, run, pending, todo, log, stray, up, starts, blind, faults, historyVars>>

\* Mistake: nodes that do not answer in time are asked for ever.
ReadyNeverTimesOut == FALSE

Killed == orch \in Alive /\ Dies

\* READY_TIMEOUT_S is over.
ReadyTimeout == orch = "waiting" /\ pending # {} /\ Dies

PushFails == orch = "pushing" /\ up # Nodes /\ Dies

-----------------------------------------------------------------------------
(* The metrics server, the emitter's worker, and the nodes.                *)

\* The POST of the oldest event is answered: the event is in the files.
Deliver ==
    /\ buffer # <<>>
    /\ log' = [log EXCEPT ![Head(buffer)] = @ + 1]
    /\ buffer' = Tail(buffer)
    /\ tries' = 0
    /\ UNCHANGED <<given, orchVars, late, stray, up, starts, blind, faults, historyVars>>

\* The POST is refused, answered with an error or not answered in time.  Unless it was
\* refused, what it carries may be stored all the same, now or later.
Unanswered ==
    /\ buffer # <<>>
    /\ Fault
    /\ late' = late \/ Outlives
    /\ UNCHANGED <<given, orchVars, log, stray, up, starts, blind, historyVars>>

PostAgain ==
    /\ Unanswered
    /\ tries + 1 < MaxRetries
    /\ tries' = tries + 1
    /\ UNCHANGED buffer

\* The event is dropped after max_retries attempts, or by stop(), which cancels the
\* worker with what it holds.
DropEvent ==
    /\ Unanswered
    /\ tries + 1 = MaxRetries \/ orch = "stopping"
    /\ tries' = 0
    /\ buffer' = Tail(buffer)

LateArrives(e) ==
    /\ late[e] > 0
    /\ late' = [late EXCEPT ![e] = @ - 1]
    /\ log' = [log EXCEPT ![e] = @ + 1]
    /\ stray' = [stray EXCEPT ![e] = @ + 1]
    /\ UNCHANGED <<given, orchVars, buffer, tries, up, starts, blind, faults, historyVars>>

NodeGoes(n) ==
    /\ n \in up
    /\ Fault
    /\ up' = up \ {n}
    /\ UNCHANGED <<given, orchVars, eventVars, starts, blind, historyVars>>

\* restart: unless-stopped
NodeComes(n) ==
    /\ n \in Nodes \ up
    /\ up' = up \cup {n}
    /\ UNCHANGED <<given, orchVars, eventVars, starts, blind, faults, historyVars>>

-----------------------------------------------------------------------------

BatchOver == \E b \in Batches : BatchRecorded(b) \/ BatchGivenUp(b)
Checking  == Skip \/ Execute \/ ExecuteBlindly

Next ==
    \/ Start \/ NodesReady \/ Checking \/ Push \/ BatchOver \/ FinishRun \/ Finish
    \/ Killed \/ ReadyTimeout \/ PushFails
    \/ Deliver \/ PostAgain \/ DropEvent \/ \E e \in Events : LateArrives(e)
    \/ \E n \in Nodes : NodeAnswers(n) \/ NodeGoes(n) \/ NodeComes(n)

Spec == Init /\ [][Next]_vars

\* Every await of the orchestrator has a timeout, the POSTs of the worker too;
\* a node may stay down for ever.  Starting the orchestrator again is
\* left to its operator: the Job has backoffLimit 0, the service no restart policy.
Fairness ==
    /\ WF_vars(NodesReady \/ ReadyTimeout) /\ WF_vars(Checking) /\ WF_vars(Push \/ PushFails)
    /\ WF_vars(BatchOver) /\ WF_vars(FinishRun) /\ WF_vars(Finish)
    /\ WF_vars(Deliver \/ PostAgain \/ DropEvent)
    /\ \A n \in Nodes : WF_vars(NodeAnswers(n))

FairSpec == Spec /\ Fairness

-----------------------------------------------------------------------------
(* Properties.                                                             *)

\* What a skip is worth.  Unless another experiment has stored the id, a multi-model
\* run is skipped only if a run with its id was carried through to its end by this
\* or an earlier start -- crashes, dropped and late events included -- because its
\* marker is emitted last; a single-model run only if a result with its id is
\* stored; and an experiment that reaches its end has executed or skipped every run
\* (runner.py:230, multi_runner.py:263).
SkipsAreEarned ==
    /\ \A r \in skipped : id[r] \notin foreign =>
          IF kind = "multi"
          THEN \E q \in ended : id[q] = id[r]
          ELSE \E e \in Events : log[e] > 0 /\ e[2] > 0 /\ id[e[1]] = id[r]
    /\ orch = "finished" => Runs \subseteq ended \cup skipped

\* Runs are repeated and POSTs are posted again, so an event can be stored more than
\* once.  Its copies beyond those that came by POSTs their sender had stopped waiting
\* for -- to post again, to drop the event, or because it died -- are accounted for: of
\* a single-model result there is one, and one more for every check that could not ask;
\* of any other event at most one per start (runner.py:230, emitter.py:126).
RepeatsAccountedFor ==
    \A e \in Events :
        log[e] <= stray[e] + (IF kind = "single" THEN 1 + blind ELSE starts)

\* Every start comes to an end, whatever the nodes and the metrics server do.
StartsEnd == orch \in Alive ~> orch \in {"finished", "down"}

\* docs/config.md:444: run ids "uniquely identify a run within an experiment", so the
\* first start, which has nothing to resume, drops no run (docs/orchestrator.md:72:
\* "the flag never causes a run to be silently dropped").
NeverSilentlyDropped == starts = 1 /\ orch = "finished" => ended = Runs
=============================================================================
