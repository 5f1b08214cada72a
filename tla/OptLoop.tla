------------------------------ MODULE OptLoop ------------------------------
(***************************************************************************)
(* The optimisation experiment of opt_runner.py: for every compression     *)
(* scheme the sub-experiments in order -- profiling, surrogate models and  *)
(* optimiser runs -- and in an optimiser run the slot loop: probe, solve,  *)
(* push settings and weights, run the slot, feed the delays back.          *)
(*                                                                         *)
(* Numbers are abstracted to where they come from: a decision, an          *)
(* observation and a setting carry the stamp                               *)
(* <<start, scheme, sub-experiment, mu, slot>> of the moment they were     *)
(* made.  What a node does with a setting is MultiNode, what becomes of    *)
(* the tasks of a slot is MultiPipeline.  There is no --resume: a start    *)
(* runs everything again, except for what the artifacts spare it.          *)
(***************************************************************************)
EXTENDS Naturals, Sequences

CONSTANTS
    Nodes,
    NumPipelines,  \* pipelines, in the order of their names; all cross all nodes
    Schemes,       \* links[0].allowed_methods, as the codecs the mapper makes of them
    Subs,          \* sequence of the kinds of the sub-experiments
    NumMus,        \* length of mu_sweep
    NumSlots,
    Interval,      \* link_probe_interval_slots
    MaxStarts,     \* bound: starts of the orchestrator
    MaxFaults      \* bound: failures, restarts of nodes and zero shares

ASSUME SizesAssumption ==
    NumPipelines \in Nat /\ NumMus \in Nat \ {0} /\ NumSlots \in Nat \ {0} /\ Interval \in Nat \ {0}
ASSUME BoundsAssumption == MaxStarts \in Nat /\ MaxFaults \in Nat

Pipelines == 1 .. NumPipelines
Slots     == 0 .. NumSlots - 1
Full      == NumSlots   \* the slot number of profiling's settings: eta_max everywhere

EveryK    == {"csi_aware"}                     \* adapters that probe every slot
Direct    == {"csi_aware", "baseline"}         \* adapters that use the probed capacity
Estimated == {"estimated", "no_csi"}           \* adapters that use an estimator
Dual      == {"no_csi"}                        \* adapters with dual variables
Optimised == Direct \cup Estimated
Kinds     == Optimised \cup {"profiling", "accuracy_model"}

ASSUME SubsAssumption == Schemes \in Seq(STRING) /\ Subs \in Seq(Kinds)

None == <<>>   \* nothing yet: no settings, no artifact, no record

VARIABLES
    orch,        \* what the orchestrator is doing
    scheme, sub, mu, slot,  \* where it is
    starts, faults,
    profile,     \* memory: the events tau and a were computed from, or None
    models,      \* memory: schemes whose surrogate model is loaded
    timings,     \* metrics server: timing events of the profiling runs
    artifact,    \* disk: the profile of every scheme, or None
    pickle,      \* disk: the model of every codec: "none", "torn" or "whole"
    obs,         \* adapter: the observations the estimator holds
    capacity,    \* slot loop: stamp of the last probe
    heard,       \* adapter: slots whose delay the dual variable of a pipeline has seen
    decision,    \* what the step decided
    pending,     \* pushes that have not been answered
    config,      \* nodes: stamp of the settings of every pipeline
    weight,      \* nodes: stamp of the weights of every pipeline
    refused,     \* history: nodes that did not take all weights of this slot
    restarted,   \* history: nodes that restarted since the last pushes began
    record       \* history: the last slot that was recorded

place    == <<scheme, sub, mu, slot>>
memory   == <<profile, models>>
stored   == <<timings, artifact, pickle>>
adapter  == <<obs, heard>>
nodeVars == <<config, weight, restarted>>
vars == <<orch, place, starts, faults, memory, stored, adapter, capacity, decision, pending,
          nodeVars, refused, record>>

Kind  == Subs[sub]
Stamp == <<starts, scheme, sub, mu, slot>>

\* The settings profiling pushes.
FullStamp == <<starts, scheme, sub, mu, Full>>

SameRun(s, t) == SubSeq(s, 1, 4) = SubSeq(t, 1, 4)

\* The slots in which an adapter of this kind has the links probed.
Probes(kind, s) == kind \in EveryK \/ s % Interval = 0

Init ==
    /\ orch = "down"
    /\ scheme = 1 /\ sub = 1 /\ mu = 1 /\ slot = 0
    /\ starts = 0 /\ faults = 0
    /\ profile = None /\ models = {}
    /\ timings = [s \in DOMAIN Schemes |-> {}]
    /\ artifact = [s \in DOMAIN Schemes |-> None]
    /\ pickle = [s \in DOMAIN Schemes |-> "none"]
    /\ obs = {} /\ heard = [p \in Pipelines |-> {}]
    /\ capacity = None /\ decision = None /\ pending = {}
    /\ config = [n \in Nodes |-> [p \in Pipelines |-> None]]
    /\ weight = [n \in Nodes |-> [p \in Pipelines |-> None]]
    /\ refused = {} /\ restarted = {}
    /\ record = None

Fault == faults < MaxFaults /\ faults' = faults + 1

-----------------------------------------------------------------------------
(* The order of the sub-experiments.                                       *)

\* A process starts with empty memory; the nodes keep what they have.
Start ==
    /\ orch \in {"down", "finished"}
    /\ starts < MaxStarts
    /\ starts' = starts + 1
    /\ orch' = IF Schemes = <<>> \/ Subs = <<>> THEN "finished" ELSE "sub"
    /\ scheme' = 1 /\ sub' = 1 /\ mu' = 1 /\ slot' = 0
    /\ profile' = None /\ models' = {}
    /\ record' = None
    /\ UNCHANGED <<faults, stored, adapter, capacity, decision, pending, nodeVars, refused>>

\* Every mu of a sweep is a run of its own; then the next sub-experiment, the next scheme.
NextSub ==
    /\ slot' = 0
    /\ \/ Kind = "no_csi" /\ mu < NumMus /\ mu' = mu + 1
          /\ UNCHANGED <<scheme, sub>> /\ orch' = "sub"
       \/ ~(Kind = "no_csi" /\ mu < NumMus) /\ sub < Len(Subs) /\ sub' = sub + 1
          /\ scheme' = scheme /\ mu' = 1 /\ orch' = "sub"
       \/ ~(Kind = "no_csi" /\ mu < NumMus) /\ sub = Len(Subs) /\ scheme < Len(Schemes)
          /\ scheme' = scheme + 1 /\ sub' = 1 /\ mu' = 1 /\ orch' = "sub"
       \/ ~(Kind = "no_csi" /\ mu < NumMus) /\ sub = Len(Subs) /\ scheme = Len(Schemes)
          /\ UNCHANGED <<scheme, sub, mu>> /\ orch' = "finished"

\* An exception leaves run_opt_experiment, or the process is killed.  What it has
\* posted and not heard of may still be carried out.
Dies ==
    /\ orch' = "down"
    /\ pending' = {}
    /\ \E done \in SUBSET pending :
          /\ config' = [n \in Nodes |-> [p \in Pipelines |->
                          IF <<"config", n, p>> \in done THEN decision.stamp ELSE config[n][p]]]
          /\ weight' = [n \in Nodes |-> [p \in Pipelines |->
                          IF <<"weights", n>> \in done /\ p < decision.zero
                          THEN decision.stamp ELSE weight[n][p]]]
    /\ UNCHANGED <<place, starts, memory, stored, adapter, capacity, decision, refused, restarted,
                   record>>

Killed == orch \notin {"down", "finished"} /\ Fault /\ Dies

-----------------------------------------------------------------------------
(* Profiling and surrogate models.                                         *)

ConfigPushes  == {<<"config", n, p>> : n \in Nodes, p \in Pipelines}
WeightsPushes == {<<"weights", n>> : n \in Nodes}

\* Mistake: the cached profile is looked up by the name of the sub-experiment alone.
ReuseAnyProfile ==
    /\ orch = "sub" /\ Kind = "profiling"
    /\ \E s \in DOMAIN Schemes : artifact[s] # None /\ profile' = artifact[s]
    /\ NextSub
    /\ UNCHANGED <<starts, faults, models, stored, adapter, capacity, decision, pending, nodeVars,
                   refused, record>>

ReuseProfile ==
    /\ orch = "sub" /\ Kind = "profiling"
    /\ artifact[scheme] # None
    /\ profile' = artifact[scheme]
    /\ NextSub
    /\ UNCHANGED <<starts, faults, models, stored, adapter, capacity, decision, pending, nodeVars,
                   refused, record>>

PushFull ==
    /\ orch = "sub" /\ Kind = "profiling"
    /\ artifact[scheme] = None
    /\ orch' = "full"
    /\ decision' = [stamp |-> FullStamp, zero |-> 1, infeasible |-> FALSE]
    /\ pending' = ConfigPushes
    /\ restarted' = {}
    /\ UNCHANGED <<place, starts, faults, memory, stored, adapter, capacity, config, weight,
                   refused, record>>

\* The batches run and their timing events are flushed in time, or not.  The run id
\* has no random part: the events of an earlier attempt are found as well.
ProfilingRuns ==
    /\ orch = "full"
    /\ pending = {}
    /\ orch' = "query"
    /\ \/ /\ timings' = [timings EXCEPT ![scheme] = @ \cup
                {[scheme |-> scheme, clean |-> restarted = {},
                  settings |-> {config[n][p] : n \in Nodes, p \in Pipelines}]}]
          /\ UNCHANGED faults
       \/ Fault /\ UNCHANGED timings
    /\ UNCHANGED <<place, starts, memory, artifact, pickle, adapter, capacity, decision, pending,
                   nodeVars, refused, record>>

\* The events are queried and the artifact is written; a query that fails yields an
\* empty profile, which is written and from then on reused like any other.
WriteProfile ==
    /\ orch = "query"
    /\ \/ profile' = [events |-> timings[scheme]] /\ UNCHANGED faults
       \/ profile' = [events |-> {}] /\ Fault
    /\ artifact' = [artifact EXCEPT ![scheme] = profile']
    /\ NextSub
    /\ UNCHANGED <<starts, models, timings, pickle, adapter, capacity, decision, pending, nodeVars,
                   refused, record>>

\* Path of the model of a scheme: it names the codec, not the scheme.
SamePath(s) == {r \in DOMAIN Schemes : Schemes[r] = Schemes[s]}

\* The file exists: the sweep is skipped, even if the file cannot be loaded.
ReuseModel ==
    /\ orch = "sub" /\ Kind = "accuracy_model"
    /\ pickle[scheme] # "none"
    /\ models' = IF pickle[scheme] = "whole" THEN models \cup {scheme} ELSE models
    /\ NextSub
    /\ UNCHANGED <<starts, faults, profile, stored, adapter, capacity, decision, pending, nodeVars,
                   refused, record>>

TrainModel ==
    /\ orch = "sub" /\ Kind = "accuracy_model"
    /\ pickle[scheme] = "none"
    /\ pickle' = [s \in DOMAIN Schemes |-> IF s \in SamePath(scheme) THEN "whole" ELSE pickle[s]]
    /\ models' = models \cup {scheme}
    /\ NextSub
    /\ UNCHANGED <<starts, faults, profile, timings, artifact, adapter, capacity, decision, pending,
                   nodeVars, refused, record>>

\* No simulation, or every sample failed: no model, no file.
NoSamples ==
    /\ orch = "sub" /\ Kind = "accuracy_model"
    /\ pickle[scheme] = "none"
    /\ Fault
    /\ NextSub
    /\ UNCHANGED <<starts, memory, stored, adapter, capacity, decision, pending, nodeVars, refused,
                   record>>

\* The process dies while it writes the pickle.
TornPickle ==
    /\ orch = "sub" /\ Kind = "accuracy_model"
    /\ pickle[scheme] = "none"
    /\ Fault
    /\ pickle' = [s \in DOMAIN Schemes |-> IF s \in SamePath(scheme) THEN "torn" ELSE pickle[s]]
    /\ orch' = "down"
    /\ UNCHANGED <<place, starts, memory, timings, artifact, adapter, capacity, decision, pending,
                   nodeVars, refused, record>>

-----------------------------------------------------------------------------
(* The slot loop.                                                          *)

BeginRun ==
    /\ orch = "sub" /\ Kind \in Optimised
    /\ orch' = "probe"
    /\ obs' = {} /\ heard' = [p \in Pipelines |-> {}]
    /\ capacity' = None
    /\ UNCHANGED <<place, starts, faults, memory, stored, decision, pending, nodeVars, refused,
                   record>>

\* On a slot without a probe the last capacity is used again.
Probe ==
    /\ orch = "probe"
    /\ orch' = "step"
    /\ capacity' = IF Probes(Kind, slot) THEN Stamp ELSE capacity
    /\ UNCHANGED <<place, starts, faults, memory, stored, adapter, decision, pending, nodeVars,
                   refused, record>>

\* Pipelines from number zero on are not reached by a push of weights: the node
\* rejects the first share that is zero and keeps those before it.
Decided(zero, infeasible, seen) ==
    [stamp |-> Stamp, zero |-> zero, infeasible |-> infeasible,
     estimate |-> IF Kind \in Estimated THEN seen ELSE {},
     capacity |-> IF Kind \in Direct THEN capacity ELSE None,
     heard |-> IF Kind \in Dual THEN heard ELSE [p \in Pipelines |-> {}],
     profile |-> profile, model |-> scheme \in models, pickle |-> pickle[scheme]]

Folded == IF Probes(Kind, slot) THEN obs \cup {capacity} ELSE obs

\* Mistake: the probe is folded into the estimator before the optimiser steps.
StepAfterObserving ==
    /\ orch = "step"
    /\ orch' = "pushing"
    /\ decision' = Decided(NumPipelines + 1, FALSE, Folded)
    /\ obs' = IF Kind \in Estimated THEN Folded ELSE obs
    /\ pending' = ConfigPushes \cup WeightsPushes
    /\ refused' = {} /\ restarted' = {}
    /\ UNCHANGED <<place, starts, faults, memory, stored, heard, capacity, config, weight, record>>

\* The optimiser solves against the estimate, or the capacity; then the probe is
\* folded into the estimator; then all settings and weights are pushed at once.  If
\* there is no solution, the settings are eta_max and no weights are pushed.
Step ==
    /\ orch = "step"
    /\ orch' = "pushing"
    /\ \/ /\ decision' = Decided(NumPipelines + 1, FALSE, obs)
          /\ pending' = ConfigPushes \cup WeightsPushes
          /\ UNCHANGED faults
       \/ /\ \E p \in Pipelines : decision' = Decided(p, FALSE, obs)
          /\ pending' = ConfigPushes \cup WeightsPushes
          /\ Fault
       \/ /\ decision' = Decided(1, TRUE, obs)
          /\ pending' = ConfigPushes
          /\ UNCHANGED faults
    /\ obs' = IF Kind \in Estimated THEN Folded ELSE obs
    /\ refused' = {} /\ restarted' = {}
    /\ UNCHANGED <<place, starts, memory, stored, heard, capacity, config, weight, record>>

ConfigAnswered(n, p) ==
    /\ orch \in {"full", "pushing"}
    /\ <<"config", n, p>> \in pending
    /\ pending' = pending \ {<<"config", n, p>>}
    /\ config' = [config EXCEPT ![n][p] = decision.stamp]
    /\ UNCHANGED <<orch, place, starts, faults, memory, stored, adapter, capacity, decision, weight,
                   restarted, refused, record>>

\* A push of settings that fails ends the experiment.
ConfigFails ==
    /\ orch \in {"full", "pushing"}
    /\ \E n \in Nodes, p \in Pipelines : <<"config", n, p>> \in pending
    /\ Fault
    /\ Dies

WeightsAnswered(n) ==
    /\ orch = "pushing"
    /\ <<"weights", n>> \in pending
    /\ pending' = pending \ {<<"weights", n>>}
    /\ weight' = [weight EXCEPT ![n] = [p \in Pipelines |->
                     IF p < decision.zero THEN decision.stamp ELSE @[p]]]
    /\ refused' = IF decision.zero \in Pipelines THEN refused \cup {n} ELSE refused
    /\ UNCHANGED <<orch, place, starts, faults, memory, stored, adapter, capacity, decision, config,
                   restarted, record>>

\* A push of weights that fails is logged; the node may have taken them all the same.
WeightsFail(n) ==
    /\ orch = "pushing"
    /\ <<"weights", n>> \in pending
    /\ Fault
    /\ pending' = pending \ {<<"weights", n>>}
    /\ \/ UNCHANGED weight
       \/ weight' = [weight EXCEPT ![n] = [p \in Pipelines |->
                        IF p < decision.zero THEN decision.stamp ELSE @[p]]]
    /\ refused' = refused \cup {n}
    /\ UNCHANGED <<orch, place, starts, memory, stored, adapter, capacity, decision, config,
                   restarted, record>>

\* Mistake: the slot starts when the settings are there, whatever the weights do.
RunSlotWithoutWeights ==
    /\ orch = "pushing"
    /\ pending \cap ConfigPushes = {}
    /\ orch' = "running"
    /\ UNCHANGED <<place, starts, faults, memory, stored, adapter, capacity, decision, pending,
                   nodeVars, refused, record>>

RunSlot ==
    /\ orch = "pushing"
    /\ pending = {}
    /\ orch' = "running"
    /\ UNCHANGED <<place, starts, faults, memory, stored, adapter, capacity, decision, pending,
                   nodeVars, refused, record>>

\* The tasks are over.  The pipelines in got had results; the delay of one that had
\* none is not reported to the dual variables.
EndSlot ==
    /\ orch = "running"
    /\ record' = [decided |-> decision, kind |-> Kind, scheme |-> scheme, config |-> config,
                  weight |-> weight, refused |-> refused, restarted |-> restarted]
    /\ \E got \in SUBSET Pipelines :
          heard' = [p \in Pipelines |->
                      IF Kind \in Dual /\ p \in got THEN heard[p] \cup {Stamp} ELSE heard[p]]
    /\ \/ /\ slot + 1 < NumSlots
          /\ slot' = slot + 1
          /\ orch' = "probe"
          /\ UNCHANGED <<scheme, sub, mu>>
       \/ slot + 1 = NumSlots /\ NextSub
    /\ UNCHANGED <<starts, faults, memory, stored, obs, capacity, decision, pending, nodeVars,
                   refused>>

\* A node's container restarts: defaults and uniform weights.
NodeRestarts(n) ==
    /\ Fault
    /\ config' = [config EXCEPT ![n] = [p \in Pipelines |-> None]]
    /\ weight' = [weight EXCEPT ![n] = [p \in Pipelines |-> None]]
    /\ restarted' = restarted \cup {n}
    /\ UNCHANGED <<orch, place, starts, memory, stored, adapter, capacity, decision, pending,
                   refused, record>>

-----------------------------------------------------------------------------

Profiling == ReuseProfile \/ PushFull \/ ProfilingRuns \/ WriteProfile
Modelling == ReuseModel \/ TrainModel \/ NoSamples \/ TornPickle
SlotLoop  == BeginRun \/ Probe \/ Step \/ RunSlot \/ EndSlot
Pushing   == ConfigFails \/ \E n \in Nodes :
                 WeightsAnswered(n) \/ WeightsFail(n) \/ \E p \in Pipelines : ConfigAnswered(n, p)

Next == Start \/ Killed \/ Profiling \/ Modelling \/ SlotLoop \/ Pushing
          \/ \E n \in Nodes : NodeRestarts(n)

Spec == Init /\ [][Next]_vars

-----------------------------------------------------------------------------
(* Properties, of every slot that is recorded.                             *)

\* What a decision may know.  An estimator holds exactly the probes of the earlier
\* probe slots of its own run, never the current one and never another run's; a
\* direct adapter steps on the last probe up to now; a dual variable has seen delays
\* of earlier slots of its own run only (opt_runner.py:1262-1280, docs/optimizer.md:19).
DecisionsAreCausal ==
    record # None =>
        LET now     == record.decided.stamp
            At(s)   == [now EXCEPT ![5] = s]
            Earlier == {s \in Slots : s < now[5]}
        IN  /\ record.kind \in Estimated =>
                  record.decided.estimate = {At(s) : s \in {x \in Earlier : Probes(record.kind, x)}}
            /\ record.kind \in Direct =>
                  \E s \in Earlier \cup {now[5]} :
                     /\ Probes(record.kind, s) /\ record.decided.capacity = At(s)
                     /\ \A x \in s + 1 .. now[5] : ~Probes(record.kind, x)
            /\ \A p \in Pipelines : record.decided.heard[p] \subseteq {At(s) : s \in Earlier}

\* A recorded slot ran under its own decision: every node that did not restart has the
\* settings of this slot for every pipeline, although others were left behind by dead
\* starts, other schemes and other slots; and it has this slot's weights, or none of
\* them was sent, or it did not take them all (opt_runner.py:1284-1293).
SlotsRunAsDecided ==
    record # None =>
        \A n \in Nodes \ record.restarted, p \in Pipelines :
            /\ record.config[n][p] = record.decided.stamp
            /\ \/ record.weight[n][p] = record.decided.stamp
               \/ record.decided.infeasible
               \/ n \in record.refused

\* What a decision is computed from belongs to its scheme, through crashes, repeated
\* profiling and cached files: the timings of its delay model were measured under
\* the eta_max settings of one profiling of this scheme, unless a node restarted
\* meanwhile; and once the sub-experiment that trains it is over, the surrogate is used
\* exactly if its file is whole (opt_runner.py:491, :787, :1041).
ModelsMatchScheme ==
    record # None =>
        /\ record.decided.profile # None =>
              \A e \in record.decided.profile.events :
                  /\ e.scheme = record.scheme
                  /\ e.clean => \A s, t \in e.settings :
                                   s = t /\ s[2] = record.scheme /\ s[5] = Full
        /\ (\E i \in 1 .. record.decided.stamp[3] : Subs[i] = "accuracy_model") =>
              (record.decided.model <=> record.decided.pickle = "whole")
=============================================================================
