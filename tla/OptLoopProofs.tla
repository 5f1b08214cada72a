--------------------------- MODULE OptLoopProofs ---------------------------
(***************************************************************************)
(* Three results about every recorded slot of the optimisation loop, for   *)
(* any nodes, pipelines, schemes, sub-experiments, probe interval, starts  *)
(* and faults: it ran under its own decision (Spec => []SlotsRunAsDecided),*)
(* the decision knew only the past (Spec => []DecisionsAreCausal), and     *)
(* what it was computed from belongs to its scheme (ModelsMatchScheme, if  *)
(* the sub-experiments are in the order the specification asks for).       *)
(***************************************************************************)
EXTENDS OptLoop, TLAPS

InRun      == orch \in {"probe", "step", "pushing", "running"}
HasDecided == orch \in {"pushing", "running"}

\* The stamp of slot s of the run the loop is in.
At(s) == <<starts, scheme, sub, mu, s>>

-----------------------------------------------------------------------------
(* Part one: what the nodes have.                                          *)

ShapeInv ==
    /\ orch \in {"down", "sub", "full", "query", "probe", "step", "pushing", "running", "finished"}
    /\ DOMAIN config = Nodes /\ \A n \in Nodes : DOMAIN config[n] = Pipelines
    /\ DOMAIN weight = Nodes /\ \A n \in Nodes : DOMAIN weight[n] = Pipelines

\* What a node has not been told yet is still pending.
PushInv ==
    HasDecided =>
        /\ decision.zero \in 1 .. NumPipelines + 1
        /\ \A n \in Nodes \ restarted, p \in Pipelines :
              /\ <<"config", n, p>> \in pending \/ config[n][p] = decision.stamp
              /\ \/ <<"weights", n>> \in pending
                 \/ weight[n][p] = decision.stamp
                 \/ decision.infeasible
                 \/ n \in refused
        /\ orch = "running" => pending = {}

NodesInv == ShapeInv /\ PushInv /\ SlotsRunAsDecided

LEMMA NodesInvInit == Init => NodesInv
BY DEF Init, NodesInv, ShapeInv, PushInv, HasDecided, SlotsRunAsDecided

\* Steps outside the pushes: the nodes and the record stay, no slot is under way.
LEMMA OutsideStep ==
    ASSUME NodesInv, UNCHANGED <<config, weight>>, record' = record \/ record' = None,
           orch' \in {"down", "sub", "full", "query", "probe", "step", "finished"}
    PROVE  NodesInv'
BY DEF NodesInv, ShapeInv, PushInv, HasDecided, SlotsRunAsDecided, None

LEMMA NextSubOrch == NextSub => orch' \in {"sub", "finished"}
BY DEF NextSub

LEMMA DiesNodes == ASSUME NodesInv, Dies PROVE NodesInv'
<1>1. orch' = "down" /\ record' = record
  BY DEF Dies
<1>2. /\ DOMAIN config' = Nodes /\ \A n \in Nodes : DOMAIN config'[n] = Pipelines
      /\ DOMAIN weight' = Nodes /\ \A n \in Nodes : DOMAIN weight'[n] = Pipelines
  BY DEF Dies
<1>3. QED
  BY <1>1, <1>2 DEF NodesInv, ShapeInv, PushInv, HasDecided, SlotsRunAsDecided

LEMMA StepNodes == ASSUME NodesInv, Step PROVE NodesInv'
<1>1. orch' = "pushing" /\ UNCHANGED <<config, weight, record>>
  BY DEF Step
<1>2. /\ ConfigPushes \subseteq pending'
      /\ WeightsPushes \subseteq pending' \/ decision'.infeasible
      /\ decision'.zero \in 1 .. NumPipelines + 1
  BY SizesAssumption DEF Step, Decided, Pipelines
<1>3. PushInv'
  BY <1>1, <1>2 DEF PushInv, HasDecided, ConfigPushes, WeightsPushes
<1>4. QED
  BY <1>1, <1>3 DEF NodesInv, ShapeInv, SlotsRunAsDecided

LEMMA ConfigAnsweredNodes ==
    ASSUME NodesInv, NEW n \in Nodes, NEW p \in Pipelines, ConfigAnswered(n, p)
    PROVE  NodesInv'
<1>1. /\ orch' = orch /\ orch \in {"full", "pushing"}
      /\ UNCHANGED <<decision, weight, restarted, refused, record>>
      /\ config' = [config EXCEPT ![n][p] = decision.stamp]
      /\ pending' = pending \ {<<"config", n, p>>}
  BY DEF ConfigAnswered, place
<1>2. ShapeInv'
  BY <1>1 DEF NodesInv, ShapeInv
<1>3. \A m \in Nodes, q \in Pipelines :
         config'[m][q] = IF m = n /\ q = p THEN decision.stamp ELSE config[m][q]
  BY <1>1 DEF NodesInv, ShapeInv
<1>4. \A m \in Nodes, q \in Pipelines :
         /\ <<"config", m, q>> \in pending => <<"config", m, q>> \in pending' \/ (m = n /\ q = p)
         /\ <<"weights", m>> \in pending => <<"weights", m>> \in pending'
  BY <1>1
<1>5. PushInv'
  BY <1>1, <1>3, <1>4 DEF NodesInv, PushInv, HasDecided
<1>6. QED
  BY <1>1, <1>2, <1>5 DEF NodesInv, SlotsRunAsDecided

LEMMA WeightsAnsweredNodes ==
    ASSUME NodesInv, NEW n \in Nodes, WeightsAnswered(n)
    PROVE  NodesInv'
<1>1. /\ orch' = orch /\ orch = "pushing"
      /\ UNCHANGED <<decision, config, restarted, record>>
      /\ weight' = [weight EXCEPT ![n] = [p \in Pipelines |->
                       IF p < decision.zero THEN decision.stamp ELSE @[p]]]
      /\ refused' = IF decision.zero \in Pipelines THEN refused \cup {n} ELSE refused
      /\ pending' = pending \ {<<"weights", n>>}
  BY DEF WeightsAnswered, place
<1>2. ShapeInv'
  BY <1>1 DEF NodesInv, ShapeInv
<1>3. \A m \in Nodes, q \in Pipelines :
         weight'[m][q] = IF m = n /\ q < decision.zero THEN decision.stamp ELSE weight[m][q]
  BY <1>1 DEF NodesInv, ShapeInv
<1>4. \A q \in Pipelines : q < decision.zero \/ n \in refused'
  BY <1>1, SizesAssumption DEF NodesInv, PushInv, HasDecided, Pipelines
<1>5. \A m \in Nodes, q \in Pipelines :
         /\ <<"weights", m>> \in pending => <<"weights", m>> \in pending' \/ m = n
         /\ <<"config", m, q>> \in pending => <<"config", m, q>> \in pending'
  BY <1>1
<1>6. PushInv'
  BY <1>1, <1>3, <1>4, <1>5 DEF NodesInv, PushInv, HasDecided
<1>7. QED
  BY <1>1, <1>2, <1>6 DEF NodesInv, SlotsRunAsDecided

LEMMA WeightsFailNodes ==
    ASSUME NodesInv, NEW n \in Nodes, WeightsFail(n)
    PROVE  NodesInv'
<1>1. /\ orch' = orch /\ orch = "pushing"
      /\ UNCHANGED <<decision, config, restarted, record>>
      /\ refused' = refused \cup {n}
      /\ pending' = pending \ {<<"weights", n>>}
  BY DEF WeightsFail, place
<1>2. \/ weight' = weight
      \/ weight' = [weight EXCEPT ![n] = [p \in Pipelines |->
                        IF p < decision.zero THEN decision.stamp ELSE @[p]]]
  BY DEF WeightsFail
<1>3. ShapeInv'
  BY <1>1, <1>2 DEF NodesInv, ShapeInv
<1>4. \A m \in Nodes \ {n}, q \in Pipelines : weight'[m][q] = weight[m][q]
  BY <1>2 DEF NodesInv, ShapeInv
<1>5. \A m \in Nodes, q \in Pipelines :
         /\ <<"weights", m>> \in pending => <<"weights", m>> \in pending' \/ m = n
         /\ <<"config", m, q>> \in pending => <<"config", m, q>> \in pending'
  BY <1>1
<1>6. PushInv'
  BY <1>1, <1>4, <1>5 DEF NodesInv, PushInv, HasDecided
<1>7. QED
  BY <1>1, <1>3, <1>6 DEF NodesInv, SlotsRunAsDecided

LEMMA NodeRestartsNodes ==
    ASSUME NodesInv, NEW n \in Nodes, NodeRestarts(n)
    PROVE  NodesInv'
<1>1. /\ UNCHANGED <<orch, decision, pending, refused, record>>
      /\ restarted' = restarted \cup {n}
      /\ config' = [config EXCEPT ![n] = [p \in Pipelines |-> None]]
      /\ weight' = [weight EXCEPT ![n] = [p \in Pipelines |-> None]]
  BY DEF NodeRestarts, place
<1>2. ShapeInv'
  BY <1>1 DEF NodesInv, ShapeInv
<1>3. \A m \in Nodes \ {n} : config'[m] = config[m] /\ weight'[m] = weight[m]
  BY <1>1 DEF NodesInv, ShapeInv
<1>4. PushInv'
  BY <1>1, <1>3 DEF NodesInv, PushInv, HasDecided
<1>5. QED
  BY <1>1, <1>2, <1>4 DEF NodesInv, SlotsRunAsDecided

LEMMA SlotNodes == ASSUME NodesInv, RunSlot \/ EndSlot PROVE NodesInv'
<1>1. CASE RunSlot
  BY <1>1 DEF RunSlot, NodesInv, ShapeInv, PushInv, HasDecided, SlotsRunAsDecided, nodeVars
<1>2. CASE EndSlot
  <2>1. /\ orch = "running" /\ orch' \in {"probe", "sub", "finished"}
        /\ UNCHANGED nodeVars
        /\ record' = [decided |-> decision, kind |-> Kind, scheme |-> scheme, config |-> config,
                      weight |-> weight, refused |-> refused, restarted |-> restarted]
    BY <1>2, NextSubOrch DEF EndSlot
  <2>2. SlotsRunAsDecided'
    BY <2>1 DEF NodesInv, PushInv, HasDecided, SlotsRunAsDecided
  <2>3. QED
    BY <2>1, <2>2 DEF NodesInv, ShapeInv, PushInv, HasDecided, nodeVars
<1>3. QED
  BY <1>1, <1>2

LEMMA NodesInvNext == NodesInv /\ [Next]_vars => NodesInv'
<1> SUFFICES ASSUME NodesInv, [Next]_vars
             PROVE  NodesInv'
  OBVIOUS
<1>1. CASE Start
  BY <1>1, OutsideStep DEF Start, nodeVars
<1>2. CASE Killed
  BY <1>2, DiesNodes DEF Killed
<1>3. CASE Profiling
  BY <1>3, OutsideStep, NextSubOrch
     DEF Profiling, ReuseProfile, PushFull, ProfilingRuns, WriteProfile, nodeVars
<1>4. CASE Modelling
  BY <1>4, OutsideStep, NextSubOrch
     DEF Modelling, ReuseModel, TrainModel, NoSamples, TornPickle, nodeVars
<1>5. CASE BeginRun \/ Probe
  BY <1>5, OutsideStep DEF BeginRun, Probe, nodeVars
<1>6. CASE Step \/ RunSlot \/ EndSlot
  BY <1>6, StepNodes, SlotNodes
<1>7. CASE Pushing
  BY <1>7, DiesNodes, WeightsAnsweredNodes, WeightsFailNodes, ConfigAnsweredNodes
     DEF Pushing, ConfigFails
<1>8. CASE \E n \in Nodes : NodeRestarts(n)
  BY <1>8, NodeRestartsNodes
<1>9. CASE UNCHANGED vars
  BY <1>9 DEF NodesInv, ShapeInv, PushInv, HasDecided, SlotsRunAsDecided, vars, nodeVars
<1>10. QED
  BY <1>1, <1>2, <1>3, <1>4, <1>5, <1>6, <1>7, <1>8, <1>9 DEF Next, SlotLoop

\* A recorded slot ran under the settings of its own decision on every node that did
\* not restart, and under its weights unless they were not sent or not taken
\* (opt_runner.py:1284-1293).
THEOREM SlotsRunUnderTheirDecision == Spec => []SlotsRunAsDecided
<1>1. NodesInv => SlotsRunAsDecided
  BY DEF NodesInv
<1>2. QED
  BY NodesInvInit, NodesInvNext, <1>1, PTL DEF Spec

-----------------------------------------------------------------------------
(* Part two: what the decisions know.                                      *)

\* The probes of this run that an estimator holds: of the earlier slots, and after
\* the step of the current one.
Seen == {x \in Slots : Probes(Kind, x) /\ (x < slot \/ (x = slot /\ HasDecided))}

\* The capacity c is the last probe of a slot up to last.
LastProbe(c, last) ==
    \E s \in 0 .. last :
        /\ Probes(Kind, s) /\ c = At(s)
        /\ \A x \in s + 1 .. last : ~Probes(Kind, x)

RunInv ==
    /\ orch \in {"sub", "probe", "step", "pushing", "running"} => slot \in Slots
    /\ orch = "sub" => slot = 0
    /\ InRun =>
          /\ Kind \in Estimated => obs = {At(x) : x \in Seen}
          /\ (slot = 0 /\ orch = "probe") \/ LastProbe(capacity, IF orch = "probe" THEN slot - 1 ELSE slot)
          /\ \A p \in Pipelines : heard[p] \subseteq {At(s) : s \in {x \in Slots : x < slot}}

DecidedInv ==
    HasDecided =>
        /\ decision.stamp = Stamp
        /\ Kind \in Estimated =>
              decision.estimate = {At(s) : s \in {x \in Slots : x < slot /\ Probes(Kind, x)}}
        /\ Kind \in Direct => LastProbe(decision.capacity, slot)
        /\ \A p \in Pipelines :
              decision.heard[p] \subseteq {At(s) : s \in {x \in Slots : x < slot}}

CausalInv == RunInv /\ DecidedInv /\ DecisionsAreCausal

LEMMA CausalInvInit == Init => CausalInv
BY DEF Init, CausalInv, RunInv, DecidedInv, DecisionsAreCausal, InRun, HasDecided, Slots, None

\* The first slot of a run has the links probed, whoever runs it.
LEMMA FirstSlotProbes == Probes(Kind, 0)
BY SizesAssumption DEF Probes

\* Steps that leave the run and record nothing.
LEMMA LeaveRun ==
    ASSUME CausalInv, record' = record \/ record' = None,
           orch' \in {"down", "full", "query", "finished"} \/ (orch' = "sub" /\ slot' = 0)
    PROVE  CausalInv'
BY SizesAssumption
   DEF CausalInv, RunInv, DecidedInv, DecisionsAreCausal, InRun, HasDecided, Slots, None, Probes

\* Steps of the pushes: the adapter and the decision stay.
LEMMA PushStep ==
    ASSUME CausalInv, orch \in {"full", "pushing"},
           orch' = orch \/ (orch = "pushing" /\ orch' = "running"),
           UNCHANGED <<place, starts, adapter, capacity, decision, record>>
    PROVE  CausalInv'
BY DEF CausalInv, RunInv, DecidedInv, DecisionsAreCausal, InRun, HasDecided, Slots, Probes, place,
       adapter, Kind, Stamp, Seen, LastProbe, At

LEMMA StayStep ==
    ASSUME CausalInv, UNCHANGED <<orch, place, starts, adapter, capacity, decision, record>>
    PROVE  CausalInv'
BY DEF CausalInv, RunInv, DecidedInv, DecisionsAreCausal, InRun, HasDecided, Slots, Probes, place,
       adapter, Kind, Stamp, Seen, LastProbe, At

LEMMA NextSubLeaves == NextSub => orch' = "finished" \/ (orch' = "sub" /\ slot' = 0)
BY DEF NextSub

LEMMA BeginRunCausal == ASSUME CausalInv, BeginRun PROVE CausalInv'
<1>1. /\ orch' = "probe" /\ slot' = 0 /\ slot = 0
      /\ obs' = {} /\ heard' = [p \in Pipelines |-> {}]
      /\ record' = record
  BY DEF BeginRun, CausalInv, RunInv, place
<1>2. Seen' = {}
  BY <1>1 DEF Seen, HasDecided, Slots
<1>3. RunInv'
  BY <1>1, <1>2, SizesAssumption DEF RunInv, InRun, Slots
<1>4. DecidedInv'
  BY <1>1 DEF DecidedInv, HasDecided
<1>5. DecisionsAreCausal'
  BY <1>1 DEF CausalInv, DecisionsAreCausal, Slots, Probes
<1>6. QED
  BY <1>3, <1>4, <1>5 DEF CausalInv

LEMMA ProbeCausal == ASSUME CausalInv, Probe PROVE CausalInv'
<1>1. /\ orch = "probe" /\ orch' = "step"
      /\ UNCHANGED <<scheme, sub, mu, slot, starts, obs, heard, record>>
      /\ capacity' = IF Probes(Kind, slot) THEN Stamp ELSE capacity
  BY DEF Probe, place, adapter
<1>2. /\ Kind' = Kind /\ Seen' = Seen /\ \A s : At(s)' = At(s)
  BY <1>1 DEF Kind, Seen, HasDecided, At, Slots, Probes
<1>3. slot \in Nat
  BY <1>1, SizesAssumption DEF CausalInv, RunInv, Slots
<1>4. LastProbe(capacity, slot)'
  <2>1. CASE Probes(Kind, slot)
    <3>1. capacity' = At(slot)
      BY <1>1, <2>1 DEF Stamp, At
    <3>2. slot \in 0 .. slot /\ \A x \in slot + 1 .. slot : FALSE
      BY <1>3
    <3>3. QED
      BY <1>1, <1>2, <2>1, <3>1, <3>2 DEF LastProbe, Probes
  <2>2. CASE ~Probes(Kind, slot)
    <3>1. slot # 0
      BY <2>2, FirstSlotProbes
    <3>2. PICK s \in 0 .. slot - 1 :
             /\ Probes(Kind, s) /\ capacity = At(s)
             /\ \A x \in s + 1 .. slot - 1 : ~Probes(Kind, x)
      BY <1>1, <3>1 DEF CausalInv, RunInv, InRun, LastProbe
    <3>3. s \in 0 .. slot /\ \A x \in s + 1 .. slot : ~Probes(Kind, x)
      <4>1. \A x \in s + 1 .. slot : x = slot \/ x \in s + 1 .. slot - 1
        BY <1>3
      <4>2. QED
        BY <1>3, <2>2, <3>2, <4>1
    <3>4. QED
      BY <1>1, <1>2, <2>2, <3>2, <3>3 DEF LastProbe, Probes
  <2>3. QED
    BY <2>1, <2>2
<1>5. RunInv'
  BY <1>1, <1>2, <1>4 DEF CausalInv, RunInv, InRun, Slots
<1>6. QED
  BY <1>1, <1>5 DEF CausalInv, DecidedInv, DecisionsAreCausal, HasDecided, Slots, Probes

LEMMA StepCausal == ASSUME CausalInv, Step PROVE CausalInv'
<1>1. /\ orch = "step" /\ orch' = "pushing"
      /\ UNCHANGED <<scheme, sub, mu, slot, starts, heard, capacity, record>>
      /\ obs' = IF Kind \in Estimated THEN Folded ELSE obs
  BY DEF Step, place
<1>2. /\ decision'.stamp = Stamp
      /\ decision'.estimate = IF Kind \in Estimated THEN obs ELSE {}
      /\ decision'.capacity = IF Kind \in Direct THEN capacity ELSE None
      /\ decision'.heard = IF Kind \in Dual THEN heard ELSE [p \in Pipelines |-> {}]
  <2>1. PICK zero, infeasible : decision' = Decided(zero, infeasible, obs)
    BY DEF Step
  <2>2. QED
    BY <2>1 DEF Decided
<1>3. Kind' = Kind /\ Stamp' = Stamp /\ \A s : At(s)' = At(s)
  BY <1>1 DEF Kind, Stamp, At
<1>4. slot \in Slots /\ slot \in Nat
  BY <1>1, SizesAssumption DEF CausalInv, RunInv, Slots
<1>5. LastProbe(capacity, slot)
  BY <1>1 DEF CausalInv, RunInv, InRun
<1>6. Probes(Kind, slot) => capacity = At(slot)
  BY <1>4, <1>5 DEF LastProbe
<1>7. Seen = {x \in Slots : x < slot /\ Probes(Kind, x)}
  BY <1>1 DEF Seen, HasDecided
<1>8. Seen' = Seen \cup {x \in {slot} : Probes(Kind, x)}
  BY <1>1, <1>3, <1>4, <1>7 DEF Seen, HasDecided, Slots, Probes
<1>9. Kind \in Estimated => obs' = {At(x) : x \in Seen'}
  <2>1. Kind \in Estimated => obs = {At(x) : x \in Seen}
    BY <1>1 DEF CausalInv, RunInv, InRun
  <2>2. QED
    BY <1>1, <1>6, <1>8, <2>1 DEF Folded
<1>10. LastProbe(capacity, slot)'
  BY <1>1, <1>3, <1>5 DEF LastProbe, Probes
<1>11. RunInv'
  BY <1>1, <1>3, <1>4, <1>9, <1>10 DEF CausalInv, RunInv, InRun, Slots
<1>12. DecidedInv'
  <2>1. Kind \in Estimated => decision'.estimate = {At(s) : s \in Seen}
    BY <1>1, <1>2 DEF CausalInv, RunInv, InRun
  <2>2. Kind \in Direct => decision'.capacity = capacity'
    BY <1>1, <1>2
  <2>3. \A p \in Pipelines :
           decision'.heard[p] \subseteq {At(s) : s \in {x \in Slots : x < slot}}
    BY <1>1, <1>2 DEF CausalInv, RunInv, InRun
  <2>4. QED
    BY <1>1, <1>2, <1>3, <1>7, <1>10, <2>1, <2>2, <2>3 DEF DecidedInv, Slots, Probes, LastProbe
<1>13. QED
  BY <1>1, <1>11, <1>12 DEF CausalInv, DecisionsAreCausal, Slots, Probes

LEMMA EndSlotCausal == ASSUME CausalInv, EndSlot PROVE CausalInv'
<1>1. /\ orch = "running" /\ UNCHANGED <<starts, obs, capacity>>
      /\ record'.decided = decision /\ record'.kind = Kind
  BY DEF EndSlot
<1>2. slot \in Slots /\ slot \in Nat
  BY <1>1, SizesAssumption DEF CausalInv, RunInv, Slots
<1>3. DecisionsAreCausal'
  <2>1. /\ decision.stamp = Stamp
        /\ Kind \in Estimated =>
              decision.estimate = {At(s) : s \in {x \in Slots : x < slot /\ Probes(Kind, x)}}
        /\ Kind \in Direct => LastProbe(decision.capacity, slot)
        /\ \A p \in Pipelines :
              decision.heard[p] \subseteq {At(s) : s \in {x \in Slots : x < slot}}
    BY <1>1 DEF CausalInv, DecidedInv, HasDecided
  <2>2. Stamp[5] = slot /\ \A s : [Stamp EXCEPT ![5] = s] = At(s)
    BY DEF Stamp, At
  <2>3. Kind \in Direct =>
           \E s \in {x \in Slots : x < slot} \cup {slot} :
               /\ Probes(Kind, s) /\ decision.capacity = At(s)
               /\ \A x \in s + 1 .. slot : ~Probes(Kind, x)
    <3>1. \A s \in 0 .. slot : s \in {x \in Slots : x < slot} \cup {slot}
      BY <1>2, SizesAssumption DEF Slots
    <3>2. QED
      BY <2>1, <3>1 DEF LastProbe
  <2> DEFINE Earlier == {s \in Slots : s < slot}
  <2>4. {x \in Slots : x < slot /\ Probes(Kind, x)} = {x \in Earlier : Probes(Kind, x)}
    OBVIOUS
  <2>5. /\ Kind \in Estimated =>
              decision.estimate = {At(s) : s \in {x \in Earlier : Probes(Kind, x)}}
        /\ Kind \in Direct =>
              \E s \in Earlier \cup {slot} :
                 /\ Probes(Kind, s) /\ decision.capacity = At(s)
                 /\ \A x \in s + 1 .. slot : ~Probes(Kind, x)
        /\ \A p \in Pipelines : decision.heard[p] \subseteq {At(s) : s \in Earlier}
    BY <2>1, <2>3, <2>4
  <2>6. QED
    BY <1>1, <2>1, <2>2, <2>5 DEF DecisionsAreCausal, Slots, Probes
<1>4. CASE slot + 1 < NumSlots /\ slot' = slot + 1 /\ orch' = "probe"
           /\ UNCHANGED <<scheme, sub, mu>>
  <2>1. Kind' = Kind /\ \A s : At(s)' = At(s)
    BY <1>1, <1>4 DEF Kind, At
  <2>2. slot' \in Slots /\ slot' # 0 /\ slot' - 1 = slot
    BY <1>2, <1>4, SizesAssumption DEF Slots
  <2>3. Seen' = Seen
    BY <1>1, <1>2, <1>4, <2>1, SizesAssumption DEF Seen, HasDecided, Slots, Probes
  <2>4. LastProbe(capacity, slot)
    BY <1>1 DEF CausalInv, RunInv, InRun
  <2>5. Kind \in Estimated => obs' = {At(x) : x \in Seen'}
    BY <1>1, <2>3 DEF CausalInv, RunInv, InRun
  <2>6. \A p \in Pipelines : heard'[p] \subseteq heard[p] \cup {At(slot)}
    BY DEF EndSlot, Stamp, At
  <2>7. \A p \in Pipelines : heard'[p] \subseteq {At(s) : s \in {x \in Slots : x < slot'}}
    <3>1. \A p \in Pipelines : heard[p] \subseteq {At(s) : s \in {x \in Slots : x < slot}}
      BY <1>1 DEF CausalInv, RunInv, InRun
    <3>2. slot < slot' /\ \A x \in Slots : x < slot => x < slot'
      BY <1>2, <1>4 DEF Slots
    <3>3. QED
      BY <1>2, <2>6, <3>1, <3>2
  <2>8. LastProbe(capacity, IF orch = "probe" THEN slot - 1 ELSE slot)'
    BY <1>1, <1>4, <2>1, <2>2, <2>4 DEF LastProbe, Probes
  <2>9. RunInv'
    BY <1>4, <2>1, <2>2, <2>5, <2>7, <2>8 DEF RunInv, InRun, Slots
  <2>10. QED
    BY <1>3, <1>4, <2>9 DEF CausalInv, DecidedInv, HasDecided
<1>5. CASE NextSub
  BY <1>3, <1>5, NextSubLeaves, SizesAssumption
     DEF CausalInv, RunInv, DecidedInv, InRun, HasDecided, Slots
<1>6. QED
  BY <1>4, <1>5 DEF EndSlot

LEMMA CausalInvNext == CausalInv /\ [Next]_vars => CausalInv'
<1> SUFFICES ASSUME CausalInv, [Next]_vars
             PROVE  CausalInv'
  OBVIOUS
<1>1. CASE Start
  BY <1>1, LeaveRun DEF Start
<1>2. CASE Killed
  BY <1>2, LeaveRun DEF Killed, Dies
<1>3. CASE Profiling
  BY <1>3, LeaveRun, NextSubLeaves
     DEF Profiling, ReuseProfile, PushFull, ProfilingRuns, WriteProfile
<1>4. CASE Modelling
  BY <1>4, LeaveRun, NextSubLeaves
     DEF Modelling, ReuseModel, TrainModel, NoSamples, TornPickle
<1>5. CASE SlotLoop
  <2>1. CASE RunSlot
    BY <2>1, PushStep DEF RunSlot
  <2>2. QED
    BY <1>5, <2>1, BeginRunCausal, ProbeCausal, StepCausal, EndSlotCausal DEF SlotLoop
<1>6. CASE Pushing
  <2>1. CASE ConfigFails
    BY <2>1, LeaveRun DEF ConfigFails, Dies
  <2>2. CASE \E n \in Nodes :
                WeightsAnswered(n) \/ WeightsFail(n) \/ \E p \in Pipelines : ConfigAnswered(n, p)
    BY <2>2, StayStep DEF WeightsAnswered, WeightsFail, ConfigAnswered
  <2>3. QED
    BY <1>6, <2>1, <2>2 DEF Pushing
<1>7. CASE \E n \in Nodes : NodeRestarts(n)
  BY <1>7, StayStep DEF NodeRestarts
<1>8. CASE UNCHANGED vars
  BY <1>8, StayStep DEF vars
<1>9. QED
  BY <1>1, <1>2, <1>3, <1>4, <1>5, <1>6, <1>7, <1>8 DEF Next

\* A decision of the optimiser knows the probes and delays of the past of its own run
\* and nothing else, across slots, runs, crashes and restarts (opt_runner.py:1262-1280).
THEOREM DecisionsKnowOnlyThePast == Spec => []DecisionsAreCausal
<1>1. CausalInv => DecisionsAreCausal
  BY DEF CausalInv
<1>2. QED
  BY CausalInvInit, CausalInvNext, <1>1, PTL DEF Spec

-----------------------------------------------------------------------------
(* Part three: what the decisions are computed from.                       *)

\* The order a specification file is asked for (opt_experiment.py:591): no code checks
\* it, and without it the first optimiser run of a scheme uses the profile of the
\* scheme before.
ProfilingFirst ==
    \A i \in 1 .. Len(Subs) :
        Subs[i] \in Optimised => \E j \in 1 .. i - 1 : Subs[j] = "profiling"

\* The timings were measured for scheme s.
MeasuredFor(s, events) ==
    \A e \in events :
        /\ e.scheme = s
        /\ e.clean => \A x, y \in e.settings : x = y /\ x[2] = s /\ x[5] = Full

Alive      == orch \notin {"down", "finished"}
Done(kind) == \E i \in 1 .. sub - 1 : Subs[i] = kind

PlaceInv ==
    Alive => /\ scheme \in DOMAIN Schemes /\ sub \in 1 .. Len(Subs)
             /\ orch \in {"full", "query"} => Kind = "profiling"
             /\ InRun => Kind \in Optimised

\* On the metrics server and on disk, whoever left it there.
StoreInv ==
    /\ DOMAIN timings = DOMAIN Schemes /\ DOMAIN artifact = DOMAIN Schemes
    /\ \A s \in DOMAIN Schemes :
          /\ MeasuredFor(s, timings[s])
          /\ artifact[s] # None => MeasuredFor(s, artifact[s].events)

\* While profiling, what a node has not been told yet is still pending.
FullInv ==
    orch = "full" =>
        /\ decision.stamp = FullStamp
        /\ \A n \in Nodes \ restarted, p \in Pipelines :
              <<"config", n, p>> \in pending \/ config[n][p] = FullStamp

\* In memory, from the sub-experiment that puts it there to the end of the scheme.
MemoryInv ==
    Alive =>
        /\ Done("profiling") /\ profile # None => MeasuredFor(scheme, profile.events)
        /\ scheme \in models => pickle[scheme] = "whole"
        /\ Done("accuracy_model") => (scheme \in models <=> pickle[scheme] = "whole")
        /\ \A s \in models : s \in DOMAIN Schemes /\ s <= scheme

ComputedInv ==
    HasDecided =>
        /\ decision.stamp = Stamp
        /\ decision.profile # None => MeasuredFor(scheme, decision.profile.events)
        /\ Done("accuracy_model") => (decision.model <=> decision.pickle = "whole")

SourcesInv ==
    /\ PlaceInv /\ StoreInv /\ FullInv /\ MemoryInv /\ ComputedInv
    /\ ModelsMatchScheme

LEMMA SourcesInvInit == Init => SourcesInv
  BY DEF Init, SourcesInv, PlaceInv, StoreInv, FullInv, MemoryInv, ComputedInv, ModelsMatchScheme,
         Alive, InRun, HasDecided, MeasuredFor, None

\* The next sub-experiment is of the same scheme and has one more behind it, or it is
\* the first one of a later scheme.
LEMMA NextSubPlace ==
    ASSUME PlaceInv, Alive, NextSub
    PROVE  \/ orch' = "finished"
           \/ /\ orch' = "sub" /\ scheme' \in DOMAIN Schemes /\ sub' \in 1 .. Len(Subs)
              /\ \/ scheme' = scheme /\ \A k : Done(k)' => Done(k) \/ k = Kind
                 \/ scheme' = scheme + 1 /\ \A k : ~ Done(k)'
<1>1. /\ scheme \in 1 .. Len(Schemes) /\ sub \in 1 .. Len(Subs)
      /\ Len(Schemes) \in Nat /\ Len(Subs) \in Nat
  BY SubsAssumption DEF PlaceInv
<1>2. CASE sub' = sub /\ scheme' = scheme /\ orch' = "sub"
  BY <1>1, <1>2 DEF Done, PlaceInv
<1>3. CASE sub < Len(Subs) /\ sub' = sub + 1 /\ scheme' = scheme /\ orch' = "sub"
  <2>1. \A i \in 1 .. sub' - 1 : i \in 1 .. sub - 1 \/ i = sub
    BY <1>1, <1>3
  <2>2. QED
    BY <1>1, <1>3, <2>1, SubsAssumption DEF Done, Kind
<1>4. CASE scheme < Len(Schemes) /\ scheme' = scheme + 1 /\ sub' = 1 /\ orch' = "sub"
  <2>1. \A k : ~ Done(k)'
    BY <1>4 DEF Done
  <2>2. scheme' \in DOMAIN Schemes /\ sub' \in 1 .. Len(Subs)
    BY <1>1, <1>4, SubsAssumption
  <2>3. QED
    BY <1>4, <2>1, <2>2
<1>5. QED
  BY <1>2, <1>3, <1>4 DEF NextSub

\* A sub-experiment is over.
LEMMA SubOver ==
    ASSUME SourcesInv, Alive, NextSub, StoreInv', ModelsMatchScheme',
           profile' # None =>
              \/ Kind = "profiling" /\ MeasuredFor(scheme, profile'.events)
              \/ Kind # "profiling" /\ profile' = profile,
           \A s \in models' : s \in DOMAIN Schemes /\ s <= scheme,
           scheme \in models' => pickle'[scheme] = "whole",
           \/ Kind # "accuracy_model" /\ pickle' = pickle /\ models' = models
           \/ scheme \in models' <=> pickle'[scheme] = "whole"
    PROVE  SourcesInv'
<1>1. CASE orch' = "finished"
  BY <1>1 DEF SourcesInv, PlaceInv, FullInv, MemoryInv, ComputedInv, Alive, HasDecided
<1>2. CASE /\ orch' = "sub" /\ scheme' \in DOMAIN Schemes /\ sub' \in 1 .. Len(Subs)
           /\ scheme' = scheme /\ \A k : Done(k)' => Done(k) \/ k = Kind
  <2>1. PlaceInv' /\ FullInv' /\ ComputedInv'
    BY <1>2 DEF PlaceInv, FullInv, ComputedInv, InRun, HasDecided
  <2>2. Done("profiling")' /\ profile' # None => MeasuredFor(scheme', profile'.events)
    BY <1>2 DEF SourcesInv, MemoryInv
  <2>3. Done("accuracy_model")' => (scheme' \in models' <=> pickle'[scheme'] = "whole")
    BY <1>2 DEF SourcesInv, MemoryInv
  <2>4. QED
    BY <1>2, <2>1, <2>2, <2>3 DEF SourcesInv, MemoryInv, MeasuredFor
<1>3. CASE /\ orch' = "sub" /\ scheme' \in DOMAIN Schemes /\ sub' \in 1 .. Len(Subs)
           /\ scheme' = scheme + 1 /\ \A k : ~ Done(k)'
  <2>1. PlaceInv' /\ FullInv' /\ ComputedInv'
    BY <1>3 DEF PlaceInv, FullInv, ComputedInv, InRun, HasDecided
  <2>2. \A s \in models' : s \in DOMAIN Schemes /\ s <= scheme' /\ s # scheme'
    <3>1. DOMAIN Schemes \subseteq Nat /\ scheme \in Nat
      BY SubsAssumption DEF SourcesInv, PlaceInv
    <3>2. QED
      BY <1>3, <3>1
  <2>3. MemoryInv'
    BY <1>3, <2>2 DEF MemoryInv
  <2>4. QED
    BY <2>1, <2>3 DEF SourcesInv
<1>4. QED
  BY <1>1, <1>2, <1>3, NextSubPlace DEF SourcesInv

\* Steps that leave what is computed and stored, and start nothing.
LEMMA SourcesStop ==
    ASSUME SourcesInv, orch' \in {"down", "finished"}, UNCHANGED <<timings, artifact>>,
           record' = record \/ record' = None
    PROVE  SourcesInv'
BY DEF SourcesInv, PlaceInv, StoreInv, FullInv, MemoryInv, ComputedInv, ModelsMatchScheme, Alive,
       InRun, HasDecided, MeasuredFor, None

LEMMA SourcesStart == ASSUME SourcesInv, Start PROVE SourcesInv'
<1>1. /\ UNCHANGED <<timings, artifact>> /\ record' = None
      /\ orch' = IF Schemes = <<>> \/ Subs = <<>> THEN "finished" ELSE "sub"
      /\ scheme' = 1 /\ sub' = 1 /\ profile' = None /\ models' = {}
  BY DEF Start, stored
<1>2. CASE orch' = "finished"
  BY <1>1, <1>2, SourcesStop
<1>3. CASE Schemes # <<>> /\ Subs # <<>> /\ orch' = "sub"
  <2>1. scheme' \in DOMAIN Schemes /\ sub' \in 1 .. Len(Subs)
    BY <1>1, <1>3, SubsAssumption
  <2>2. \A k : ~ (\E i \in 1 .. sub' - 1 : Subs[i] = k)
    BY <1>1
  <2>3. PlaceInv' /\ FullInv' /\ ComputedInv' /\ MemoryInv'
    BY <1>1, <1>3, <2>1, <2>2 DEF PlaceInv, FullInv, ComputedInv, MemoryInv, InRun, HasDecided, Done
  <2>4. QED
    BY <1>1, <2>3 DEF SourcesInv, StoreInv, ModelsMatchScheme, MeasuredFor, None
<1>4. QED
  BY <1>1, <1>2, <1>3

\* What is stored and recorded stays as it is.
LEMMA StoreStays ==
    ASSUME SourcesInv, UNCHANGED <<timings, artifact, record>>
    PROVE  StoreInv' /\ ModelsMatchScheme'
BY DEF SourcesInv, StoreInv, ModelsMatchScheme, MeasuredFor

LEMMA ReuseProfileSources == ASSUME SourcesInv, ReuseProfile PROVE SourcesInv'
<1>1. /\ orch = "sub" /\ Kind = "profiling" /\ NextSub
      /\ profile' = artifact[scheme] /\ artifact[scheme] # None
      /\ UNCHANGED <<timings, artifact, pickle, models, record>>
  BY DEF ReuseProfile, stored
<1>2. MeasuredFor(scheme, profile'.events)
  BY <1>1 DEF SourcesInv, StoreInv, PlaceInv, Alive
<1>3. QED
  BY <1>1, <1>2, StoreStays, SubOver DEF SourcesInv, MemoryInv, Alive

LEMMA WriteProfileSources == ASSUME SourcesInv, WriteProfile PROVE SourcesInv'
<1>1. /\ orch = "query" /\ Kind = "profiling" /\ NextSub
      /\ profile' = [events |-> timings[scheme]] \/ profile' = [events |-> {}]
      /\ artifact' = [artifact EXCEPT ![scheme] = profile']
      /\ UNCHANGED <<timings, pickle, models, record>>
  BY DEF WriteProfile, SourcesInv, PlaceInv, Alive
<1>2. MeasuredFor(scheme, profile'.events)
  <2>1. scheme \in DOMAIN Schemes /\ MeasuredFor(scheme, timings[scheme])
    BY <1>1 DEF SourcesInv, StoreInv, PlaceInv, Alive
  <2>2. QED
    BY <1>1, <2>1 DEF MeasuredFor
<1>3. StoreInv'
  BY <1>1, <1>2 DEF SourcesInv, StoreInv, MeasuredFor
<1>4. ModelsMatchScheme'
  BY <1>1 DEF SourcesInv, ModelsMatchScheme
<1>5. QED
  BY <1>1, <1>2, <1>3, <1>4, SubOver DEF SourcesInv, MemoryInv, Alive

LEMMA ModelSources == ASSUME SourcesInv, ReuseModel \/ TrainModel \/ NoSamples PROVE SourcesInv'
<1>1. /\ orch = "sub" /\ Kind = "accuracy_model" /\ NextSub
      /\ UNCHANGED <<timings, artifact, profile, record>>
  BY DEF ReuseModel, TrainModel, NoSamples, stored, memory
<1>2. scheme \in DOMAIN Schemes /\ (scheme \in models => pickle[scheme] = "whole")
      /\ \A s \in models : s \in DOMAIN Schemes /\ s <= scheme
  BY <1>1 DEF SourcesInv, PlaceInv, MemoryInv, Alive
<1>3. /\ scheme \in models' <=> pickle'[scheme] = "whole"
      /\ models' \subseteq models \cup {scheme}
  <2>1. CASE ReuseModel
    BY <1>2, <2>1 DEF ReuseModel, stored
  <2>2. CASE TrainModel
    BY <1>2, <2>2 DEF TrainModel, SamePath
  <2>3. CASE NoSamples
    BY <1>2, <2>3 DEF NoSamples, stored, memory
  <2>4. QED
    BY <2>1, <2>2, <2>3
<1>4. scheme <= scheme
  BY <1>2, SubsAssumption
<1>5. QED
  BY <1>1, <1>2, <1>3, <1>4, StoreStays, SubOver DEF Alive

\* Steps that stay in a sub-experiment and change neither memory nor files.
LEMMA SourcesStay ==
    ASSUME SourcesInv, Alive, Alive', UNCHANGED <<place, starts, memory, pickle>>,
           StoreInv', ModelsMatchScheme', FullInv', ComputedInv',
           orch' \in {"full", "query"} => Kind = "profiling",
           InRun' => Kind \in Optimised
    PROVE  SourcesInv'
BY DEF SourcesInv, PlaceInv, MemoryInv, Alive, Done, MeasuredFor, Kind, place, memory

LEMMA PushFullSources == ASSUME SourcesInv, PushFull PROVE SourcesInv'
<1>1. /\ orch = "sub" /\ orch' = "full" /\ Kind = "profiling"
      /\ decision'.stamp = FullStamp /\ pending' = ConfigPushes
      /\ UNCHANGED <<place, starts, memory, stored, record>>
  BY DEF PushFull
<1>2. FullInv' /\ ComputedInv'
  BY <1>1 DEF FullInv, ComputedInv, HasDecided, ConfigPushes, FullStamp, place
<1>3. StoreInv' /\ ModelsMatchScheme'
  BY <1>1, StoreStays DEF stored
<1>4. QED
  BY <1>1, <1>2, <1>3, SourcesStay DEF Alive, InRun, stored

LEMMA ConfigAnsweredSources ==
    ASSUME SourcesInv, NodesInv, NEW n \in Nodes, NEW p \in Pipelines, ConfigAnswered(n, p)
    PROVE  SourcesInv'
<1>1. /\ orch \in {"full", "pushing"}
      /\ UNCHANGED <<orch, place, starts, memory, stored, decision, restarted, record>>
      /\ config' = [config EXCEPT ![n][p] = decision.stamp]
      /\ pending' = pending \ {<<"config", n, p>>}
  BY DEF ConfigAnswered
<1>2. \A m \in Nodes, q \in Pipelines :
         config'[m][q] = IF m = n /\ q = p THEN decision.stamp ELSE config[m][q]
  BY <1>1 DEF NodesInv, ShapeInv
<1>3. \A m \in Nodes, q \in Pipelines :
         <<"config", m, q>> \in pending => <<"config", m, q>> \in pending' \/ (m = n /\ q = p)
  BY <1>1
<1>4. FullInv'
  BY <1>1, <1>2, <1>3 DEF SourcesInv, FullInv, FullStamp, place
<1>5. ComputedInv'
  BY <1>1 DEF SourcesInv, ComputedInv, HasDecided, Stamp, Done, MeasuredFor, place
<1>6. StoreInv' /\ ModelsMatchScheme'
  BY <1>1, StoreStays DEF stored
<1>7. Alive /\ (orch = "full" => Kind = "profiling") /\ (InRun => Kind \in Optimised)
  BY <1>1 DEF SourcesInv, PlaceInv, Alive
<1>8. QED
  BY <1>1, <1>4, <1>5, <1>6, <1>7, SourcesStay DEF Alive, InRun, stored

\* Steps after which no settings of profiling are under way or they are as before.
LEMMA SourcesIdle ==
    ASSUME SourcesInv, orch' = orch, orch # "full", orch # "query",
           UNCHANGED <<place, starts, memory, stored, decision, record>>
    PROVE  SourcesInv'
<1>1. UNCHANGED <<scheme, sub, slot, mu, starts, timings, artifact, pickle, profile, models>>
  BY DEF place, memory, stored
<1>2. StoreInv' /\ ModelsMatchScheme'
  BY <1>1, StoreStays
<1>3. FullInv' /\ PlaceInv'
  BY <1>1 DEF SourcesInv, FullInv, PlaceInv, Alive, InRun, Kind
<1>4. MemoryInv' /\ ComputedInv'
  BY <1>1 DEF SourcesInv, MemoryInv, ComputedInv, Alive, HasDecided, Stamp, Done, MeasuredFor
<1>5. QED
  BY <1>2, <1>3, <1>4 DEF SourcesInv

LEMMA NodeRestartsSources ==
    ASSUME SourcesInv, NodesInv, NEW n \in Nodes, NodeRestarts(n)
    PROVE  SourcesInv'
<1>1. /\ UNCHANGED <<orch, place, starts, memory, stored, decision, pending, record>>
      /\ restarted' = restarted \cup {n}
      /\ config' = [config EXCEPT ![n] = [p \in Pipelines |-> None]]
  BY DEF NodeRestarts
<1>2. UNCHANGED <<scheme, sub, slot, mu, starts, timings, artifact, pickle, profile, models>>
  BY <1>1 DEF place, memory, stored
<1>3. \A m \in Nodes \ {n} : config'[m] = config[m]
  BY <1>1 DEF NodesInv, ShapeInv
<1>4. FullInv'
  BY <1>1, <1>2, <1>3 DEF SourcesInv, FullInv, FullStamp
<1>5. StoreInv' /\ ModelsMatchScheme'
  BY <1>1, <1>2, StoreStays
<1>6. PlaceInv'
  BY <1>1, <1>2 DEF SourcesInv, PlaceInv, Alive, InRun, Kind
<1>7. MemoryInv' /\ ComputedInv'
  BY <1>1, <1>2 DEF SourcesInv, MemoryInv, ComputedInv, Alive, HasDecided, Stamp, Done, MeasuredFor
<1>8. QED
  BY <1>4, <1>5, <1>6, <1>7 DEF SourcesInv

\* The heart of the matter: if no node restarted, all of them have the settings of this
\* profiling when its batches run.
LEMMA ProfilingRunsSources == ASSUME SourcesInv, ProfilingRuns PROVE SourcesInv'
<1>1. /\ orch = "full" /\ orch' = "query" /\ pending = {}
      /\ UNCHANGED <<place, starts, memory, artifact, pickle, record>>
  BY DEF ProfilingRuns
<1>2. scheme \in DOMAIN Schemes /\ Kind = "profiling"
  BY <1>1 DEF SourcesInv, PlaceInv, Alive
<1> DEFINE measured == [scheme |-> scheme, clean |-> restarted = {},
                        settings |-> {config[n][p] : n \in Nodes, p \in Pipelines}]
<1>3. MeasuredFor(scheme, {measured})
  <2>1. restarted = {} => \A n \in Nodes, p \in Pipelines : config[n][p] = FullStamp
    BY <1>1 DEF SourcesInv, FullInv
  <2>2. FullStamp[2] = scheme /\ FullStamp[5] = Full
    BY DEF FullStamp
  <2>3. restarted = {} => \A x \in measured.settings : x = FullStamp
    BY <2>1
  <2>4. measured.scheme = scheme /\ measured.clean = (restarted = {})
    OBVIOUS
  <2> HIDE DEF measured
  <2>5. QED
    BY <2>2, <2>3, <2>4 DEF MeasuredFor
<1>4. \/ timings' = [timings EXCEPT ![scheme] = @ \cup {measured}]
      \/ timings' = timings
  BY DEF ProfilingRuns
<1>5. /\ DOMAIN timings' = DOMAIN Schemes
      /\ \A s \in DOMAIN Schemes : MeasuredFor(s, timings'[s])
  <2>1. DOMAIN timings = DOMAIN Schemes /\ \A s \in DOMAIN Schemes : MeasuredFor(s, timings[s])
    BY DEF SourcesInv, StoreInv
  <2>2. MeasuredFor(scheme, timings[scheme] \cup {measured})
    BY <1>2, <1>3, <2>1 DEF MeasuredFor
  <2> HIDE DEF measured
  <2>3. QED
    BY <1>2, <1>4, <2>1, <2>2 DEF MeasuredFor
<1>6. StoreInv' /\ ModelsMatchScheme'
  BY <1>1, <1>5 DEF SourcesInv, StoreInv, ModelsMatchScheme, MeasuredFor
<1>7. FullInv' /\ ComputedInv'
  BY <1>1 DEF FullInv, ComputedInv, HasDecided
<1>8. QED
  BY <1>1, <1>2, <1>6, <1>7, SourcesStay DEF Alive, InRun

\* A run starts behind the profiling of its scheme.
LEMMA BeginRunSources ==
    ASSUME SourcesInv, BeginRun
    PROVE  SourcesInv'
<1>1. /\ orch = "sub" /\ orch' = "probe" /\ Kind \in Optimised
      /\ UNCHANGED <<place, starts, memory, stored, record>>
  BY DEF BeginRun
<1>2. FullInv' /\ ComputedInv'
  BY <1>1 DEF FullInv, ComputedInv, HasDecided
<1>3. StoreInv' /\ ModelsMatchScheme'
  BY <1>1, StoreStays DEF stored
<1>4. QED
  BY <1>1, <1>2, <1>3, SourcesStay DEF Alive, stored

LEMMA ProbeSources == ASSUME SourcesInv, Probe PROVE SourcesInv'
<1>1. /\ orch = "probe" /\ orch' = "step" /\ UNCHANGED <<place, starts, memory, stored, record>>
  BY DEF Probe
<1>2. Kind \in Optimised
  BY <1>1 DEF SourcesInv, PlaceInv, Alive, InRun
<1>3. FullInv' /\ ComputedInv'
  BY <1>1 DEF FullInv, ComputedInv, HasDecided
<1>4. StoreInv' /\ ModelsMatchScheme'
  BY <1>1, StoreStays DEF stored
<1>5. QED
  BY <1>1, <1>2, <1>3, <1>4, SourcesStay DEF Alive, stored

\* A run of an optimiser has the profiling of its scheme behind it.
LEMMA ProfiledBeforeRun ==
    ASSUME ProfilingFirst, SourcesInv, Alive, Kind \in Optimised
    PROVE  Done("profiling")
BY DEF ProfilingFirst, SourcesInv, PlaceInv, Kind, Done

LEMMA StepSources == ASSUME ProfilingFirst, SourcesInv, Step PROVE SourcesInv'
<1>1. /\ orch = "step" /\ orch' = "pushing"
      /\ UNCHANGED <<place, starts, memory, stored, record>>
  BY DEF Step
<1>2. Alive /\ Kind \in Optimised
  BY <1>1 DEF SourcesInv, PlaceInv, Alive, InRun
<1>3. /\ decision'.stamp = Stamp
      /\ decision'.profile = profile
      /\ decision'.model = (scheme \in models)
      /\ decision'.pickle = pickle[scheme]
  <2>1. PICK zero, infeasible : decision' = Decided(zero, infeasible, obs)
    BY DEF Step
  <2>2. QED
    BY <2>1 DEF Decided
<1>4. /\ profile # None => MeasuredFor(scheme, profile.events)
      /\ Done("accuracy_model") => (scheme \in models <=> pickle[scheme] = "whole")
  BY <1>2, ProfiledBeforeRun DEF SourcesInv, MemoryInv
<1>5. UNCHANGED <<scheme, sub, mu, slot, starts>>
  BY <1>1 DEF place
<1>6. ComputedInv'
  <2>1. decision'.stamp = Stamp'
    BY <1>3, <1>5 DEF Stamp
  <2>2. decision'.profile # None => MeasuredFor(scheme', decision'.profile.events)
    BY <1>3, <1>4, <1>5
  <2>3. Done("accuracy_model")' => (decision'.model <=> decision'.pickle = "whole")
    BY <1>3, <1>4, <1>5 DEF Done
  <2>4. QED
    BY <2>1, <2>2, <2>3 DEF ComputedInv, MeasuredFor
<1>7. FullInv'
  BY <1>1 DEF FullInv
<1>8. StoreInv' /\ ModelsMatchScheme'
  BY <1>1, StoreStays DEF stored
<1>9. QED
  BY <1>1, <1>2, <1>6, <1>7, <1>8, SourcesStay DEF Alive, stored

LEMMA RunSlotSources == ASSUME SourcesInv, RunSlot PROVE SourcesInv'
<1>1. /\ orch = "pushing" /\ orch' = "running"
      /\ UNCHANGED <<place, starts, memory, stored, decision, record>>
  BY DEF RunSlot
<1>2. Kind \in Optimised /\ FullInv'
  BY <1>1 DEF SourcesInv, PlaceInv, FullInv, Alive, InRun
<1>3. ComputedInv'
  BY <1>1 DEF SourcesInv, ComputedInv, HasDecided, Stamp, Done, MeasuredFor, place
<1>4. StoreInv' /\ ModelsMatchScheme'
  BY <1>1, StoreStays DEF stored
<1>5. QED
  BY <1>1, <1>2, <1>3, <1>4, SourcesStay DEF Alive, stored

LEMMA EndSlotSources == ASSUME SourcesInv, EndSlot PROVE SourcesInv'
<1>1. /\ orch = "running" /\ UNCHANGED <<starts, memory, stored>>
      /\ record'.decided = decision /\ record'.scheme = scheme
  BY DEF EndSlot
<1>2. UNCHANGED <<timings, artifact, pickle, profile, models>>
  BY <1>1 DEF memory, stored
<1>3. Alive /\ Kind \in Optimised /\ sub \in 1 .. Len(Subs) /\ Len(Subs) \in Nat
  BY <1>1, SubsAssumption DEF SourcesInv, PlaceInv, Alive, InRun
<1>4. ModelsMatchScheme'
  <2>1. /\ decision.stamp[3] = sub
        /\ decision.profile # None => MeasuredFor(scheme, decision.profile.events)
        /\ Done("accuracy_model") => (decision.model <=> decision.pickle = "whole")
    BY <1>1 DEF SourcesInv, ComputedInv, HasDecided, Stamp
  <2>2. (\E i \in 1 .. sub : Subs[i] = "accuracy_model") => Done("accuracy_model")
    <3>1. \A i \in 1 .. sub : i = sub \/ i \in 1 .. sub - 1
      BY <1>3
    <3>2. Subs[sub] # "accuracy_model"
      BY <1>3 DEF Kind, Optimised, Direct, Estimated
    <3>3. QED
      BY <3>1, <3>2 DEF Done
  <2>3. QED
    BY <1>1, <2>1, <2>2 DEF ModelsMatchScheme, MeasuredFor
<1>5. StoreInv'
  BY <1>2 DEF SourcesInv, StoreInv, MeasuredFor
<1>6. CASE orch' = "probe" /\ UNCHANGED <<scheme, sub, mu>>
  <2>1. PlaceInv'
    BY <1>1, <1>3, <1>6 DEF SourcesInv, PlaceInv, Alive, Kind
  <2>2. FullInv' /\ ComputedInv'
    BY <1>6 DEF FullInv, ComputedInv, HasDecided
  <2>3. MemoryInv'
    BY <1>2, <1>3, <1>6 DEF SourcesInv, MemoryInv, Done, MeasuredFor
  <2>4. QED
    BY <1>4, <1>5, <2>1, <2>2, <2>3 DEF SourcesInv
<1>7. CASE NextSub
  <2>1. Kind # "profiling" /\ Kind # "accuracy_model"
    BY <1>3 DEF Optimised, Direct, Estimated
  <2>2. /\ \A s \in models : s \in DOMAIN Schemes /\ s <= scheme
        /\ scheme \in models => pickle[scheme] = "whole"
    BY <1>3 DEF SourcesInv, MemoryInv
  <2>3. QED
    BY <1>2, <1>3, <1>4, <1>5, <1>7, <2>1, <2>2, SubOver
<1>8. QED
  BY <1>6, <1>7 DEF EndSlot

LEMMA SourcesInvNext ==
    ASSUME ProfilingFirst, NodesInv, SourcesInv, [Next]_vars
    PROVE  SourcesInv'
<1>1. CASE Start
  BY <1>1, SourcesStart
<1>2. CASE Killed \/ ConfigFails \/ TornPickle
  BY <1>2, SourcesStop DEF Killed, ConfigFails, TornPickle, Dies, stored
<1>3. CASE Profiling
  BY <1>3, ReuseProfileSources, PushFullSources, ProfilingRunsSources, WriteProfileSources
     DEF Profiling
<1>4. CASE ReuseModel \/ TrainModel \/ NoSamples
  BY <1>4, ModelSources
<1>5. CASE SlotLoop
  BY <1>5, BeginRunSources, ProbeSources, StepSources, RunSlotSources, EndSlotSources DEF SlotLoop
<1>6. CASE \E n \in Nodes : WeightsAnswered(n) \/ WeightsFail(n)
  BY <1>6, SourcesIdle DEF WeightsAnswered, WeightsFail
<1>7. CASE \E n \in Nodes, p \in Pipelines : ConfigAnswered(n, p)
  BY <1>7, ConfigAnsweredSources
<1>8. CASE \E n \in Nodes : NodeRestarts(n)
  BY <1>8, NodeRestartsSources
<1>9. CASE UNCHANGED vars
  <2>1. UNCHANGED <<orch, place, starts, memory, stored, decision, pending, config, restarted, record>>
    BY <1>9 DEF vars, nodeVars
  <2>2. UNCHANGED <<scheme, sub, slot, mu, timings, artifact, pickle, profile, models>>
    BY <2>1 DEF place, memory, stored
  <2>3. StoreInv' /\ ModelsMatchScheme'
    BY <2>1, <2>2, StoreStays
  <2>4. PlaceInv' /\ FullInv'
    BY <2>1, <2>2 DEF SourcesInv, PlaceInv, FullInv, FullStamp, Alive, InRun, Kind
  <2>5. MemoryInv' /\ ComputedInv'
    BY <2>1, <2>2 DEF SourcesInv, MemoryInv, ComputedInv, Alive, HasDecided, Stamp, Done, MeasuredFor
  <2>6. QED
    BY <2>3, <2>4, <2>5 DEF SourcesInv
<1>10. QED
  BY <1>1, <1>2, <1>3, <1>4, <1>5, <1>6, <1>7, <1>8, <1>9 DEF Next, Modelling, Pushing

\* If every optimiser run has a profiling of its scheme before it, what a decision is
\* computed from was measured for its scheme and under the settings of one profiling, and
\* its surrogate is the one on disk, through crashes, repeated profiling and cached files
\* (opt_runner.py:491, :787, :1041; opt_experiment.py:591).
THEOREM ModelsBelongToTheirScheme == ProfilingFirst /\ Spec => []ModelsMatchScheme
<1> SUFFICES ASSUME ProfilingFirst
             PROVE  Spec => []ModelsMatchScheme
  OBVIOUS
<1>1. Init => NodesInv /\ SourcesInv
  BY NodesInvInit, SourcesInvInit
<1>2. NodesInv /\ SourcesInv /\ [Next]_vars => (NodesInv /\ SourcesInv)'
  BY NodesInvNext, SourcesInvNext
<1>3. SourcesInv => ModelsMatchScheme
  BY DEF SourcesInv
<1>4. QED
  BY <1>1, <1>2, <1>3, PTL DEF Spec
=============================================================================
