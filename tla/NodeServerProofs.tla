-------------------------- MODULE NodeServerProofs --------------------------
(***************************************************************************)
(* One single-model node, for any requests, updates, settings and          *)
(* restarts: the in-flight counter is exact, nobody sleeps through a       *)
(* wake-up, and the drain and the prober's idle check give what they       *)
(* promise about the order of the arrivals.                                *)
(***************************************************************************)
EXTENDS NodeServerHistory, Queues, FiniteSetTheorems, SequenceTheorems, TLAPS

-----------------------------------------------------------------------------
(* Logs that grow at the end.                                              *)

\* A newcomer stands at the end.
LEMMA AppendHolds ==
    ASSUME NEW S, NEW s \in Seq(S), NEW e \in S
    PROVE  /\ Append(s, e) \in Seq(S)
           /\ Len(Append(s, e)) = Len(s) + 1 /\ Len(s) \in Nat
           /\ Append(s, e)[Len(s) + 1] = e
           /\ \A i \in 1 .. Len(s) : Append(s, e)[i] = s[i]
           /\ \A x : Holds(Append(s, e), x) <=> Holds(s, x) \/ x = e
<1>1. /\ Append(s, e) \in Seq(S)
      /\ Len(Append(s, e)) = Len(s) + 1 /\ Len(s) \in Nat
      /\ Append(s, e)[Len(s) + 1] = e
      /\ \A i \in 1 .. Len(s) : Append(s, e)[i] = s[i]
  BY AppendProperties, LenProperties
<1> HIDE DEF Holds
<1>2. \A x : Holds(Append(s, e), x) => Holds(s, x) \/ x = e
  BY <1>1 DEF Holds
<1>3. \A x : Holds(s, x) => Holds(Append(s, e), x)
  BY <1>1 DEF Holds
<1>4. Holds(Append(s, e), e)
  BY <1>1 DEF Holds
<1>5. QED
  BY <1>1, <1>2, <1>3, <1>4

LEMMA AppendDistinct ==
    ASSUME NEW S, NEW s \in Seq(S), NEW e \in S, Distinct(s), ~ Holds(s, e)
    PROVE  Distinct(Append(s, e))
<1>1. \A i \in 1 .. Len(s) : s[i] # e
  BY DEF Holds
<1>2. QED
  BY <1>1, AppendHolds DEF Distinct

-----------------------------------------------------------------------------
(* Type correctness.                                                       *)

\* Handlers wait only for a direction that the node knows.
LineInv == InLine /\ \A u \in Pending : Direction[u] \in Directions

LEMMA DecrementType ==
    ASSUME TypeOK, Decrement
    PROVE  /\ inFlight' \in Nat /\ idleEvent' \in BOOLEAN
           /\ update' \in [Updates -> UpdateStages] /\ probe' \in ProbeStages
           /\ ahead' \in [Updates -> SUBSET Updates]
<1>1. inFlight' \in Nat
  BY DEF TypeOK, Decrement
<1>2. CASE inFlight' = 0
  <2>1. Wake
    BY <1>2 DEF Decrement
  <2>2. ahead' \in [Updates -> SUBSET Updates]
    <3>1. Ready \subseteq Updates
      BY DEF Ready
    <3>2. QED
      BY <2>1, <3>1 DEF TypeOK, Wake
  <2>3. QED
    BY <1>1, <1>2, <2>1, <2>2 DEF TypeOK, Decrement, Wake, UpdateStages, ProbeStages
<1>3. CASE inFlight' # 0
  BY <1>1, <1>3 DEF TypeOK, Decrement
<1>4. QED
  BY <1>2, <1>3

LEMMA TypeInit == Init => TypeOK
BY NodeServerAssumption, EmptySeq
   DEF Init, TypeOK, RequestStages, UpdateStages, ProbeStages

LEMMA TypeStep == TypeOK /\ LineInv /\ [Next]_vars => TypeOK'
<1> SUFFICES ASSUME TypeOK, LineInv, [Next]_vars
             PROVE  TypeOK'
  OBVIOUS
<1> USE DEF RequestStages, UpdateStages, ProbeStages
<1>1. ASSUME NEW r \in Requests, Infer(r)
      PROVE  TypeOK'
  <2>1. inFlight' \in Nat /\ idleEvent' = FALSE
    BY <1>1 DEF TypeOK, Infer, Increment
  <2>2. stage' \in [Requests -> RequestStages]
    BY <1>1 DEF TypeOK, Infer
  <2>3. QED
    BY <1>1, <2>1, <2>2 DEF TypeOK, Infer
<1>2. ASSUME NEW r \in Requests, Process(r)
      PROVE  TypeOK'
  BY <1>2 DEF TypeOK, Process
<1>3. ASSUME NEW r \in Requests, Raise(r) \/ SendReturns(r)
      PROVE  TypeOK'
  <2>1. /\ Decrement /\ stage' = [stage EXCEPT ![r] = "finished"]
        /\ UNCHANGED <<config, restarts>>
    BY <1>3 DEF Raise, SendReturns
  <2>2. QED
    BY <2>1, DecrementType DEF TypeOK
<1>4. ASSUME NEW u \in Updates, RejectDirection(u)
      PROVE  TypeOK'
  BY <1>4 DEF TypeOK, RejectDirection
<1>5. ASSUME NEW u \in Updates, PostConfig(u)
      PROVE  TypeOK'
  BY <1>5 DEF TypeOK, PostConfig, Ready
<1>6. ASSUME NEW u \in Updates, LookAtEvent(u) \/ ApplyConfig(u) \/ DrainTimeout(u)
      PROVE  TypeOK'
  <2>1. ahead' \in [Updates -> SUBSET Updates]
    <3>1. AheadWithout(u) \in [Updates -> SUBSET Updates] /\ Blocked \subseteq Updates
      BY DEF TypeOK, AheadWithout, Blocked
    <3>2. ahead' \in {ahead, AheadWithout(u),
                     [AheadWithout(u) EXCEPT ![u] = Blocked \cap SameDirection(u)]}
      BY <1>6 DEF LookAtEvent, ApplyConfig, DrainTimeout
    <3>3. QED
      BY <3>1, <3>2 DEF TypeOK
  <2>2. update' \in [Updates -> UpdateStages]
    BY <1>6 DEF TypeOK, LookAtEvent, ApplyConfig, DrainTimeout
  <2>3. config' \in [Directions -> Configs]
    BY <1>6, NodeServerAssumption DEF TypeOK, LookAtEvent, ApplyConfig, DrainTimeout
  <2>4. QED
    BY <1>6, <2>1, <2>2, <2>3 DEF TypeOK, LookAtEvent, ApplyConfig, DrainTimeout
<1>7. ASSUME Probing
      PROVE  TypeOK'
  BY <1>7 DEF TypeOK, Probing, ProbeCheck, ProbeRtt, ProbeEnds, ProbeSleepEnds, TopOfLoop
<1>8. ASSUME Restart
      PROVE  TypeOK'
  BY <1>8, NodeServerAssumption, EmptySeq DEF TypeOK, Restart
<1>9. CASE UNCHANGED vars
  BY <1>9 DEF TypeOK, vars
<1>10. QED
  BY <1>1, <1>2, <1>3, <1>4, <1>5, <1>6, <1>7, <1>8, <1>9 DEF Next, Processing, Updating

-----------------------------------------------------------------------------
(* The counter, the event and the wake-ups.                                *)

\* The counter counts a finite set, and nobody is blocked on a set event.
CounterInv == IsFiniteSet(InFlight) /\ CounterExact /\ NoneBlocked

LEMMA CounterKept ==
    ASSUME TypeOK, CounterInv, InFlight' = InFlight,
           UNCHANGED <<inFlight, idleEvent>>,
           idleEvent => probe' # "waitIdle" /\ Blocked' = {}
    PROVE  CounterInv'
<1>1. IsFiniteSet(InFlight)' /\ CounterExact'
  BY DEF CounterInv, CounterExact
<1>2. NoneBlocked'
  BY DEF NoneBlocked
<1>3. QED
  BY <1>1, <1>2 DEF CounterInv

\* The finally clause of one request.
LEMMA DecrementCounts ==
    ASSUME TypeOK, CounterInv, NEW r \in InFlight, Decrement,
           stage' = [stage EXCEPT ![r] = "finished"]
    PROVE  CounterInv' /\ (idleEvent' \/ UNCHANGED <<update, ahead, probe>>)
<1>1. InFlight' = InFlight \ {r}
  BY DEF InFlight, TypeOK
<1>2. /\ IsFiniteSet(InFlight) /\ inFlight = Cardinality(InFlight)
      /\ inFlight \in Nat /\ (idleEvent <=> inFlight = 0)
      /\ idleEvent \in BOOLEAN
  BY DEF CounterInv, CounterExact, TypeOK
<1>3. /\ IsFiniteSet(InFlight \ {r})
      /\ Cardinality(InFlight \ {r}) = Cardinality(InFlight) - 1
  BY <1>2, FS_RemoveElement
<1>4. inFlight # 0
  BY <1>2, FS_EmptySet
<1>5. inFlight' = inFlight - 1
  BY <1>2, <1>4 DEF Decrement
<1>6. CASE inFlight' = 0
  <2>1. idleEvent' = TRUE /\ Wake
    BY <1>6 DEF Decrement
  <2>2. probe' # "waitIdle" /\ Blocked' = {}
    BY <2>1 DEF Wake, TypeOK, Blocked
  <2>3. IsFiniteSet(InFlight)' /\ CounterExact'
    BY <1>1, <1>2, <1>3, <1>5, <1>6, <2>1 DEF CounterExact
  <2>4. QED
    BY <2>1, <2>2, <2>3 DEF CounterInv, NoneBlocked
<1>7. CASE inFlight' # 0
  <2>1. ~ idleEvent /\ UNCHANGED <<idleEvent, update, ahead, probe>>
    BY <1>2, <1>4, <1>7 DEF Decrement
  <2>2. IsFiniteSet(InFlight)' /\ CounterExact'
    BY <1>1, <1>2, <1>3, <1>5, <1>7, <2>1 DEF CounterExact
  <2>3. QED
    BY <2>1, <2>2 DEF CounterInv, NoneBlocked, Blocked
<1>8. QED
  BY <1>6, <1>7

\* An update's handler is woken, or the process is new: what Next does to the
\* requests a node holds.
LEMMA CounterInit == Init => CounterInv
<1> SUFFICES ASSUME Init
             PROVE  CounterInv
  OBVIOUS
<1>1. InFlight = {}
  BY DEF Init, InFlight
<1>2. IsFiniteSet(InFlight) /\ Cardinality(InFlight) = 0
  BY <1>1, FS_EmptySet
<1>3. NoneBlocked
  BY DEF NoneBlocked, Blocked, Init
<1>4. QED
  BY <1>2, <1>3 DEF CounterInv, CounterExact, Init

LEMMA CounterStep == TypeOK /\ CounterInv /\ [Next]_vars => CounterInv'
<1> SUFFICES ASSUME TypeOK, CounterInv, [Next]_vars
             PROVE  CounterInv'
  OBVIOUS
<1>1. ASSUME NEW r \in Requests, Infer(r)
      PROVE  CounterInv'
  <2>1. InFlight' = InFlight \cup {r} /\ r \notin InFlight
    BY <1>1 DEF InFlight, Infer, TypeOK
  <2>2. IsFiniteSet(InFlight) /\ inFlight = Cardinality(InFlight) /\ inFlight \in Nat
    BY DEF CounterInv, CounterExact, TypeOK
  <2>3. /\ IsFiniteSet(InFlight \cup {r})
        /\ Cardinality(InFlight \cup {r}) = Cardinality(InFlight) + 1
    BY <2>1, <2>2, FS_AddElement
  <2>4. inFlight' = inFlight + 1 /\ idleEvent' = FALSE
    BY <1>1 DEF Infer, Increment
  <2>5. CounterExact'
    BY <2>1, <2>2, <2>3, <2>4 DEF CounterExact
  <2>6. QED
    BY <2>1, <2>3, <2>4, <2>5 DEF CounterInv, NoneBlocked
<1>2. ASSUME NEW r \in Requests, Process(r)
      PROVE  CounterInv'
  <2>1. InFlight' = InFlight
    BY <1>2 DEF Process, InFlight, TypeOK
  <2>2. QED
    BY <1>2, <2>1, CounterKept DEF Process, CounterInv, NoneBlocked, Blocked
<1>3. ASSUME NEW r \in Requests, Raise(r) \/ SendReturns(r)
      PROVE  CounterInv'
  BY <1>3, DecrementCounts DEF Raise, SendReturns, InFlight
<1>4. ASSUME NEW u \in Updates,
             \/ RejectDirection(u) \/ PostConfig(u) \/ LookAtEvent(u)
             \/ ApplyConfig(u) \/ DrainTimeout(u)
      PROVE  CounterInv'
  <2>1. UNCHANGED <<inFlight, idleEvent, stage, probe>>
    BY <1>4 DEF RejectDirection, PostConfig, LookAtEvent, ApplyConfig, DrainTimeout
  <2>2. idleEvent => Blocked' \subseteq Blocked
    BY <1>4 DEF TypeOK, RejectDirection, PostConfig, LookAtEvent, ApplyConfig, DrainTimeout, Blocked
  <2>3. QED
    BY <2>1, <2>2, CounterKept DEF CounterInv, NoneBlocked, InFlight
<1>5. ASSUME Probing
      PROVE  CounterInv'
  <2>1. UNCHANGED <<inFlight, idleEvent, stage, update>> /\ (idleEvent => probe' # "waitIdle")
    BY <1>5 DEF Probing, ProbeCheck, ProbeRtt, ProbeEnds, ProbeSleepEnds, TopOfLoop
  <2>2. QED
    BY <2>1, CounterKept DEF CounterInv, NoneBlocked, InFlight, Blocked
<1>6. ASSUME Restart
      PROVE  CounterInv'
  <2>1. InFlight' = {} /\ inFlight' = 0 /\ idleEvent' = TRUE
    BY <1>6 DEF Restart, InFlight
  <2>2. NoneBlocked'
    BY <1>6 DEF Restart, NoneBlocked, Blocked, Pending
  <2>3. QED
    BY <2>1, <2>2, FS_EmptySet DEF CounterInv, CounterExact
<1>7. CASE UNCHANGED vars
  BY <1>7, CounterKept DEF vars, InFlight, CounterInv, NoneBlocked, Blocked
<1>8. QED
  BY <1>1, <1>2, <1>3, <1>4, <1>5, <1>6, <1>7 DEF Next, Processing, Updating

-----------------------------------------------------------------------------
(* The line of update handlers.                                            *)

LEMMA LineInit == Init => LineInv
BY DEF Init, LineInv, InLine, Ready, Blocked, Pending

\* The blocked handlers go to the end of the line.
LEMMA WakeKeepsLine ==
    ASSUME TypeOK, LineInv, Wake
    PROVE  LineInv'
<1>1. /\ Ready' = Pending /\ Blocked' = {} /\ Pending' = Pending
      /\ Ready \cap Blocked = {}
  BY DEF Wake, Ready, Blocked, Pending, TypeOK
<1>2. \A u \in Updates : ahead'[u] = IF u \in Blocked THEN ahead[u] \cup (Ready \cap SameDirection(u))
                                     ELSE ahead[u]
  BY DEF Wake
<1>3. \A u \in Updates : SameDirection(u)' = SameDirection(u)
  BY DEF SameDirection
<1>4. \A u, v \in Updates : u \in SameDirection(v) <=> v \in SameDirection(u)
  BY DEF SameDirection
<1>5. \A u \in Updates : ahead'[u] \subseteq IF u \in Ready' THEN Ready'
                                             ELSE IF u \in Blocked' THEN Blocked' ELSE {}
  <2> SUFFICES ASSUME NEW u \in Updates
               PROVE  ahead'[u] \subseteq IF u \in Pending THEN Pending ELSE {}
    BY <1>1
  <2>1. ahead[u] \subseteq IF u \in Ready THEN Ready ELSE IF u \in Blocked THEN Blocked ELSE {}
    BY DEF LineInv, InLine
  <2>2. CASE u \in Blocked
    BY <1>2, <2>1, <2>2 DEF Pending
  <2>3. CASE u \notin Blocked
    BY <1>2, <2>1, <2>3 DEF Pending
  <2>4. QED
    BY <2>2, <2>3
<1>6. ASSUME NEW u \in Pending, NEW v \in SameDirection(u) \ {u}, v \in Pending
      PROVE  u \in ahead'[v] <=> v \notin ahead'[u]
  <2>1. u \in Updates /\ v \in Updates /\ u \in SameDirection(v)
    BY <1>4 DEF Pending, Ready, Blocked, SameDirection
  <2>2. /\ ahead'[u] = IF u \in Blocked THEN ahead[u] \cup (Ready \cap SameDirection(u)) ELSE ahead[u]
        /\ ahead'[v] = IF v \in Blocked THEN ahead[v] \cup (Ready \cap SameDirection(v)) ELSE ahead[v]
    BY <1>2, <2>1
  <2>3. /\ u \in Ready => ahead[u] \subseteq Ready
        /\ v \in Ready => ahead[v] \subseteq Ready
    BY <2>1 DEF LineInv, InLine
  <2>4. CASE (u \in Ready /\ v \in Ready) \/ (u \in Blocked /\ v \in Blocked)
    <3>1. u \in ahead[v] <=> v \notin ahead[u]
      BY <2>4 DEF LineInv, InLine
    <3>2. QED
      BY <1>1, <2>2, <2>4, <3>1
  <2>5. CASE u \in Ready /\ v \in Blocked
    BY <1>1, <2>1, <2>2, <2>3, <2>5
  <2>6. CASE u \in Blocked /\ v \in Ready
    BY <1>1, <2>1, <2>2, <2>3, <2>6
  <2>7. QED
    BY <1>6, <2>4, <2>5, <2>6 DEF Pending
<1>7. QED
  BY <1>1, <1>3, <1>5, <1>6 DEF LineInv, InLine

LEMMA PostKeepsLine ==
    ASSUME TypeOK, LineInv, NEW u \in Updates, PostConfig(u)
    PROVE  LineInv'
<1>1. /\ Ready' = Ready \cup {u} /\ Blocked' = Blocked /\ Pending' = Pending \cup {u}
      /\ u \notin Pending
  BY DEF PostConfig, Ready, Blocked, Pending, TypeOK
<1>2. /\ ahead'[u] = Ready \cap SameDirection(u)
      /\ \A v \in Updates \ {u} : ahead'[v] = ahead[v]
  BY DEF PostConfig, TypeOK
<1>3. \A v \in Updates : u \notin ahead[v]
  BY <1>1 DEF LineInv, InLine, Pending
<1>4. \A v \in Updates : SameDirection(v)' = SameDirection(v)
  BY DEF SameDirection
<1>5. \A v \in Updates : ahead'[v] \subseteq IF v \in Ready' THEN Ready'
                                             ELSE IF v \in Blocked' THEN Blocked' ELSE {}
  BY <1>1, <1>2 DEF LineInv, InLine, Pending
<1>6. ASSUME NEW v \in Pending', NEW w \in SameDirection(v) \ {v},
             (v \in Ready' /\ w \in Ready') \/ (v \in Blocked' /\ w \in Blocked')
      PROVE  v \in ahead'[w] <=> w \notin ahead'[v]
  <2>1. v \in Updates /\ w \in Updates /\ v \in SameDirection(w)
    BY <1>1 DEF Pending, Ready, Blocked, SameDirection
  <2>2. CASE v # u /\ w # u
    BY <1>1, <1>2, <1>6, <2>1, <2>2 DEF LineInv, InLine
  <2>3. CASE v = u \/ w = u
    BY <1>1, <1>2, <1>3, <1>6, <2>1, <2>3 DEF Pending
  <2>4. QED
    BY <2>2, <2>3
<1>7. Direction[u] \in Directions
  BY DEF PostConfig
<1>8. QED
  BY <1>1, <1>4, <1>5, <1>6, <1>7 DEF LineInv, InLine

\* A handler that leaves its place, because it blocks or for good.
LEMMA LeavingKeepsLine ==
    ASSUME TypeOK, LineInv, NEW u \in Pending,
           Ready' = Ready \ {u}, Blocked' \in {Blocked \ {u}, Blocked \cup {u}},
           \A v \in Updates \ {u} : ahead'[v] = ahead[v] \ {u},
           ahead'[u] = IF u \in Blocked' THEN Blocked \cap SameDirection(u) ELSE {},
           u \in Blocked' => u \notin Blocked
    PROVE  LineInv'
<1>1. Ready' \cap Blocked' = {} /\ u \in Updates /\ Ready \cap Blocked = {}
  BY DEF Ready, Blocked, Pending
<1>2. \A v \in Updates : SameDirection(v)' = SameDirection(v)
  BY DEF SameDirection
<1>3. \A v \in Updates : ahead'[v] \subseteq IF v \in Ready' THEN Ready'
                                             ELSE IF v \in Blocked' THEN Blocked' ELSE {}
  <2> SUFFICES ASSUME NEW v \in Updates
               PROVE  ahead'[v] \subseteq IF v \in Ready' THEN Ready'
                                          ELSE IF v \in Blocked' THEN Blocked' ELSE {}
    OBVIOUS
  <2>1. CASE v = u
    BY <2>1
  <2>2. CASE v # u
    BY <2>2 DEF LineInv, InLine
  <2>3. QED
    BY <2>1, <2>2
<1>4. ASSUME NEW v \in Pending', NEW w \in SameDirection(v) \ {v},
             (v \in Ready' /\ w \in Ready') \/ (v \in Blocked' /\ w \in Blocked')
      PROVE  v \in ahead'[w] <=> w \notin ahead'[v]
  <2>1. v \in Updates /\ w \in Updates /\ v \in SameDirection(w)
    BY DEF Pending, Ready, Blocked, SameDirection
  <2>2. CASE v # u /\ w # u
    <3>1. v \in Pending
      BY <1>4, <2>2 DEF Pending
    <3>2. QED
      BY <1>4, <2>1, <2>2, <3>1 DEF LineInv, InLine
  <2>3. CASE v = u
    BY <1>4, <2>1, <2>3
  <2>4. CASE w = u
    BY <1>4, <2>1, <2>4
  <2>5. QED
    BY <2>2, <2>3, <2>4
<1>5. \A v \in Pending' : Direction[v] \in Directions
  BY DEF LineInv, Pending
<1>6. QED
  BY <1>2, <1>3, <1>4, <1>5 DEF LineInv, InLine

LEMMA UpdatingKeepsLine ==
    ASSUME TypeOK, LineInv, NEW u \in Updates,
           LookAtEvent(u) \/ ApplyConfig(u) \/ DrainTimeout(u)
    PROVE  LineInv'
<1>1. CASE LookAtEvent(u) /\ idleEvent
  <2>1. Ready' = Ready /\ Blocked' = Blocked /\ Pending' = Pending /\ UNCHANGED ahead
    BY <1>1 DEF LookAtEvent, Ready, Blocked, Pending, TypeOK
  <2>2. QED
    BY <2>1 DEF LineInv, InLine, SameDirection
<1>2. CASE LookAtEvent(u) /\ ~ idleEvent
  <2>1. /\ u \in Pending /\ Ready' = Ready \ {u} /\ Blocked' = Blocked \cup {u}
        /\ u \notin Blocked
    BY <1>2 DEF LookAtEvent, Ready, Blocked, Pending, TypeOK
  <2>2. /\ \A v \in Updates \ {u} : ahead'[v] = ahead[v] \ {u}
        /\ ahead'[u] = Blocked \cap SameDirection(u)
    BY <1>2 DEF LookAtEvent, AheadWithout
  <2>3. QED
    BY <2>1, <2>2, LeavingKeepsLine
<1>3. CASE ApplyConfig(u) \/ DrainTimeout(u)
  <2>1. u \in Pending /\ Ready' = Ready \ {u} /\ Blocked' = Blocked \ {u}
    BY <1>3 DEF ApplyConfig, DrainTimeout, Ready, Blocked, Pending, TypeOK
  <2>2. (\A v \in Updates \ {u} : ahead'[v] = ahead[v] \ {u}) /\ ahead'[u] = {}
    BY <1>3 DEF ApplyConfig, DrainTimeout, AheadWithout
  <2>3. QED
    BY <2>1, <2>2, LeavingKeepsLine
<1>4. QED
  BY <1>1, <1>2, <1>3

LEMMA SameLine ==
    ASSUME LineInv, Ready' = Ready, Blocked' = Blocked, UNCHANGED ahead
    PROVE  LineInv'
BY DEF LineInv, InLine, SameDirection, Pending

LEMMA LineStep == TypeOK /\ LineInv /\ [Next]_vars => LineInv'
<1> SUFFICES ASSUME TypeOK, LineInv, [Next]_vars
             PROVE  LineInv'
  OBVIOUS
<1>1. CASE UNCHANGED <<update, ahead>>
  BY <1>1, SameLine DEF Ready, Blocked
<1>2. ASSUME NEW r \in Requests, Infer(r) \/ Process(r)
      PROVE  UNCHANGED <<update, ahead>>
  BY <1>2 DEF Infer, Process
<1>3. ASSUME NEW r \in Requests, Raise(r) \/ SendReturns(r)
      PROVE  LineInv'
  BY <1>1, <1>3, WakeKeepsLine DEF Raise, SendReturns, Decrement
<1>4. ASSUME NEW u \in Updates, RejectDirection(u)
      PROVE  LineInv'
  <2>1. Ready' = Ready /\ Blocked' = Blocked /\ UNCHANGED ahead
    BY <1>4 DEF RejectDirection, Ready, Blocked, TypeOK
  <2>2. QED
    BY <2>1, SameLine
<1>5. ASSUME NEW u \in Updates, PostConfig(u)
      PROVE  LineInv'
  BY <1>5, PostKeepsLine
<1>6. ASSUME NEW u \in Updates, LookAtEvent(u) \/ ApplyConfig(u) \/ DrainTimeout(u)
      PROVE  LineInv'
  BY <1>6, UpdatingKeepsLine
<1>7. CASE Probing \/ UNCHANGED vars
  BY <1>1, <1>7 DEF Probing, ProbeCheck, ProbeRtt, ProbeEnds, ProbeSleepEnds, vars
<1>8. CASE Restart
  <2>1. Ready' = {} /\ Blocked' = {} /\ ahead' = [u \in Updates |-> {}]
    BY <1>8 DEF Restart, Ready, Blocked, Pending
  <2>2. QED
    BY <2>1 DEF LineInv, InLine, Pending
<1>9. QED
  BY <1>1, <1>2, <1>3, <1>4, <1>5, <1>6, <1>7, <1>8 DEF Next, Processing, Updating

-----------------------------------------------------------------------------
(* The theorems about NodeServer alone.                                    *)

NodeInv == TypeOK /\ CounterInv /\ LineInv

LEMMA NodeInvInit == Init => NodeInv
BY TypeInit, CounterInit, LineInit DEF NodeInv

LEMMA NodeInvStep == NodeInv /\ [Next]_vars => NodeInv'
BY TypeStep, CounterStep, LineStep DEF NodeInv

\* The variables keep their types; in particular the counter never runs below
\* zero.
THEOREM TypeCorrect == Spec => []TypeOK
<1>1. NodeInv => TypeOK
  BY DEF NodeInv
<1>2. QED
  BY NodeInvInit, NodeInvStep, <1>1, PTL DEF Spec

\* What GET /status and the drain rely on (server.py, NodeState): the counter of
\* the requests in flight is exact and the event says whether it is zero, through
\* exceptions, timed out sends and restarts, for any number of requests.
THEOREM CounterIsExact == Spec => []CounterExact
<1>1. NodeInv => CounterExact
  BY DEF NodeInv, CounterInv
<1>2. QED
  BY NodeInvInit, NodeInvStep, <1>1, PTL DEF Spec

\* No update handler and no prober stays blocked on an event that is set, and no
\* handler stands behind one that is still blocked or gone, however often the
\* event is cleared between a wake-up and the step that it allows.
THEOREM WakeupsAreNotLost == Spec => []NoLostWakeup
<1>1. NodeInv => NoLostWakeup
  BY DEF NodeInv, CounterInv, LineInv, NoLostWakeup
<1>2. QED
  BY NodeInvInit, NodeInvStep, <1>1, PTL DEF Spec

-----------------------------------------------------------------------------
(* The order of the arrivals.                                              *)

Items == Requests \cup Updates

\* What has arrived since the process started, each once; every handler that is
\* not answered is among it.
ArrivalsInv ==
    /\ arrivals \in Seq(Items)
    /\ Distinct(arrivals)
    /\ \A r \in Requests : Holds(arrivals, r) => stage[r] # "absent"
    /\ \A u \in Updates : Holds(arrivals, u) => update[u] # "absent"
    /\ \A u \in Pending : Holds(arrivals, u)

\* What holds of an update w and a later one u of the same direction: u goes no
\* further than w, unless it passes w when w is woken.
InOrder(w, u) ==
    /\ w \in Pending /\ u \in Pending /\ u \in ahead[w] => w \in passed[u]
    /\ w \in Pending /\ update[u] = "applied" => w \in passed[u]
    /\ w \in Blocked => update[u] \notin {"woken", "drained", "applied"}
    /\ update[w] = "posted" => update[u] \in {"posted", "rejected"}
    /\ update[w] = "posted" /\ update[u] = "posted" => w \in ahead[u]
    /\ w \in Blocked /\ u \in Blocked => w \in ahead[u]

OrderInv ==
    /\ passed \in [Updates -> SUBSET Updates]
    /\ \A w \in Updates : \A u \in SameDirection(w) : Earlier(w, u) => InOrder(w, u)

ProbeInv == probedAt \in 0 .. Len(arrivals) /\ ProbeStartsIdle

\* What one step does to the log: it grows by what arrived, starts anew with the
\* process, or stays.
LEMMA LogInfer ==
    ASSUME TypeOK, NEW r \in Requests, Infer(r), Log
    PROVE  arrivals' = Append(arrivals, r)
<1>1. restarts' = restarts /\ Arriving(r) /\ \A x \in Requests \ {r} : ~ Arriving(x)
  BY DEF Infer, Arriving, TypeOK
<1>2. (CHOOSE x \in Requests : Arriving(x)) = r
  BY <1>1
<1>3. \A x \in Updates : ~ Enqueued(x)
  BY DEF Infer, Enqueued
<1>4. QED
  BY <1>1, <1>2, <1>3 DEF Log

LEMMA LogPost ==
    ASSUME TypeOK, NEW u \in Updates, PostConfig(u), Log
    PROVE  arrivals' = Append(arrivals, u)
<1>1. restarts' = restarts /\ Enqueued(u) /\ \A x \in Updates \ {u} : ~ Enqueued(x)
  BY DEF PostConfig, Enqueued, TypeOK
<1>2. (CHOOSE x \in Updates : Enqueued(x)) = u
  BY <1>1
<1>3. \A x \in Requests : ~ Arriving(x)
  BY DEF PostConfig, Arriving
<1>4. QED
  BY <1>1, <1>2, <1>3 DEF Log

\* The steps at which nothing arrives.
Quiet ==
    \/ UNCHANGED vars
    \/ Probing
    \/ Updating
    \/ Processing
    \/ \E u \in Updates : RejectDirection(u)

LEMMA QuietUpdates ==
    ASSUME TypeOK, Quiet
    PROVE  /\ UNCHANGED restarts
           /\ \A r \in Requests : (stage[r] = "absent" <=> stage'[r] = "absent")
                                  /\ (stage[r] = "finished" => stage'[r] = "finished")
           /\ \A u \in Updates : update[u] = "absent" =>
                                    update'[u] = "absent" \/ update'[u] = "rejected"
           /\ \A u \in Updates : update'[u] = "absent" => update[u] = "absent"
<1>1. CASE UNCHANGED vars \/ Probing
  BY <1>1 DEF vars, Probing, ProbeCheck, ProbeRtt, ProbeEnds, ProbeSleepEnds
<1>2. CASE Updating \/ \E u \in Updates : RejectDirection(u)
  BY <1>2 DEF Updating, LookAtEvent, ApplyConfig, DrainTimeout, RejectDirection, TypeOK
<1>3. ASSUME NEW r \in Requests, Process(r)
      PROVE  /\ UNCHANGED <<restarts, update>>
             /\ \A x \in Requests : (stage[x] = "absent" <=> stage'[x] = "absent")
                                    /\ (stage[x] = "finished" => stage'[x] = "finished")
  BY <1>3 DEF Process, TypeOK
<1>4. ASSUME NEW r \in Requests, Raise(r) \/ SendReturns(r)
      PROVE  /\ UNCHANGED restarts
             /\ \A x \in Requests : (stage[x] = "absent" <=> stage'[x] = "absent")
                                    /\ (stage[x] = "finished" => stage'[x] = "finished")
             /\ \A u \in Updates : update[u] = "absent" <=> update'[u] = "absent"
  BY <1>4 DEF Raise, SendReturns, Decrement, Wake, Blocked, TypeOK
<1>5. QED
  BY <1>1, <1>2, <1>3, <1>4 DEF Quiet, Processing

LEMMA LogQuiet ==
    ASSUME TypeOK, Quiet, Log
    PROVE  arrivals' = arrivals
<1>1. \A r \in Requests : ~ Arriving(r)
  BY QuietUpdates DEF Arriving
<1>2. \A u \in Updates : ~ Enqueued(u)
  BY QuietUpdates DEF Enqueued
<1>3. QED
  BY <1>1, <1>2, QuietUpdates DEF Log

LEMMA LogRestart ==
    ASSUME TypeOK, Restart, Log
    PROVE  arrivals' = <<>>
<1>1. restarts' # restarts
  BY DEF Restart, TypeOK
<1>2. \A r \in Requests : ~ Arriving(r)
  BY DEF Restart, Arriving
<1>3. \A u \in Updates : ~ Enqueued(u)
  BY DEF Restart, Enqueued, Pending, Ready, Blocked
<1>4. QED
  BY <1>1, <1>2, <1>3 DEF Log

LEMMA StepKinds ==
    ASSUME [Next]_vars
    PROVE  \/ \E r \in Requests : Infer(r)
           \/ \E u \in Updates : PostConfig(u)
           \/ Quiet
           \/ Restart
BY DEF Next, Quiet

\* An idle node has finished whatever it has accepted.
AllFinished == \A i \in 1 .. Len(arrivals) :
                   arrivals[i] \in Requests => stage[arrivals[i]] = "finished"

LEMMA IdleFinished ==
    NodeInv /\ ArrivalsInv /\ (idleEvent \/ inFlight = 0) => AllFinished
<1> SUFFICES ASSUME NodeInv, ArrivalsInv, idleEvent \/ inFlight = 0,
                    NEW i \in 1 .. Len(arrivals), arrivals[i] \in Requests
             PROVE  stage[arrivals[i]] = "finished"
  BY DEF AllFinished
<1>1. IsFiniteSet(InFlight) /\ Cardinality(InFlight) = 0
  BY DEF NodeInv, CounterInv, CounterExact
<1>2. InFlight = {}
  BY <1>1, FS_EmptySet
<1>3. stage[arrivals[i]] # "absent"
  BY DEF ArrivalsInv, Holds
<1>4. QED
  BY <1>2, <1>3 DEF InFlight, NodeInv, TypeOK, RequestStages

\* The four kinds of steps, with the log.
LEMMA HistoryKinds ==
    ASSUME TypeOK, [HNext]_hvars
    PROVE  \/ \E r \in Requests : Infer(r) /\ arrivals' = Append(arrivals, r)
           \/ \E u \in Updates : PostConfig(u) /\ arrivals' = Append(arrivals, u)
           \/ Quiet /\ arrivals' = arrivals
           \/ Restart /\ arrivals' = <<>>
<1>1. CASE HNext
  <2>1. [Next]_vars /\ Log
    BY <1>1 DEF HNext
  <2>2. QED
    BY <2>1, StepKinds, LogInfer, LogPost, LogQuiet, LogRestart
<1>2. CASE UNCHANGED hvars
  BY <1>2 DEF hvars, Quiet
<1>3. QED
  BY <1>1, <1>2

LEMMA HStepIsStep == [HNext]_hvars => [Next]_vars
BY DEF HNext, hvars

\* While the process lives no handler that was not pending becomes so, but by
\* PostConfig.
LEMMA QuietPending ==
    ASSUME TypeOK, Quiet
    PROVE  Pending' \subseteq Pending
<1>1. ASSUME NEW r \in Requests, Raise(r) \/ SendReturns(r)
      PROVE  Pending' \subseteq Pending
  BY <1>1 DEF Raise, SendReturns, Decrement, Wake, Pending, Ready, Blocked, TypeOK
<1>2. ASSUME NEW u \in Updates,
             LookAtEvent(u) \/ ApplyConfig(u) \/ DrainTimeout(u) \/ RejectDirection(u)
      PROVE  Pending' \subseteq Pending
  BY <1>2 DEF LookAtEvent, ApplyConfig, DrainTimeout, RejectDirection, Pending, Ready, Blocked, TypeOK
<1>3. CASE UNCHANGED update
  BY <1>3 DEF Pending, Ready, Blocked
<1>4. QED
  BY <1>1, <1>2, <1>3 DEF Quiet, vars, Probing, ProbeCheck, ProbeRtt, ProbeEnds,
         ProbeSleepEnds, Updating, Processing, Process

LEMMA ArrivalsInit == HInit => ArrivalsInv
<1> SUFFICES ASSUME HInit
             PROVE  ArrivalsInv
  OBVIOUS
<1>1. arrivals \in Seq(Items) /\ Len(arrivals) = 0
  BY EmptySeq DEF HInit
<1>2. Pending = {}
  BY DEF HInit, Init, Pending, Ready, Blocked
<1>3. QED
  BY <1>1, <1>2 DEF ArrivalsInv, Distinct, Holds

LEMMA ArrivalsStep == NodeInv /\ ArrivalsInv /\ [HNext]_hvars => ArrivalsInv'
<1> SUFFICES ASSUME NodeInv, ArrivalsInv, [HNext]_hvars
             PROVE  ArrivalsInv'
  OBVIOUS
<1>0. /\ TypeOK /\ arrivals \in Seq(Items) /\ Distinct(arrivals)
  BY DEF NodeInv, ArrivalsInv
<1>1. ASSUME NEW r \in Requests, Infer(r), arrivals' = Append(arrivals, r)
      PROVE  ArrivalsInv'
  <2>1. /\ stage[r] = "absent" /\ stage'[r] = "accepted"
        /\ \A x \in Requests \ {r} : stage'[x] = stage[x]
        /\ UNCHANGED update
    BY <1>0, <1>1 DEF Infer, TypeOK
  <2>2. ~ Holds(arrivals, r)
    BY <2>1 DEF ArrivalsInv
  <2>3. r \in Items /\ r \notin Updates
    BY HistoryAssumption DEF Items
  <2>4. arrivals' \in Seq(Items) /\ Distinct(arrivals')
    BY <1>0, <1>1, <2>2, <2>3, AppendHolds, AppendDistinct
  <2>5. \A x : Holds(arrivals', x) <=> Holds(arrivals, x) \/ x = r
    BY <1>0, <1>1, <2>3, AppendHolds
  <2>6. QED
    BY <2>1, <2>3, <2>4, <2>5 DEF ArrivalsInv, Pending, Ready, Blocked
<1>2. ASSUME NEW u \in Updates, PostConfig(u), arrivals' = Append(arrivals, u)
      PROVE  ArrivalsInv'
  <2>1. /\ update[u] = "absent" /\ update'[u] # "absent"
        /\ \A v \in Updates \ {u} : update'[v] = update[v]
        /\ UNCHANGED stage
    BY <1>0, <1>2 DEF PostConfig, TypeOK
  <2>2. ~ Holds(arrivals, u)
    BY <2>1 DEF ArrivalsInv
  <2>3. u \in Items /\ u \notin Requests
    BY HistoryAssumption DEF Items
  <2>4. arrivals' \in Seq(Items) /\ Distinct(arrivals')
    BY <1>0, <1>2, <2>2, <2>3, AppendHolds, AppendDistinct
  <2>5. \A x : Holds(arrivals', x) <=> Holds(arrivals, x) \/ x = u
    BY <1>0, <1>2, <2>3, AppendHolds
  <2>6. QED
    BY <2>1, <2>3, <2>4, <2>5 DEF ArrivalsInv, Pending, Ready, Blocked
<1>3. ASSUME Quiet, arrivals' = arrivals
      PROVE  ArrivalsInv'
  <2>1. Pending' \subseteq Pending
    BY <1>0, <1>3, QuietPending
  <2>2. QED
    BY <1>0, <1>3, <2>1, QuietUpdates DEF ArrivalsInv
<1>4. ASSUME Restart, arrivals' = <<>>
      PROVE  ArrivalsInv'
  <2>1. arrivals' \in Seq(Items) /\ Len(arrivals') = 0
    BY <1>4, EmptySeq
  <2>2. Pending' = {}
    BY <1>4 DEF Restart, Pending, Ready, Blocked
  <2>3. QED
    BY <2>1, <2>2 DEF ArrivalsInv, Distinct, Holds
<1>5. QED
  BY <1>0, <1>1, <1>2, <1>3, <1>4, HistoryKinds

-----------------------------------------------------------------------------
(* What the drain guarantees.                                              *)

\* At a quiet step a handler is woken only by the last request leaving.
LEMMA QuietDrained ==
    ASSUME TypeOK, Quiet, NEW u \in Updates, update'[u] \in {"woken", "drained", "applied"}
    PROVE  update[u] \in {"woken", "drained", "applied"} \/ idleEvent'
<1>1. ASSUME NEW r \in Requests, Raise(r) \/ SendReturns(r)
      PROVE  update[u] \in {"woken", "drained", "applied"} \/ idleEvent'
  BY <1>1 DEF Raise, SendReturns, Decrement
<1>2. ASSUME NEW v \in Updates,
             LookAtEvent(v) \/ ApplyConfig(v) \/ DrainTimeout(v) \/ RejectDirection(v)
      PROVE  update[u] \in {"woken", "drained", "applied"} \/ idleEvent'
  BY <1>2 DEF LookAtEvent, ApplyConfig, DrainTimeout, RejectDirection, TypeOK
<1>3. CASE UNCHANGED update
  BY <1>3
<1>4. \/ UNCHANGED update
      \/ \E r \in Requests : Raise(r) \/ SendReturns(r)
      \/ \E v \in Updates :
            LookAtEvent(v) \/ ApplyConfig(v) \/ DrainTimeout(v) \/ RejectDirection(v)
  BY DEF Quiet, vars, Probing, ProbeCheck, ProbeRtt, ProbeEnds, ProbeSleepEnds, Updating,
         Processing, Process
<1>5. QED
  BY <1>1, <1>2, <1>3, <1>4

LEMMA EarlierStep ==
    NodeInv /\ ArrivalsInv /\ EarlierRequestsDone /\ [HNext]_hvars => EarlierRequestsDone'
<1> SUFFICES ASSUME NodeInv, ArrivalsInv, EarlierRequestsDone, [HNext]_hvars,
                    NEW j \in 1 .. Len(arrivals'), arrivals'[j] \in Updates,
                    update'[arrivals'[j]] \in {"woken", "drained", "applied"},
                    NEW i \in 1 .. j - 1, arrivals'[i] \in Requests
             PROVE  stage'[arrivals'[i]] = "finished"
  BY DEF EarlierRequestsDone
<1>0. TypeOK /\ arrivals \in Seq(Items) /\ Len(arrivals) \in Nat
  BY LenProperties DEF NodeInv, ArrivalsInv
<1>1. ASSUME NEW r \in Requests, Infer(r), arrivals' = Append(arrivals, r)
      PROVE  stage'[arrivals'[i]] = "finished"
  <2>1. r \in Items /\ r \notin Updates
    BY HistoryAssumption DEF Items
  <2>2. /\ Len(arrivals') = Len(arrivals) + 1 /\ arrivals'[Len(arrivals) + 1] = r
        /\ \A k \in 1 .. Len(arrivals) : arrivals'[k] = arrivals[k]
    BY <1>0, <1>1, <2>1, AppendHolds
  <2>3. j # Len(arrivals) + 1
    BY <2>1, <2>2
  <2>4. /\ j \in 1 .. Len(arrivals) /\ i \in 1 .. Len(arrivals)
        /\ arrivals'[j] = arrivals[j] /\ arrivals'[i] = arrivals[i]
    BY <1>0, <2>2, <2>3
  <2>5. stage[arrivals[i]] = "finished"
    BY <1>1, <2>4 DEF Infer, EarlierRequestsDone
  <2>6. QED
    BY <1>0, <1>1, <2>4, <2>5 DEF Infer, TypeOK
<1>2. ASSUME NEW u \in Updates, PostConfig(u), arrivals' = Append(arrivals, u)
      PROVE  stage'[arrivals'[i]] = "finished"
  <2>1. u \in Items
    BY DEF Items
  <2>2. /\ Len(arrivals') = Len(arrivals) + 1 /\ arrivals'[Len(arrivals) + 1] = u
        /\ \A k \in 1 .. Len(arrivals) : arrivals'[k] = arrivals[k]
    BY <1>0, <1>2, <2>1, AppendHolds
  <2>3. i \in 1 .. Len(arrivals) /\ arrivals'[i] = arrivals[i] /\ arrivals[i] \in Requests
    BY <1>0, <2>2
  <2>4. CASE j = Len(arrivals) + 1
    BY <1>0, <1>2, <2>2, <2>4 DEF PostConfig, TypeOK
  <2>5. CASE j # Len(arrivals) + 1
    <3>1. j \in 1 .. Len(arrivals) /\ arrivals'[j] = arrivals[j]
      BY <1>0, <2>2, <2>5
    <3>2. arrivals[j] # u
      BY <1>2, <3>1 DEF PostConfig, ArrivalsInv, Holds
    <3>3. update'[arrivals[j]] = update[arrivals[j]]
      BY <1>0, <1>2, <3>1, <3>2 DEF PostConfig, TypeOK
    <3>4. stage[arrivals[i]] = "finished"
      BY <2>3, <3>1, <3>3 DEF EarlierRequestsDone
    <3>5. QED
      BY <1>2, <2>3, <3>4 DEF PostConfig
  <2>6. QED
    BY <2>4, <2>5
<1>3. ASSUME Quiet, arrivals' = arrivals
      PROVE  stage'[arrivals'[i]] = "finished"
  <2>1. CASE update[arrivals[j]] \in {"woken", "drained", "applied"}
    <3>1. stage[arrivals[i]] = "finished"
      BY <1>3, <2>1 DEF EarlierRequestsDone
    <3>2. QED
      BY <1>0, <1>3, <3>1, QuietUpdates
  <2>2. CASE idleEvent'
    <3>1. NodeInv' /\ ArrivalsInv'
      BY NodeInvStep, ArrivalsStep, HStepIsStep
    <3>2. i \in 1 .. Len(arrivals')
      BY <1>0, <1>3
    <3>3. NodeInv' /\ ArrivalsInv' /\ idleEvent' => AllFinished'
      BY IdleFinished, PTL
    <3>4. QED
      BY <2>2, <3>1, <3>2, <3>3 DEF AllFinished
  <2>3. QED
    BY <1>0, <1>3, <2>1, <2>2, QuietDrained
<1>4. ASSUME Restart, arrivals' = <<>>
      PROVE  stage'[arrivals'[i]] = "finished"
  <2>1. Len(arrivals') = 0
    BY <1>4, EmptySeq
  <2>2. QED
    BY <2>1
<1>5. QED
  BY <1>0, <1>1, <1>2, <1>3, <1>4, HistoryKinds

-----------------------------------------------------------------------------
(* The order in which updates are applied.                                 *)

\* A newcomer is later than all others, and changes nothing among them.
LEMMA EarlierGrows ==
    ASSUME NEW e \in Items, arrivals \in Seq(Items), arrivals' = Append(arrivals, e),
           ~ Holds(arrivals, e)
    PROVE  \A w, u : Earlier(w, u)' => (u # e => Earlier(w, u)) /\ w # e
<1>1. /\ Len(arrivals') = Len(arrivals) + 1 /\ Len(arrivals) \in Nat
      /\ arrivals'[Len(arrivals) + 1] = e
      /\ \A i \in 1 .. Len(arrivals) : arrivals'[i] = arrivals[i] /\ arrivals[i] # e
  BY AppendHolds DEF Holds
<1> SUFFICES ASSUME NEW w, NEW u, NEW i \in 1 .. Len(arrivals'), NEW j \in 1 .. Len(arrivals'),
                    i < j, arrivals'[i] = w, arrivals'[j] = u
             PROVE  (u # e => Earlier(w, u)) /\ w # e
  BY DEF Earlier
<1>2. i \in 1 .. Len(arrivals) /\ arrivals[i] = w /\ w # e
  BY <1>1
<1>3. u # e => j \in 1 .. Len(arrivals) /\ arrivals[j] = u
  BY <1>1
<1>4. QED
  BY <1>2, <1>3 DEF Earlier

LEMMA EarlierHolds ==
    ASSUME ArrivalsInv, NEW w, NEW u, Earlier(w, u)
    PROVE  w # u /\ Holds(arrivals, w) /\ Holds(arrivals, u)
<1>1. PICK i, j \in 1 .. Len(arrivals) : i < j /\ arrivals[i] = w /\ arrivals[j] = u
  BY DEF Earlier
<1>2. i # j
  BY <1>1
<1>3. QED
  BY <1>1, <1>2 DEF ArrivalsInv, Distinct, Holds

\* The history of the passings is kept at every step, stuttering or not.
LEMMA PassingAlways ==
    ASSUME TypeOK, passed \in [Updates -> SUBSET Updates], [HNext]_hvars
    PROVE  Passing
<1>1. CASE HNext
  BY <1>1 DEF HNext
<1>2. CASE UNCHANGED hvars
  <2>1. UNCHANGED <<restarts, update, passed>>
    BY <1>2 DEF hvars, vars
  <2>2. Woken = {} /\ \A u \in Updates : ~ Blocks(u)
    BY <2>1 DEF Woken, Blocks, Blocked
  <2>3. \A u \in Updates :
           passed[u] = IF restarts' # restarts \/ Blocks(u) THEN {}
                       ELSE IF update[u] = "posted" THEN passed[u] \cup (Woken \cap SameDirection(u))
                       ELSE passed[u]
    BY <2>1, <2>2
  <2>4. passed = [u \in Updates |->
                    IF restarts' # restarts \/ Blocks(u) THEN {}
                    ELSE IF update[u] = "posted" THEN passed[u] \cup (Woken \cap SameDirection(u))
                    ELSE passed[u]]
    BY <2>3
  <2>5. QED
    BY <2>1, <2>4 DEF Passing
<1>3. QED
  BY <1>1, <1>2

\* Only a handler that blocks or is posted when others are woken has its history
\* changed.
LEMMA PassedKept ==
    ASSUME OrderInv, Passing, UNCHANGED restarts
    PROVE  /\ passed' \in [Updates -> SUBSET Updates]
           /\ \A u \in Updates : update[u] # "posted" => passed'[u] = passed[u]
           /\ \A u \in Updates : update'[u] # "waiting" => passed[u] \subseteq passed'[u]
           /\ \A u \in Updates : update[u] = "posted" /\ update'[u] # "waiting"
                 => Woken \cap SameDirection(u) \subseteq passed'[u]
<1>1. \A u \in Updates :
         passed'[u] = IF Blocks(u) THEN {}
                      ELSE IF update[u] = "posted" THEN passed[u] \cup (Woken \cap SameDirection(u))
                      ELSE passed[u]
  BY DEF Passing
<1>2. Woken \subseteq Updates
  BY DEF Woken, Blocked
<1>3. \A u \in Updates : passed'[u] \subseteq Updates
  BY <1>1, <1>2 DEF OrderInv
<1>4. \E f : passed' = [u \in Updates |-> f[u]]
  <2> DEFINE f == [u \in Updates |->
                     IF restarts' # restarts \/ Blocks(u) THEN {}
                     ELSE IF update[u] = "posted" THEN passed[u] \cup (Woken \cap SameDirection(u))
                     ELSE passed[u]]
  <2>1. passed' = [u \in Updates |-> f[u]]
    BY DEF Passing
  <2>2. QED
    BY <2>1
<1>5. passed' \in [Updates -> SUBSET Updates]
  BY <1>3, <1>4
<1>6. QED
  BY <1>1, <1>5 DEF Blocks

\* The updates that have not moved keep their order.
LEMMA OthersInOrder ==
    ASSUME OrderInv, Passing, UNCHANGED restarts, NEW w \in Updates, NEW u \in SameDirection(w),
           update'[w] = update[w], update'[u] = update[u],
           Earlier(w, u),
           w \in ahead[u] => w \in ahead'[u],
           u \in ahead'[w] => u \in ahead[w]
    PROVE  InOrder(w, u)'
<1>1. u \in Updates /\ InOrder(w, u)
  BY DEF OrderInv, SameDirection
<1>2. w \in passed[u] => w \in passed'[u]
  BY <1>1, PassedKept
<1>3. /\ w \in Pending' <=> w \in Pending
      /\ u \in Pending' <=> u \in Pending
      /\ w \in Blocked' <=> w \in Blocked
      /\ u \in Blocked' <=> u \in Blocked
  BY <1>1 DEF Pending, Ready, Blocked
<1>4. QED
  BY <1>1, <1>2, <1>3 DEF InOrder

LEMMA WakeInOrder ==
    ASSUME TypeOK, LineInv, OrderInv, Passing, UNCHANGED restarts, Wake,
           NEW w \in Updates, NEW u \in SameDirection(w), Earlier(w, u)
    PROVE  InOrder(w, u)'
<1>1. u \in Updates /\ InOrder(w, u) /\ w \in SameDirection(u)
  BY DEF OrderInv, SameDirection
<1>2. /\ Pending' = Pending /\ Blocked' = {} /\ Woken = Blocked
      /\ Ready \cap Blocked = {} /\ Pending = Ready \cup Blocked
  BY DEF Wake, Woken, Pending, Ready, Blocked, TypeOK
<1>3. \A v \in Updates : /\ v \notin Blocked => update'[v] = update[v]
                         /\ v \in Blocked => update'[v] = "woken"
  BY DEF Wake
<1>4. ahead'[w] = (IF w \in Blocked THEN ahead[w] \cup (Ready \cap SameDirection(w)) ELSE ahead[w])
      /\ (w \in ahead[u] => w \in ahead'[u])
  BY <1>1 DEF Wake
<1>5. w \in passed[u] => w \in passed'[u]
  BY <1>1, <1>3, PassedKept DEF Blocked
<1>6. ASSUME w \in Pending, u \in Pending, u \in ahead'[w]
      PROVE  w \in passed'[u]
  <2>1. CASE u \in ahead[w]
    BY <1>1, <1>5, <1>6, <2>1 DEF InOrder
  <2>2. CASE u \notin ahead[w]
    <3>1. w \in Blocked /\ u \in Ready
      BY <1>4, <1>6, <2>2
    <3>2. update[u] = "posted" /\ update'[u] = "posted"
      BY <1>1, <1>2, <1>3, <3>1 DEF InOrder, Ready
    <3>3. QED
      BY <1>1, <1>2, <3>1, <3>2, PassedKept
  <2>3. QED
    BY <2>1, <2>2
<1>7. update'[u] = "applied" => update[u] = "applied"
  BY <1>1, <1>3
<1>8. (update'[w] = "posted" => update[w] = "posted") /\ (update'[u] = "posted" => update[u] = "posted")
  BY <1>1, <1>3
<1>9. update'[w] = "posted" => update'[u] = update[u]
  BY <1>1, <1>3, <1>8 DEF InOrder, Blocked
<1>10. QED
  BY <1>1, <1>2, <1>4, <1>5, <1>6, <1>7, <1>8, <1>9 DEF InOrder

\* x looks at the event, and keeps its place or blocks.
LEMMA LookInOrder ==
    ASSUME TypeOK, CounterInv, LineInv, OrderInv, ArrivalsInv, Passing,
           NEW x \in Updates, LookAtEvent(x),
           NEW w \in Updates, NEW u \in SameDirection(w), Earlier(w, u)
    PROVE  InOrder(w, u)'
<1>1. /\ u \in Updates /\ InOrder(w, u) /\ w \in SameDirection(u) /\ w # u
      /\ UNCHANGED restarts
  BY EarlierHolds DEF OrderInv, SameDirection, LookAtEvent
<1>2. /\ update[x] = "posted" /\ update'[x] = (IF idleEvent THEN "drained" ELSE "waiting")
      /\ \A v \in Updates \ {x} : update'[v] = update[v]
      /\ \A v \in ahead[x] : update[v] # "posted"
  BY DEF LookAtEvent, TypeOK
<1>3. \A v \in Updates \ {x} : ahead'[v] \subseteq ahead[v] /\ ahead[v] \ {x} \subseteq ahead'[v]
  BY DEF LookAtEvent, AheadWithout
<1>4. CASE w # x /\ u # x
  BY <1>1, <1>2, <1>3, <1>4, OthersInOrder
<1>5. CASE w = x
  <2>1. update[u] \in {"posted", "rejected"} /\ update'[u] = update[u]
    BY <1>1, <1>2, <1>5 DEF InOrder
  <2>2. u \notin Blocked' /\ u \notin Blocked
    BY <2>1 DEF Blocked
  <2>3. u \in Pending' /\ u \in ahead'[w] => w \in passed'[u]
    <3>1. CASE idleEvent
      <4>1. ahead' = ahead /\ w \in Pending /\ (u \in Pending' => u \in Pending)
        BY <1>1, <1>2, <1>5, <2>1, <3>1 DEF LookAtEvent, Pending, Ready, Blocked
      <4>2. w \in passed[u] => w \in passed'[u]
        BY <1>1, <2>1, PassedKept
      <4>3. QED
        BY <1>1, <4>1, <4>2 DEF InOrder
    <3>2. CASE ~ idleEvent
      <4>1. ahead'[w] \subseteq Blocked
        BY <1>5, <3>2 DEF LookAtEvent, AheadWithout
      <4>2. QED
        BY <2>2, <4>1
    <3>3. QED
      BY <3>1, <3>2
  <2>4. update'[w] # "posted"
    BY <1>2, <1>5
  <2>5. QED
    BY <2>1, <2>2, <2>3, <2>4 DEF InOrder
<1>6. CASE u = x
  <2>1. update'[w] = update[w] /\ (w \in Pending' <=> w \in Pending)
    BY <1>1, <1>2, <1>6 DEF Pending, Ready, Blocked
  <2>2. update[w] # "posted"
    BY <1>1, <1>2, <1>6 DEF InOrder
  <2>3. update'[u] \notin {"applied", "posted"}
    BY <1>2, <1>6
  <2>4. CASE idleEvent
    <3>1. Blocked = {} /\ w \notin Blocked'
      BY <1>2, <2>1, <2>4 DEF CounterInv, NoneBlocked, Blocked
    <3>2. ahead' = ahead /\ u \in Pending /\ (w \in passed[u] => w \in passed'[u])
      BY <1>1, <1>2, <1>6, <2>4, PassedKept DEF LookAtEvent, Pending, Ready
    <3>3. QED
      BY <1>1, <2>1, <2>2, <2>3, <3>1, <3>2 DEF InOrder
  <2>5. CASE ~ idleEvent
    <3>1. u \notin ahead'[w] /\ ahead'[u] = Blocked \cap SameDirection(u)
      BY <1>1, <1>6, <2>5 DEF LookAtEvent, AheadWithout
    <3>2. (w \in Blocked' <=> w \in Blocked) /\ update'[u] = "waiting"
      BY <1>2, <1>6, <2>1, <2>5 DEF Blocked
    <3>3. QED
      BY <1>1, <2>1, <2>2, <3>1, <3>2 DEF InOrder
  <2>6. QED
    BY <2>4, <2>5
<1>7. QED
  BY <1>4, <1>5, <1>6

\* x leaves: nobody stood ahead of it, or it is rejected.
LEMMA LeaveInOrder ==
    ASSUME TypeOK, LineInv, OrderInv, ArrivalsInv, Passing,
           NEW x \in Updates, ApplyConfig(x) \/ DrainTimeout(x),
           NEW w \in Updates, NEW u \in SameDirection(w), Earlier(w, u)
    PROVE  InOrder(w, u)'
<1>1. /\ u \in Updates /\ InOrder(w, u) /\ w \in SameDirection(u) /\ w # u
      /\ UNCHANGED restarts
  BY EarlierHolds DEF OrderInv, SameDirection, ApplyConfig, DrainTimeout
<1>2. /\ update'[x] \in {"applied", "rejected"} /\ x \in Pending
      /\ \A v \in Updates \ {x} : update'[v] = update[v]
      /\ update'[x] = "applied" => update[x] \in {"woken", "drained"} /\ ahead[x] = {}
  BY DEF ApplyConfig, DrainTimeout, TypeOK, Pending, Ready, Blocked
<1>3. \A v \in Updates \ {x} : ahead'[v] = ahead[v] \ {x}
  BY DEF ApplyConfig, DrainTimeout, AheadWithout
<1>4. CASE w # x /\ u # x
  BY <1>1, <1>2, <1>3, <1>4, OthersInOrder
<1>5. CASE w = x
  <2>1. w \notin Pending' /\ w \notin Blocked' /\ update'[w] # "posted"
    BY <1>2, <1>5 DEF Pending, Ready, Blocked
  <2>2. QED
    BY <2>1 DEF InOrder
<1>6. CASE u = x
  <2>1. u \notin Pending' /\ u \notin Blocked' /\ update'[u] # "posted"
    BY <1>2, <1>6 DEF Pending, Ready, Blocked
  <2>2. update'[w] = update[w] /\ (w \in Pending' <=> w \in Pending) /\ (w \in Blocked' <=> w \in Blocked)
    BY <1>1, <1>2, <1>6 DEF Pending, Ready, Blocked
  <2>3. CASE update'[u] = "rejected"
    BY <2>1, <2>2, <2>3 DEF InOrder
  <2>4. CASE update'[u] = "applied"
    <3>1. update[u] \in {"woken", "drained"} /\ ahead[u] = {} /\ u \in Ready
      BY <1>2, <1>6, <2>4 DEF Ready
    <3>2. w \notin Blocked /\ update[w] # "posted"
      BY <1>1, <3>1 DEF InOrder
    <3>3. ASSUME w \in Pending
          PROVE  w \in passed'[u]
      <4>1. w \in Ready
        BY <3>2, <3>3 DEF Pending
      <4>2. u \in ahead[w]
        BY <1>1, <3>1, <3>3, <4>1 DEF LineInv, InLine
      <4>3. w \in passed[u]
        BY <1>1, <1>2, <1>6, <3>3, <4>2 DEF InOrder
      <4>4. QED
        BY <1>1, <3>1, <4>3, PassedKept
    <3>4. QED
      BY <2>1, <2>2, <3>2, <3>3 DEF InOrder
  <2>5. QED
    BY <1>2, <1>6, <2>3, <2>4
<1>7. QED
  BY <1>4, <1>5, <1>6

\* x arrives after all others, behind those that may resume.
LEMMA PostInOrder ==
    ASSUME TypeOK, LineInv, OrderInv, ArrivalsInv, Passing,
           NEW x \in Updates, PostConfig(x), arrivals' = Append(arrivals, x),
           NEW w \in Updates, NEW u \in SameDirection(w), Earlier(w, u)'
    PROVE  InOrder(w, u)'
<1>1. /\ u \in Updates /\ w \in SameDirection(u) /\ UNCHANGED restarts
      /\ ~ Holds(arrivals, x) /\ x \in Items /\ arrivals \in Seq(Items)
  BY DEF SameDirection, PostConfig, ArrivalsInv, Items
<1>2. w # x /\ (u # x => Earlier(w, u))
  BY <1>1, EarlierGrows
<1>3. /\ update'[x] = "posted" /\ \A v \in Updates \ {x} : update'[v] = update[v]
      /\ x \notin Pending
  BY DEF PostConfig, TypeOK, Pending, Ready, Blocked
<1>4. /\ ahead'[x] = Ready \cap SameDirection(x)
      /\ \A v \in Updates \ {x} : ahead'[v] = ahead[v]
  BY DEF PostConfig, TypeOK
<1>5. CASE u # x
  BY <1>1, <1>2, <1>3, <1>4, <1>5, OthersInOrder
<1>6. CASE u = x
  <2>1. u \notin ahead'[w]
    BY <1>2, <1>3, <1>4, <1>6 DEF LineInv, InLine, Pending
  <2>2. update'[w] = "posted" => w \in Ready
    BY <1>2, <1>3 DEF Ready
  <2>3. u \notin Blocked' /\ update'[u] = "posted"
    BY <1>3, <1>6 DEF Blocked
  <2>4. QED
    BY <1>1, <1>4, <1>6, <2>1, <2>2, <2>3 DEF InOrder
<1>7. QED
  BY <1>5, <1>6

\* The steps that neither post nor end a process, by what they do to the updates.
LEMMA QuietKinds ==
    ASSUME Quiet
    PROVE  \/ UNCHANGED <<update, ahead, config>>
           \/ Wake /\ UNCHANGED config
           \/ \E x \in Updates : LookAtEvent(x)
           \/ \E x \in Updates : ApplyConfig(x) \/ DrainTimeout(x)
           \/ \E x \in Updates : RejectDirection(x)
BY DEF Quiet, vars, Probing, ProbeCheck, ProbeRtt, ProbeEnds, ProbeSleepEnds, Updating,
       Processing, Process, Raise, SendReturns, Decrement

LEMMA OrderStep ==
    NodeInv /\ ArrivalsInv /\ OrderInv /\ [HNext]_hvars => OrderInv'
<1> SUFFICES ASSUME NodeInv, ArrivalsInv, OrderInv, [HNext]_hvars
             PROVE  OrderInv'
  OBVIOUS
<1>0. /\ TypeOK /\ CounterInv /\ LineInv /\ arrivals \in Seq(Items)
      /\ passed \in [Updates -> SUBSET Updates]
  BY DEF NodeInv, ArrivalsInv, OrderInv
<1>1. Passing
  BY <1>0, PassingAlways
<1>2. CASE Restart /\ arrivals' = <<>>
  <2>1. Len(arrivals') = 0
    BY <1>2, EmptySeq
  <2>2. restarts' # restarts
    BY <1>0, <1>2 DEF Restart, TypeOK
  <2>3. passed' = [u \in Updates |-> {}]
    BY <1>1, <2>2 DEF Passing
  <2>4. \A w, u : ~ Earlier(w, u)'
    BY <2>1 DEF Earlier
  <2>5. QED
    BY <2>3, <2>4 DEF OrderInv
<1>3. CASE UNCHANGED restarts
  <2>1. passed' \in [Updates -> SUBSET Updates]
    BY <1>1, <1>3, PassedKept
  <2> SUFFICES ASSUME NEW w \in Updates, NEW u \in SameDirection(w), Earlier(w, u)'
               PROVE  InOrder(w, u)'
    BY <2>1 DEF OrderInv, SameDirection
  <2>2. u \in Updates
    BY DEF SameDirection
  <2>3. ASSUME NEW r \in Requests, Infer(r), arrivals' = Append(arrivals, r)
        PROVE  InOrder(w, u)'
    <3>1. r \in Items /\ r \notin Updates /\ ~ Holds(arrivals, r) /\ UNCHANGED <<update, ahead>>
      BY <2>3, HistoryAssumption DEF Infer, ArrivalsInv, Items
    <3>2. Earlier(w, u)
      BY <1>0, <2>2, <2>3, <3>1, EarlierGrows
    <3>3. QED
      BY <1>1, <1>3, <3>1, <3>2, OthersInOrder
  <2>4. ASSUME NEW x \in Updates, PostConfig(x), arrivals' = Append(arrivals, x)
        PROVE  InOrder(w, u)'
    BY <1>0, <1>1, <2>4, PostInOrder
  <2>5. CASE Quiet /\ arrivals' = arrivals
    <3>1. Earlier(w, u)
      BY <2>5 DEF Earlier
    <3>2. CASE UNCHANGED <<update, ahead>>
      BY <1>1, <1>3, <3>1, <3>2, OthersInOrder
    <3>3. CASE Wake
      BY <1>0, <1>1, <1>3, <3>1, <3>3, WakeInOrder
    <3>4. ASSUME NEW x \in Updates, LookAtEvent(x)
          PROVE  InOrder(w, u)'
      BY <1>0, <1>1, <3>1, <3>4, LookInOrder
    <3>5. ASSUME NEW x \in Updates, ApplyConfig(x) \/ DrainTimeout(x)
          PROVE  InOrder(w, u)'
      BY <1>0, <1>1, <3>1, <3>5, LeaveInOrder
    <3>6. ASSUME NEW x \in Updates, RejectDirection(x)
          PROVE  InOrder(w, u)'
      <4>1. w # x /\ u # x /\ UNCHANGED ahead
        BY <3>1, <3>6, EarlierHolds DEF RejectDirection, ArrivalsInv
      <4>2. update'[w] = update[w] /\ update'[u] = update[u]
        BY <1>0, <2>2, <3>6, <4>1 DEF RejectDirection, TypeOK
      <4>3. QED
        BY <1>1, <1>3, <3>1, <4>1, <4>2, OthersInOrder
    <3>7. QED
      BY <2>5, <3>2, <3>3, <3>4, <3>5, <3>6, QuietKinds
  <2>6. ~ Restart
    BY <1>0, <1>3 DEF Restart, TypeOK
  <2>7. QED
    BY <1>0, <2>3, <2>4, <2>5, <2>6, HistoryKinds
<1>4. Restart \/ UNCHANGED restarts
  BY <1>0, HistoryKinds, QuietUpdates DEF Infer, PostConfig
<1>5. ~ UNCHANGED restarts => arrivals' = <<>>
  BY <1>0, HistoryKinds, QuietUpdates DEF Infer, PostConfig
<1>6. QED
  BY <1>2, <1>3, <1>4, <1>5

\* Nobody applies settings: what is applied stays, and so do the settings.
LEMMA NothingApplied ==
    ASSUME ArrivalsInv, OrderInv, LatestUpdateInForce, Passing, UNCHANGED <<config, restarts>>,
           \A u \in Updates : update'[u] = "applied" <=> update[u] = "applied",
           \/ arrivals' = arrivals
           \/ \E x \in Items : /\ arrivals' = Append(arrivals, x)
                               /\ ~ Holds(arrivals, x)
                               /\ x \in Updates => update[x] # "applied"
    PROVE  LatestUpdateInForce'
<1>1. ASSUME NEW u \in Updates, update[u] = "applied"
      PROVE  Holds(arrivals', u) <=> Holds(arrivals, u)
  <2>1. ASSUME NEW x \in Items, arrivals' = Append(arrivals, x), x # u
        PROVE  Holds(arrivals', u) <=> Holds(arrivals, u)
    <3> HIDE DEF Holds
    <3>1. arrivals \in Seq(Items)
      BY DEF ArrivalsInv
    <3>2. Holds(Append(arrivals, x), u) <=> Holds(arrivals, u) \/ u = x
      BY <3>1, AppendHolds
    <3>3. QED
      BY <2>1, <3>2
  <2>2. QED
    BY <1>1, <2>1
<1>2. \A d : AppliedTo(d)' = AppliedTo(d)
  BY <1>1 DEF AppliedTo, Holds
<1>3. ASSUME NEW d, NEW u \in AppliedTo(d), NEW v \in AppliedTo(d), Earlier(u, v)'
      PROVE  Earlier(u, v)
  <2>1. v \in Updates /\ update[v] = "applied"
    BY DEF AppliedTo
  <2>2. QED
    BY <1>3, <2>1, EarlierGrows DEF Earlier, ArrivalsInv
<1>4. \A d : \A v \in AppliedTo(d) : passed'[v] = passed[v]
  BY PassedKept DEF AppliedTo
<1>5. QED
  BY <1>2, <1>3, <1>4 DEF LatestUpdateInForce

\* A handler applies its settings: a later update that is applied has passed it.
LEMMA HeadApplied ==
    ASSUME NodeInv, ArrivalsInv, OrderInv, LatestUpdateInForce, Passing,
           NEW x \in Updates, ApplyConfig(x), arrivals' = arrivals
    PROVE  LatestUpdateInForce'
<1> DEFINE d == Direction[x]
<1>0. TypeOK /\ LineInv
  BY DEF NodeInv
<1>1. /\ x \in Pending /\ update'[x] = "applied"
      /\ \A v \in Updates \ {x} : update'[v] = update[v]
      /\ config' = [config EXCEPT ![d] = Value[x]]
      /\ UNCHANGED restarts
  BY <1>0 DEF ApplyConfig, TypeOK, Pending, Ready
<1>2. d \in Directions /\ Holds(arrivals, x)
  BY <1>0, <1>1 DEF LineInv, ArrivalsInv
<1>3. x \in AppliedTo(d)' /\ config'[d] = Value[x]
  BY <1>0, <1>1, <1>2 DEF AppliedTo, Holds, TypeOK
<1>4. ASSUME NEW v \in AppliedTo(d)', Earlier(x, v)'
      PROVE  x \in passed'[v]
  <2>1. Earlier(x, v) /\ v # x /\ v \in Updates /\ v \in SameDirection(x)
    BY <1>4, EarlierHolds DEF Earlier, AppliedTo, SameDirection
  <2>2. update[v] = "applied"
    BY <1>1, <2>1 DEF AppliedTo
  <2>3. x \in passed[v]
    BY <1>1, <2>1, <2>2 DEF OrderInv, InOrder
  <2>4. QED
    BY <1>1, <2>1, <2>2, <2>3, PassedKept
<1>5. ASSUME NEW e \in Directions, e # d
      PROVE  /\ AppliedTo(e)' = AppliedTo(e) /\ config'[e] = config[e]
             /\ \A v \in AppliedTo(e) : passed'[v] = passed[v]
  <2>1. config'[e] = config[e]
    BY <1>0, <1>1, <1>5 DEF TypeOK
  <2>2. AppliedTo(e)' = AppliedTo(e)
    BY <1>1, <1>5 DEF AppliedTo
  <2>3. QED
    BY <1>1, <2>1, <2>2, PassedKept DEF AppliedTo
<1>6. \A u, v : Earlier(u, v)' <=> Earlier(u, v)
  BY DEF Earlier
<1> HIDE DEF d
<1> SUFFICES ASSUME NEW e \in Directions
             PROVE  IF AppliedTo(e)' = {} THEN config'[e] = Default[e]
                    ELSE \E u \in AppliedTo(e)' :
                            /\ config'[e] = Value[u]
                            /\ \A v \in AppliedTo(e)' : Earlier(u, v)' => u \in passed'[v]
  BY DEF LatestUpdateInForce
<1>7. CASE e = d
  BY <1>3, <1>4, <1>7
<1>8. CASE e # d
  BY <1>5, <1>6, <1>8 DEF LatestUpdateInForce
<1>9. QED
  BY <1>7, <1>8

LEMMA InForceStep ==
    NodeInv /\ ArrivalsInv /\ OrderInv /\ LatestUpdateInForce /\ [HNext]_hvars
        => LatestUpdateInForce'
<1> SUFFICES ASSUME NodeInv, ArrivalsInv, OrderInv, LatestUpdateInForce, [HNext]_hvars
             PROVE  LatestUpdateInForce'
  OBVIOUS
<1>0. TypeOK /\ arrivals \in Seq(Items) /\ passed \in [Updates -> SUBSET Updates]
  BY DEF NodeInv, ArrivalsInv, OrderInv
<1>p. Passing
  BY <1>0, PassingAlways
<1>1. ASSUME NEW r \in Requests, Infer(r), arrivals' = Append(arrivals, r)
      PROVE  LatestUpdateInForce'
  <2>1. r \in Items /\ r \notin Updates /\ ~ Holds(arrivals, r)
    BY <1>1, HistoryAssumption DEF Items, ArrivalsInv, Infer
  <2>2. UNCHANGED <<update, config, restarts>>
    BY <1>1 DEF Infer
  <2>3. QED
    BY <1>p, <1>1, <2>1, <2>2, NothingApplied
<1>2. ASSUME NEW u \in Updates, PostConfig(u), arrivals' = Append(arrivals, u)
      PROVE  LatestUpdateInForce'
  <2>1. /\ u \in Items /\ UNCHANGED <<config, restarts>> /\ update[u] # "applied"
        /\ ~ Holds(arrivals, u)
    BY <1>2 DEF PostConfig, Items, ArrivalsInv
  <2>2. \A v \in Updates : update'[v] = "applied" <=> update[v] = "applied"
    BY <1>0, <1>2 DEF PostConfig, TypeOK
  <2>3. QED
    BY <1>p, <1>2, <2>1, <2>2, NothingApplied
<1>3. ASSUME NEW u \in Updates, ApplyConfig(u), arrivals' = arrivals
      PROVE  LatestUpdateInForce'
  BY <1>p, <1>3, HeadApplied
<1>4. ASSUME Quiet, ~ \E u \in Updates : ApplyConfig(u), arrivals' = arrivals
      PROVE  LatestUpdateInForce'
  <2>1. UNCHANGED config /\ \A u \in Updates : update'[u] = "applied" <=> update[u] = "applied"
    BY <1>0, <1>4, QuietKinds
       DEF Wake, Blocked, LookAtEvent, DrainTimeout, RejectDirection, TypeOK
  <2>2. UNCHANGED restarts
    BY <1>0, <1>4, QuietUpdates
  <2>3. QED
    BY <1>p, <1>4, <2>1, <2>2, NothingApplied
<1>5. ASSUME Restart, arrivals' = <<>>
      PROVE  LatestUpdateInForce'
  <2>1. Len(arrivals') = 0 /\ config' = Default
    BY <1>5, EmptySeq DEF Restart
  <2>2. \A d : AppliedTo(d)' = {}
    BY <2>1 DEF AppliedTo
  <2>3. QED
    BY <2>1, <2>2 DEF LatestUpdateInForce
<1>6. QED
  BY <1>0, <1>1, <1>2, <1>3, <1>4, <1>5, HistoryKinds

-----------------------------------------------------------------------------
(* What the prober's check is worth.                                       *)

\* A probe starts only at the check, and that changes nothing else.
LEMMA ProbeBegins ==
    ASSUME TypeOK, [Next]_vars, probe = "settle", probe' \in {"rtt", "throughput"}
    PROVE  inFlight = 0 /\ UNCHANGED stage /\ Quiet
<1>1. CASE ProbeCheck
  BY <1>1 DEF ProbeCheck, TopOfLoop, TypeOK, Quiet, Probing
<1>2. ~ Restart
  BY DEF Restart
<1>3. ~ (ProbeRtt \/ ProbeEnds \/ ProbeSleepEnds) /\ ~ UNCHANGED vars
  BY DEF ProbeRtt, ProbeEnds, ProbeSleepEnds, vars
<1>4. \A r \in Requests : ~ (Infer(r) \/ Process(r) \/ Raise(r) \/ SendReturns(r))
  BY DEF Infer, Process, Raise, SendReturns, Decrement, Wake
<1>5. \A u \in Updates : ~ (PostConfig(u) \/ RejectDirection(u) \/ LookAtEvent(u)
                              \/ ApplyConfig(u) \/ DrainTimeout(u))
  BY DEF PostConfig, RejectDirection, LookAtEvent, ApplyConfig, DrainTimeout
<1>6. QED
  BY <1>1, <1>2, <1>3, <1>4, <1>5 DEF Next, Processing, Updating, Probing

\* While the process lives, the log keeps what it has and finished stays finished.
LEMMA LogGrows ==
    ASSUME TypeOK, arrivals \in Seq(Items), [HNext]_hvars, ~ Restart
    PROVE  /\ Len(arrivals) \in Nat /\ Len(arrivals') \in Nat /\ Len(arrivals') >= Len(arrivals)
           /\ \A i \in 1 .. Len(arrivals) : arrivals'[i] = arrivals[i]
           /\ \A r \in Requests : stage[r] = "finished" => stage'[r] = "finished"
<1>0. Len(arrivals) \in Nat
  BY LenProperties
<1>1. ASSUME NEW r \in Requests, Infer(r), arrivals' = Append(arrivals, r)
      PROVE  /\ Len(arrivals') \in Nat /\ Len(arrivals') >= Len(arrivals)
             /\ \A i \in 1 .. Len(arrivals) : arrivals'[i] = arrivals[i]
             /\ \A x \in Requests : stage[x] = "finished" => stage'[x] = "finished"
  <2>1. \A x \in Requests : stage[x] = "finished" => stage'[x] = "finished"
    BY <1>1 DEF Infer, TypeOK
  <2>2. r \in Items
    BY DEF Items
  <2>3. QED
    BY <1>0, <1>1, <2>1, <2>2, AppendHolds
<1>2. ASSUME NEW u \in Updates, PostConfig(u), arrivals' = Append(arrivals, u)
      PROVE  /\ Len(arrivals') \in Nat /\ Len(arrivals') >= Len(arrivals)
             /\ \A i \in 1 .. Len(arrivals) : arrivals'[i] = arrivals[i]
             /\ UNCHANGED stage
  <2>1. u \in Items /\ UNCHANGED stage
    BY <1>2 DEF PostConfig, Items
  <2>2. QED
    BY <1>0, <1>2, <2>1, AppendHolds
<1>3. CASE Quiet /\ arrivals' = arrivals
  BY <1>0, <1>3, QuietUpdates
<1>4. QED
  BY <1>0, <1>1, <1>2, <1>3, HistoryKinds

LEMMA ProbeStep == NodeInv /\ ArrivalsInv /\ ProbeInv /\ [HNext]_hvars => ProbeInv'
<1> SUFFICES ASSUME NodeInv, ArrivalsInv, ProbeInv, [HNext]_hvars
             PROVE  ProbeInv'
  OBVIOUS
<1>0. /\ TypeOK /\ arrivals \in Seq(Items) /\ Len(arrivals) \in Nat
      /\ Len(arrivals') \in Nat
  <2>1. ArrivalsInv'
    BY ArrivalsStep
  <2>2. QED
    BY <2>1, LenProperties DEF NodeInv, ArrivalsInv
<1>1. CASE probedAt' = 0
  BY <1>0, <1>1 DEF ProbeInv, ProbeStartsIdle
<1>2. CASE probe' \in {"rtt", "throughput"} /\ probe = "settle" /\ HNext
  <2>1. inFlight = 0 /\ UNCHANGED stage /\ arrivals' = arrivals
    BY <1>0, <1>2, ProbeBegins, LogQuiet, HStepIsStep DEF HNext
  <2>2. probedAt' = Len(arrivals)
    BY <1>2 DEF HNext, ProbeStarts
  <2>3. AllFinished
    BY <2>1, IdleFinished
  <2>4. QED
    BY <1>0, <2>1, <2>2, <2>3 DEF ProbeInv, ProbeStartsIdle, AllFinished
<1>3. CASE probedAt' = probedAt /\ ~ Restart
  <2>1. ASSUME NEW i \in 1 .. probedAt, arrivals'[i] \in Requests
        PROVE  stage'[arrivals'[i]] = "finished"
    <3>1. i \in 1 .. Len(arrivals) /\ arrivals'[i] = arrivals[i]
      BY <1>0, <1>3, LogGrows DEF ProbeInv
    <3>2. stage[arrivals[i]] = "finished"
      BY <2>1, <3>1 DEF ProbeInv, ProbeStartsIdle
    <3>3. QED
      BY <1>0, <1>3, <2>1, <3>1, <3>2, LogGrows
  <2>2. probedAt' \in 0 .. Len(arrivals')
    BY <1>0, <1>3, LogGrows DEF ProbeInv
  <2>3. QED
    BY <1>3, <2>1, <2>2 DEF ProbeInv, ProbeStartsIdle
<1>4. CASE HNext
  <2>1. Restart => probe' \notin {"rtt", "throughput"}
    BY DEF Restart
  <2>2. QED
    BY <1>1, <1>2, <1>3, <1>4, <2>1 DEF HNext, ProbeStarts
<1>5. CASE UNCHANGED hvars
  <2>1. ~ Restart /\ probedAt' = probedAt
    BY <1>0, <1>5 DEF hvars, vars, Restart, TypeOK
  <2>2. QED
    BY <1>3, <2>1
<1>6. QED
  BY <1>4, <1>5

-----------------------------------------------------------------------------
(* The theorems about the order of the arrivals.                           *)

HistoryInv ==
    /\ NodeInv /\ ArrivalsInv /\ OrderInv
    /\ EarlierRequestsDone /\ LatestUpdateInForce /\ ProbeInv

LEMMA HistoryInvInit == HInit => HistoryInv
<1> SUFFICES ASSUME HInit
             PROVE  HistoryInv
  OBVIOUS
<1>1. NodeInv /\ ArrivalsInv
  BY NodeInvInit, ArrivalsInit DEF HInit
<1>2. Len(arrivals) = 0 /\ probedAt = 0 /\ config = Default
  BY EmptySeq DEF HInit, Init
<1>3. /\ \A d : AppliedTo(d) = {}
      /\ \A w, u : ~ Earlier(w, u)
      /\ passed = [u \in Updates |-> {}]
  BY <1>2 DEF AppliedTo, Earlier, HInit
<1>4. OrderInv
  BY <1>3 DEF OrderInv
<1>5. EarlierRequestsDone /\ LatestUpdateInForce /\ ProbeInv
  BY <1>2, <1>3 DEF EarlierRequestsDone, LatestUpdateInForce, ProbeInv, ProbeStartsIdle
<1>6. QED
  BY <1>1, <1>4, <1>5 DEF HistoryInv

LEMMA HistoryInvStep == HistoryInv /\ [HNext]_hvars => HistoryInv'
<1> SUFFICES ASSUME HistoryInv, [HNext]_hvars
             PROVE  HistoryInv'
  OBVIOUS
<1>1. NodeInv'
  BY NodeInvStep, HStepIsStep DEF HistoryInv
<1>2. ArrivalsInv'
  BY ArrivalsStep DEF HistoryInv
<1>3. EarlierRequestsDone'
  BY EarlierStep DEF HistoryInv
<1>4. LatestUpdateInForce'
  BY InForceStep DEF HistoryInv
<1>5. ProbeInv'
  BY ProbeStep DEF HistoryInv
<1>6. OrderInv'
  BY OrderStep DEF HistoryInv
<1>7. QED
  BY <1>1, <1>2, <1>3, <1>4, <1>5, <1>6 DEF HistoryInv

\* When the handler of POST /config may change the settings (server.py:208-226),
\* every request the node accepted before that update arrived is finished: no
\* result is compressed on one setting and decompressed on the next because of
\* an update that overtook it.
THEOREM DrainIsSound == HSpec => []EarlierRequestsDone
<1>1. HistoryInv => EarlierRequestsDone
  BY DEF HistoryInv
<1>2. QED
  BY HistoryInvInit, HistoryInvStep, <1>1, PTL DEF HSpec

\* However the waits, wake-ups and timeouts of concurrent POST /config calls
\* interleave, the settings in force are those of an applied call, and a call that
\* arrived after it and was applied as well had passed it: it was posted and had
\* not looked at the event when the earlier one was woken.  The inductive
\* invariant (OrderInv) compares any two calls of one direction: the later one is
\* never further than the earlier one unless it has passed it so.
THEOREM LastWriterWins == HSpec => []LatestUpdateInForce
<1>1. HistoryInv => LatestUpdateInForce
  BY DEF HistoryInv
<1>2. QED
  BY HistoryInvInit, HistoryInvStep, <1>1, PTL DEF HSpec

\* No request that was accepted before a probe started runs beside it
\* (server.py:470-474).
THEOREM ProbesStartIdle == HSpec => []ProbeStartsIdle
<1>1. HistoryInv => ProbeStartsIdle
  BY DEF HistoryInv, ProbeInv
<1>2. QED
  BY HistoryInvInit, HistoryInvStep, <1>1, PTL DEF HSpec
=============================================================================
