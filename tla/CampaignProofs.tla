--------------------------- MODULE CampaignProofs ---------------------------
(***************************************************************************)
(* What --resume skips and what it repeats, for any number of runs,        *)
(* batches, starts, faults and shared run ids: Spec => []TypeOK,           *)
(* Spec => []SkipsAreEarned and Spec => []RepeatsAccountedFor.             *)
(***************************************************************************)
EXTENDS Campaign, Queues, SequenceTheorems, TLAPS

-----------------------------------------------------------------------------
(* Queues that are left from the head.                                     *)

\* Once the head has left, all others are still there.
LEMMA HeadLeaves ==
    ASSUME NEW S, NEW s \in Seq(S), s # <<>>, Distinct(s)
    PROVE  /\ Head(s) = s[1] /\ 1 \in 1 .. Len(s) /\ s[1] \in S
           /\ Tail(s) \in Seq(S) /\ Distinct(Tail(s))
           /\ \A x : Holds(Tail(s), x) <=> Holds(s, x) /\ x # s[1]
<1>1. /\ Len(s) \in Nat /\ 1 \in 1 .. Len(s) /\ Head(s) = s[1] /\ s[1] \in S
      /\ Tail(s) \in Seq(S) /\ Len(Tail(s)) = Len(s) - 1
      /\ \A i \in 1 .. Len(s) - 1 : Tail(s)[i] = s[i + 1] /\ i + 1 \in 1 .. Len(s) /\ i + 1 # 1
      /\ \A i \in 1 .. Len(s) : i = 1 \/ (i - 1 \in 1 .. Len(s) - 1 /\ (i - 1) + 1 = i)
  BY HeadTailProperties, LenProperties, EmptySeq
<1>2. Distinct(Tail(s))
  BY <1>1 DEF Distinct
<1>3. \A x : Holds(Tail(s), x) => Holds(s, x) /\ x # s[1]
  BY <1>1 DEF Holds, Distinct
<1>4. \A x : Holds(s, x) /\ x # s[1] => Holds(Tail(s), x)
  BY <1>1 DEF Holds
<1>5. QED
  BY <1>1, <1>2, <1>3, <1>4

\* A newcomer stands at the end.
LEMMA NewcomerJoins ==
    ASSUME NEW S, NEW s \in Seq(S), NEW e \in S
    PROVE  /\ \A x : Holds(Append(s, e), x) <=> Holds(s, x) \/ x = e
           /\ Distinct(s) /\ ~ Holds(s, e) => Distinct(Append(s, e))
<1>1. /\ Append(s, e) \in Seq(S)
      /\ Len(Append(s, e)) = Len(s) + 1 /\ Len(s) \in Nat
      /\ Append(s, e)[Len(s) + 1] = e
      /\ \A i \in 1 .. Len(s) : Append(s, e)[i] = s[i] /\ i \in 1 .. Len(s) + 1
      /\ \A i \in 1 .. Len(s) + 1 : i \in 1 .. Len(s) \/ i = Len(s) + 1
  BY AppendProperties, LenProperties
<1>2. \A x : Holds(Append(s, e), x) <=> Holds(s, x) \/ x = e
  BY <1>1 DEF Holds
<1>3. Distinct(s) /\ ~ Holds(s, e) => Distinct(Append(s, e))
  BY <1>1 DEF Distinct, Holds
<1>4. QED
  BY <1>2, <1>3

-----------------------------------------------------------------------------
(* The inductive invariant.                                                *)

\* The run_throughput events of the sequence s belong to runs of the set E.
OnlyOf(s, E) == \A i \in 1 .. Len(s) : s[i][2] = 0 => s[i][1] \in E

\* Wherever a run_throughput event is, its run was carried through.
MarkerInv ==
    kind = "multi" =>
        /\ OnlyOf(buffer, ended)
        /\ \A e \in Events : late[e] > 0 \/ log[e] > 0 => (e[2] = 0 => e[1] \in ended)

\* The first conjunct of SkipsAreEarned.
SkipInv ==
    \A r \in skipped : id[r] \notin foreign =>
        IF kind = "multi"
        THEN \E q \in ended : id[q] = id[r]
        ELSE \E e \in Events : log[e] > 0 /\ e[2] > 0 /\ id[e[1]] = id[r]

\* What the orchestrator has passed since it was started, it executed or skipped.
WalkInv ==
    /\ orch \in {"waiting", "checking", "pushing", "running"} => run <= NumRuns
    /\ orch \in {"stopping", "finished"} => run = NumRuns + 1
    /\ orch # "down" => \A r \in Runs : r < run => r \in ended \cup skipped

IInv == TypeOK /\ MarkerInv /\ SkipInv /\ WalkInv

-----------------------------------------------------------------------------
(* Lemmas about the sequences, the files and the walk over the runs.       *)

LEMMA OnlyOfAppend ==
    ASSUME NEW s \in Seq(Events), NEW E, OnlyOf(s, E),
           NEW e \in Events, e[2] = 0 => e[1] \in E
    PROVE  Append(s, e) \in Seq(Events) /\ OnlyOf(Append(s, e), E)
<1>1. /\ Append(s, e) \in Seq(Events)
      /\ Len(Append(s, e)) = Len(s) + 1
      /\ Append(s, e)[Len(s) + 1] = e
      /\ \A i \in 1 .. Len(s) : Append(s, e)[i] = s[i]
  OBVIOUS
<1>2. \A i \in 1 .. Len(s) + 1 : i = Len(s) + 1 \/ i \in 1 .. Len(s)
  OBVIOUS
<1>3. QED
  BY <1>1, <1>2 DEF OnlyOf

LEMMA OnlyOfTail ==
    ASSUME NEW s \in Seq(Events), s # <<>>, NEW E, OnlyOf(s, E)
    PROVE  OnlyOf(Tail(s), E) /\ (Head(s)[2] = 0 => Head(s)[1] \in E)
<1>1. Head(s) = s[1] /\ Len(s) >= 1
  OBVIOUS
<1>2. Len(Tail(s)) = Len(s) - 1 /\ \A i \in 1 .. Len(s) - 1 : Tail(s)[i] = s[i + 1]
  OBVIOUS
<1>3. \A i \in 1 .. Len(s) - 1 : i + 1 \in 1 .. Len(s)
  OBVIOUS
<1>4. QED
  BY <1>1, <1>2, <1>3 DEF OnlyOf

LEMMA OnlyOfGrows ==
    ASSUME NEW s, NEW E, NEW F, E \subseteq F, OnlyOf(s, E)
    PROVE  OnlyOf(s, F)
BY DEF OnlyOf

LEMMA HeadAndTail ==
    ASSUME NEW s \in Seq(Events), s # <<>>
    PROVE  Head(s) \in Events /\ Tail(s) \in Seq(Events) /\ <<Head(s)>> \in Seq(Events)
OBVIOUS

\* One more of an event, in the files or on the way.
LEMMA OneMore ==
    ASSUME NEW f \in [Events -> Nat], NEW g, NEW e \in Events, g = [f EXCEPT ![e] = @ + 1]
    PROVE  /\ g \in [Events -> Nat]
           /\ \A x \in Events : f[x] > 0 => g[x] > 0
           /\ \A x \in Events : g[x] > 0 => f[x] > 0 \/ x = e
OBVIOUS

\* What late becomes when the sender of a POST does not wait for it any more.
LEMMA LateGrows ==
    ASSUME IInv, late' = late \/ Outlives
    PROVE  /\ late' \in [Events -> Nat]
           /\ kind = "multi" =>
                 \A e \in Events : late'[e] > 0 => (e[2] = 0 => e[1] \in ended)
<1>1. CASE late' = late
  BY <1>1 DEF IInv, TypeOK, MarkerInv
<1>2. CASE Outlives
  <2>1. Head(buffer) \in Events
    BY <1>2, HeadAndTail DEF IInv, TypeOK, Outlives
  <2>2. /\ late' \in [Events -> Nat]
        /\ \A x \in Events : late'[x] > 0 => late[x] > 0 \/ x = Head(buffer)
    BY <1>2, <2>1, OneMore DEF IInv, TypeOK, Outlives
  <2>3. kind = "multi" => (Head(buffer)[2] = 0 => Head(buffer)[1] \in ended)
    BY <1>2, OnlyOfTail DEF IInv, TypeOK, MarkerInv, Outlives
  <2>4. QED
    BY <2>2, <2>3 DEF IInv, MarkerInv
<1>3. QED
  BY <1>1, <1>2

LEMMA NextRunWalks ==
    ASSUME TypeOK, WalkInv, NextRun, orch \in {"checking", "running"},
           ended \cup skipped \cup {run} \subseteq ended' \cup skipped'
    PROVE  WalkInv' /\ run' \in 1 .. NumRuns + 1 /\ orch' \in States /\ pending' \in SUBSET Nodes
           /\ run \in Runs
<1>1. run \in 1 .. NumRuns /\ NumRuns \in Nat /\ run' = run + 1
  BY BoundsAssumption DEF TypeOK, WalkInv, NextRun
<1>2. /\ orch' \in {"stopping", "waiting", "checking"}
      /\ run = NumRuns <=> orch' = "stopping"
  BY <1>1 DEF NextRun
<1>3. \A r \in Runs : r < run' => r \in ended' \cup skipped'
  BY <1>1 DEF Runs, WalkInv
<1>4. run' <= NumRuns \/ run = NumRuns
  BY <1>1
<1>5. QED
  BY <1>1, <1>2, <1>3, <1>4 DEF WalkInv, States, NextRun, Runs

-----------------------------------------------------------------------------

LEMMA IInvInit == Init => IInv
<1> SUFFICES ASSUME Init
             PROVE  IInv
  OBVIOUS
<1>1. <<>> \in Seq(Events) /\ \A E : OnlyOf(<<>>, E)
  BY DEF OnlyOf
<1>2. TypeOK
  BY <1>1, BoundsAssumption DEF Init, TypeOK, States
<1>3. MarkerInv /\ SkipInv /\ WalkInv
  BY <1>1 DEF Init, MarkerInv, SkipInv, WalkInv
<1>4. QED
  BY <1>2, <1>3 DEF IInv

\* Steps of the orchestrator that move neither events nor the sets of runs.
LEMMA QuietStep ==
    ASSUME IInv,
           UNCHANGED <<given, eventVars, historyVars, run>>,
           orch' \in States \ {"down", "stopping"}, orch # "down",
           orch' = "finished" => orch = "stopping",
           orch' # "finished" => orch \in {"waiting", "checking", "pushing", "running"},
           pending' \in SUBSET Nodes, todo' \in SUBSET Batches,
           up' = up, starts' = starts, blind' \in Nat, faults' \in Nat
    PROVE  IInv'
<1>1. TypeOK'
  BY DEF IInv, TypeOK, given, eventVars, historyVars
<1>2. MarkerInv' /\ SkipInv'
  BY DEF IInv, MarkerInv, SkipInv, given, eventVars, historyVars
<1>3. WalkInv'
  BY DEF IInv, WalkInv, historyVars, States
<1>4. QED
  BY <1>1, <1>2, <1>3 DEF IInv

LEMMA StartStep == ASSUME IInv, Start PROVE IInv'
<1>1. TypeOK'
  BY BoundsAssumption DEF IInv, TypeOK, Start, given, eventVars, States
<1>2. MarkerInv' /\ SkipInv'
  BY DEF IInv, MarkerInv, SkipInv, Start, given, eventVars
<1>3. WalkInv'
  BY BoundsAssumption DEF WalkInv, Start, Runs
<1>4. QED
  BY <1>1, <1>2, <1>3 DEF IInv

\* A run is skipped: its marker is stored, so by MarkerInv its run is over.
LEMMA SkipStep == ASSUME IInv, Skip PROVE IInv'
<1>1. WalkInv' /\ run' \in 1 .. NumRuns + 1 /\ orch' \in States /\ pending' \in SUBSET Nodes
      /\ run \in Runs
  BY NextRunWalks DEF IInv, Skip
<1>2. TypeOK'
  BY <1>1 DEF IInv, TypeOK, Skip, given, eventVars
<1>3. MarkerInv'
  BY DEF IInv, MarkerInv, Skip, given, eventVars
<1>4. id[run] \notin foreign =>
        IF kind = "multi"
        THEN \E q \in ended : id[q] = id[run]
        ELSE \E e \in Events : log[e] > 0 /\ e[2] > 0 /\ id[e[1]] = id[run]
  <2>1. SUFFICES ASSUME id[run] \notin foreign
                 PROVE  IF kind = "multi"
                        THEN \E q \in ended : id[q] = id[run]
                        ELSE \E e \in Events : log[e] > 0 /\ e[2] > 0 /\ id[e[1]] = id[run]
    OBVIOUS
  <2>2. PICK e \in Events : log[e] > 0 /\ id[e[1]] = id[run] /\ IsMarker(e)
    BY <2>1 DEF Skip, Completed
  <2>3. CASE kind = "multi"
    BY <2>2, <2>3 DEF IInv, MarkerInv, IsMarker
  <2>4. CASE kind # "multi"
    BY <2>2, <2>4, KindsAssumption DEF IInv, TypeOK, IsMarker
  <2>5. QED
    BY <2>3, <2>4
<1>5. SkipInv'
  BY <1>4 DEF IInv, SkipInv, Skip, given, eventVars
<1>6. QED
  BY <1>1, <1>2, <1>3, <1>5 DEF IInv

LEMMA ExecuteSteps ==
    ASSUME IInv, NodesReady \/ Execute \/ ExecuteBlindly \/ Push \/ Finish
                   \/ \E n \in Nodes : NodeAnswers(n)
    PROVE  IInv'
<1>1. CASE NodesReady
  BY <1>1, QuietStep DEF NodesReady, States, IInv, TypeOK
<1>2. CASE Execute
  BY <1>2, QuietStep DEF Execute, States, IInv, TypeOK
<1>3. CASE ExecuteBlindly
  BY <1>3, QuietStep DEF ExecuteBlindly, Fault, States, IInv, TypeOK
<1>4. CASE Push
  BY <1>4, QuietStep DEF Push, States, IInv, TypeOK
<1>5. CASE Finish
  BY <1>5, QuietStep DEF Finish, States, IInv, TypeOK
<1>6. ASSUME NEW n \in Nodes, NodeAnswers(n)
      PROVE  IInv'
  BY <1>6, QuietStep DEF NodeAnswers, States, IInv, TypeOK
<1>7. QED
  BY <1>1, <1>2, <1>3, <1>4, <1>5, <1>6

LEMMA BatchSteps ==
    ASSUME IInv, NEW b \in Batches, BatchRecorded(b) \/ BatchGivenUp(b)
    PROVE  IInv'
<1>1. CASE BatchGivenUp(b)
  BY <1>1, QuietStep DEF BatchGivenUp, States, IInv, TypeOK
<1>2. CASE BatchRecorded(b)
  <2>1. run \in Runs /\ b \in Nat /\ b > 0 /\ <<run, b>> \in Events
    BY <1>2, BoundsAssumption DEF IInv, TypeOK, WalkInv, BatchRecorded, Runs, Batches, Events
  <2>2. Append(buffer, <<run, b>>) \in Seq(Events)
    BY <2>1 DEF IInv, TypeOK
  <2>3. TypeOK'
    BY <1>2, <2>2 DEF IInv, TypeOK, BatchRecorded, given, historyVars
  <2>4. kind = "multi" => OnlyOf(Append(buffer, <<run, b>>), ended)
    BY <2>1, OnlyOfAppend DEF IInv, TypeOK, MarkerInv
  <2>5. MarkerInv'
    BY <1>2, <2>4 DEF IInv, MarkerInv, BatchRecorded, given, historyVars
  <2>6. SkipInv' /\ WalkInv'
    BY <1>2 DEF IInv, SkipInv, WalkInv, BatchRecorded, given, historyVars
  <2>7. QED
    BY <2>3, <2>5, <2>6 DEF IInv
<1>3. QED
  BY <1>1, <1>2

\* The run is added to ended in the step that emits its marker.
LEMMA FinishRunStep == ASSUME IInv, FinishRun PROVE IInv'
<1>1. WalkInv' /\ run' \in 1 .. NumRuns + 1 /\ orch' \in States /\ pending' \in SUBSET Nodes
      /\ run \in Runs
  BY NextRunWalks DEF IInv, FinishRun
<1>2. <<run, 0>> \in Events
  BY <1>1, BoundsAssumption DEF Events
<1>3. Append(buffer, <<run, 0>>) \in Seq(Events)
  BY <1>2 DEF IInv, TypeOK
<1>4. TypeOK'
  BY <1>1, <1>3 DEF IInv, TypeOK, FinishRun, given
<1>5. kind = "multi" => OnlyOf(Append(buffer, <<run, 0>>), ended')
  <2>1. ended \subseteq ended' /\ run \in ended'
    BY DEF FinishRun
  <2>2. kind = "multi" => OnlyOf(buffer, ended')
    BY <2>1, OnlyOfGrows DEF IInv, MarkerInv
  <2>3. QED
    BY <2>1, <2>2, <1>2, OnlyOfAppend DEF IInv, TypeOK
<1>6. MarkerInv'
  BY <1>5 DEF IInv, MarkerInv, FinishRun, given
<1>7. SkipInv'
  BY DEF IInv, SkipInv, FinishRun, given
<1>8. QED
  BY <1>1, <1>4, <1>6, <1>7 DEF IInv

LEMMA DiesStep == ASSUME IInv, Dies PROVE IInv'
<1>1. <<>> \in Seq(Events) /\ \A E : OnlyOf(<<>>, E)
  BY DEF OnlyOf
<1>2. /\ late' \in [Events -> Nat]
      /\ kind = "multi" => \A e \in Events : late'[e] > 0 => (e[2] = 0 => e[1] \in ended)
  BY LateGrows DEF Dies
<1>3. 0 \in 0 .. MaxRetries - 1
  BY BoundsAssumption
<1>4. TypeOK'
  BY <1>1, <1>2, <1>3 DEF IInv, TypeOK, Dies, given, historyVars, States
<1>5. MarkerInv'
  BY <1>1, <1>2 DEF IInv, MarkerInv, Dies, given, historyVars
<1>6. SkipInv' /\ WalkInv'
  BY DEF IInv, SkipInv, WalkInv, Dies, given, historyVars
<1>7. QED
  BY <1>4, <1>5, <1>6 DEF IInv

LEMMA DeliverStep == ASSUME IInv, Deliver PROVE IInv'
<1>0. 0 \in 0 .. MaxRetries - 1
  BY BoundsAssumption
<1>1. Head(buffer) \in Events /\ Tail(buffer) \in Seq(Events)
  BY HeadAndTail DEF IInv, TypeOK, Deliver
<1>2. /\ log' \in [Events -> Nat]
      /\ \A x \in Events : log[x] > 0 => log'[x] > 0
      /\ \A x \in Events : log'[x] > 0 => log[x] > 0 \/ x = Head(buffer)
  <2>1. log \in [Events -> Nat] /\ log' = [log EXCEPT ![Head(buffer)] = @ + 1]
    BY DEF IInv, TypeOK, Deliver
  <2>2. QED
    BY <1>1, <2>1, OneMore
<1>3. TypeOK'
  BY <1>0, <1>1, <1>2 DEF IInv, TypeOK, Deliver, given, orchVars, historyVars
<1>4. kind = "multi" => /\ OnlyOf(Tail(buffer), ended)
                        /\ Head(buffer)[2] = 0 => Head(buffer)[1] \in ended
  BY OnlyOfTail DEF IInv, TypeOK, MarkerInv, Deliver
<1>5. MarkerInv'
  BY <1>2, <1>4 DEF IInv, MarkerInv, Deliver, given, historyVars
<1>6. SkipInv'
  BY <1>2 DEF IInv, SkipInv, Deliver, given, historyVars
<1>7. WalkInv'
  BY DEF IInv, WalkInv, Deliver, orchVars, historyVars
<1>8. QED
  BY <1>3, <1>5, <1>6, <1>7 DEF IInv

LEMMA LateArrivesStep == ASSUME IInv, NEW e \in Events, LateArrives(e) PROVE IInv'
<1>1. /\ late' \in [Events -> Nat] /\ stray' \in [Events -> Nat]
      /\ \A x \in Events : late'[x] > 0 => late[x] > 0
  BY DEF IInv, TypeOK, LateArrives
<1>2. /\ log' \in [Events -> Nat]
      /\ \A x \in Events : log[x] > 0 => log'[x] > 0
      /\ \A x \in Events : log'[x] > 0 => log[x] > 0 \/ x = e
  BY OneMore DEF IInv, TypeOK, LateArrives
<1>3. TypeOK'
  BY <1>1, <1>2 DEF IInv, TypeOK, LateArrives, given, orchVars, historyVars
<1>4. MarkerInv'
  BY <1>1, <1>2 DEF IInv, MarkerInv, LateArrives, given, historyVars
<1>5. SkipInv'
  BY <1>2 DEF IInv, SkipInv, LateArrives, given, historyVars
<1>6. WalkInv'
  BY DEF IInv, WalkInv, LateArrives, orchVars, historyVars
<1>7. QED
  BY <1>3, <1>4, <1>5, <1>6 DEF IInv

\* A POST is not answered: the event stays for another one or is dropped.
LEMMA UnansweredStep == ASSUME IInv, PostAgain \/ DropEvent PROVE IInv'
<1>1. Unanswered /\ (buffer' = buffer \/ buffer' = Tail(buffer))
  BY DEF PostAgain, DropEvent
<1>2. tries' \in 0 .. MaxRetries - 1
  BY BoundsAssumption DEF IInv, TypeOK, PostAgain, DropEvent
<1>3. buffer' \in Seq(Events)
  BY <1>1, HeadAndTail DEF IInv, TypeOK, Unanswered
<1>4. /\ late' \in [Events -> Nat]
      /\ kind = "multi" => \A e \in Events : late'[e] > 0 => (e[2] = 0 => e[1] \in ended)
  BY <1>1, LateGrows DEF Unanswered
<1>5. TypeOK'
  <2>1. /\ faults' \in Nat
        /\ UNCHANGED <<given, orchVars, log, stray, up, starts, blind, historyVars>>
    BY <1>1 DEF IInv, TypeOK, Unanswered, Fault
  <2>2. QED
    BY <1>2, <1>3, <1>4, <2>1 DEF IInv, TypeOK, given, orchVars, historyVars
<1>6. kind = "multi" => OnlyOf(buffer', ended)
  BY <1>1, OnlyOfTail DEF IInv, TypeOK, MarkerInv, Unanswered
<1>7. MarkerInv'
  BY <1>1, <1>4, <1>6 DEF IInv, MarkerInv, Unanswered, given, historyVars
<1>8. SkipInv' /\ WalkInv'
  BY <1>1 DEF IInv, SkipInv, WalkInv, Unanswered, given, orchVars, historyVars
<1>9. QED
  BY <1>5, <1>7, <1>8 DEF IInv

LEMMA NodeSteps ==
    ASSUME IInv, NEW n \in Nodes, NodeGoes(n) \/ NodeComes(n)
    PROVE  IInv'
<1>1. UNCHANGED <<given, orchVars, eventVars, historyVars>>
  BY DEF NodeGoes, NodeComes
<1>2. TypeOK'
  BY <1>1 DEF IInv, TypeOK, NodeGoes, NodeComes, Fault, given, orchVars, eventVars, historyVars
<1>3. MarkerInv' /\ SkipInv' /\ WalkInv'
  BY <1>1 DEF IInv, MarkerInv, SkipInv, WalkInv, given, orchVars, eventVars, historyVars
<1>4. QED
  BY <1>2, <1>3 DEF IInv

LEMMA IInvNext == IInv /\ [Next]_vars => IInv'
<1> SUFFICES ASSUME IInv, [Next]_vars
             PROVE  IInv'
  OBVIOUS
<1>1. CASE Start
  BY <1>1, StartStep
<1>2. CASE Checking
  BY <1>2, SkipStep, ExecuteSteps DEF Checking
<1>3. CASE NodesReady \/ Push \/ Finish
  BY <1>3, ExecuteSteps
<1>4. CASE BatchOver
  BY <1>4, BatchSteps DEF BatchOver
<1>5. CASE FinishRun
  BY <1>5, FinishRunStep
<1>6. CASE Killed \/ ReadyTimeout \/ PushFails
  BY <1>6, DiesStep DEF Killed, ReadyTimeout, PushFails
<1>7. CASE Deliver \/ PostAgain \/ DropEvent \/ \E e \in Events : LateArrives(e)
  BY <1>7, DeliverStep, UnansweredStep, LateArrivesStep
<1>8. CASE \E n \in Nodes : NodeAnswers(n) \/ NodeGoes(n) \/ NodeComes(n)
  BY <1>8, ExecuteSteps, NodeSteps
<1>9. CASE UNCHANGED vars
  BY <1>9 DEF IInv, TypeOK, MarkerInv, SkipInv, WalkInv, vars, given, orchVars, eventVars,
              historyVars
<1>10. QED
  BY <1>1, <1>2, <1>3, <1>4, <1>5, <1>6, <1>7, <1>8, <1>9 DEF Next

-----------------------------------------------------------------------------

\* The variables stay in their types, however many runs, starts and faults there are.
THEOREM TypeCorrect == Spec => []TypeOK
<1>1. IInv => TypeOK
  BY DEF IInv
<1>2. QED
  BY IInvInit, IInvNext, <1>1, PTL DEF Spec

\* --resume skips a multi-model run only if a run of its id was carried through, a
\* single-model run only if a result of its id is stored, and an experiment that
\* reaches its end has left no run out (runner.py:230, multi_runner.py:263).
THEOREM SkippingIsSound == Spec => []SkipsAreEarned
<1>1. IInv => SkipsAreEarned
  <2> SUFFICES ASSUME IInv
               PROVE  SkipsAreEarned
    OBVIOUS
  <2>1. orch = "finished" => Runs \subseteq ended \cup skipped
    BY BoundsAssumption DEF IInv, WalkInv, Runs
  <2>2. QED
    BY <2>1 DEF IInv, SkipInv, SkipsAreEarned
<1>2. QED
  BY IInvInit, IInvNext, <1>1, PTL DEF Spec

-----------------------------------------------------------------------------
(* How often an event is stored.                                           *)

\* The current start may still emit e.
Yet(e) ==
    /\ orch \in Alive
    /\ \/ e[1] > run
       \/ e[1] = run /\ orch \in {"waiting", "checking", "pushing"}
       \/ e[1] = run /\ orch = "running" /\ (e[2] = 0 \/ e[2] \in todo)

\* The check is over and e is going to be emitted.
Due(e) == orch \in {"pushing", "running"} /\ e[1] = run /\ e[2] > 0 /\ Yet(e)

\* What is still to come, of an event that is in neither the buffer nor the files.
ToCome(e) == IF kind = "single" THEN Due(e) ELSE Yet(e)

Buffered(e) == Holds(buffer, e)

Bound(e) == (IF kind = "single" THEN 1 + blind ELSE starts) + stray[e]

One(holds) == IF holds THEN 1 ELSE 0

RepeatInv ==
    /\ Distinct(buffer)
    /\ orch \in {"down", "finished"} => buffer = <<>>
    /\ \A e \in Events : Buffered(e) => ~ Yet(e)
    /\ \A e \in Events : log[e] + One(Buffered(e)) + One(ToCome(e)) <= Bound(e)

RInv == IInv /\ RepeatInv

LEMMA Numbers ==
    ASSUME TypeOK
    PROVE  /\ blind \in Nat /\ starts \in Nat
           /\ \A e \in Events : log[e] \in Nat /\ stray[e] \in Nat /\ Bound(e) \in Nat
           /\ \A x : One(x) \in Nat
BY DEF TypeOK, Bound, One

LEMMA NumbersNext ==
    ASSUME TypeOK'
    PROVE  \A e \in Events : log'[e] \in Nat /\ Bound(e)' \in Nat
<1>1. /\ blind' \in Nat /\ starts' \in Nat
      /\ stray' \in [Events -> Nat] /\ log' \in [Events -> Nat]
  BY DEF TypeOK
<1>2. \A m, n, k \in Nat : m + n \in Nat /\ (1 + k) + n \in Nat
  OBVIOUS
<1>3. \A e \in Events : (IF kind' = "single" THEN 1 + blind' ELSE starts') + stray'[e] \in Nat
  BY <1>1, <1>2
<1>4. \A e \in Events : log'[e] \in Nat
  BY <1>1
<1>5. QED
  BY <1>3, <1>4 DEF Bound

LEMMA EventFacts ==
    \A e \in Events : e[1] \in 1 .. NumRuns /\ e[2] \in 0 .. NumBatches
BY DEF Events, Runs

\* Steps that emit nothing and store nothing.
LEMMA RepeatKeep ==
    ASSUME TypeOK, TypeOK', RepeatInv, UNCHANGED log,
           buffer' = buffer \/ buffer' = <<>>,
           orch' \in {"down", "finished"} => buffer' = <<>>,
           \A e \in Events : Bound(e) <= Bound(e)',
           \A e \in Events : Buffered(e) => ~ Yet(e)',
           \A e \in Events : ToCome(e)' => ToCome(e)
    PROVE  RepeatInv'
<1>1. \A e \in Events : Buffered(e)' => Buffered(e)
  BY DEF Buffered, Holds
<1>2. Distinct(buffer)'
  BY DEF RepeatInv, Distinct
<1>3. ASSUME NEW e \in Events
      PROVE  log'[e] + One(Buffered(e)') + One(ToCome(e)') <= Bound(e)'
  <2>1. log[e] + One(Buffered(e)) + One(ToCome(e)) <= Bound(e)
    BY DEF RepeatInv
  <2>2. One(Buffered(e)') <= One(Buffered(e)) /\ One(ToCome(e)') <= One(ToCome(e))
    BY <1>1 DEF One
  <2>3. /\ log[e] \in Nat /\ Bound(e) \in Nat /\ Bound(e)' \in Nat
        /\ One(Buffered(e)) \in Nat /\ One(ToCome(e)) \in Nat
        /\ One(Buffered(e)') \in Nat /\ One(ToCome(e)') \in Nat
    BY Numbers, NumbersNext DEF One
  <2>4. QED
    BY <2>1, <2>2, <2>3
<1>4. QED
  BY <1>1, <1>2, <1>3 DEF RepeatInv

LEMMA RepeatInvInit == Init => RepeatInv
<1> SUFFICES ASSUME Init
             PROVE  RepeatInv
  OBVIOUS
<1>1. \A e : ~ Buffered(e) /\ ~ Yet(e) /\ ~ Due(e)
  BY DEF Init, Buffered, Holds, Yet, Due, Alive
<1>2. \A e \in Events : Bound(e) \in Nat
  BY DEF Init, Bound
<1>3. \A e \in Events : log[e] = 0
  BY DEF Init
<1>4. \A e \in Events : log[e] + One(Buffered(e)) + One(ToCome(e)) <= Bound(e)
  BY <1>1, <1>2, <1>3 DEF ToCome, One
<1>5. QED
  BY <1>1, <1>4 DEF Init, RepeatInv, Distinct

\* A start may emit every event once more, and is one start more.
LEMMA StartRepeats == ASSUME IInv, IInv', RepeatInv, Start PROVE RepeatInv'
<1>1. /\ orch \in {"down", "finished"} /\ orch' = "waiting" /\ run' = 1
      /\ starts' = starts + 1
      /\ UNCHANGED <<kind, buffer, log, stray, blind>>
  BY DEF Start, given, eventVars
<1>2. buffer = <<>> /\ buffer' = <<>>
  BY <1>1 DEF RepeatInv
<1>3. \A e : ~ Buffered(e) /\ ~ Buffered(e)' /\ ~ ToCome(e) /\ ~ Due(e)'
  BY <1>1, <1>2 DEF Buffered, Holds, ToCome, Due, Yet, Alive
<1>4. ASSUME NEW e \in Events
      PROVE  log'[e] + One(Buffered(e)') + One(ToCome(e)') <= Bound(e)'
  <2>1. log[e] + One(Buffered(e)) + One(ToCome(e)) <= Bound(e)
    BY DEF RepeatInv
  <2>2. log[e] <= Bound(e) /\ log[e] \in Nat /\ Bound(e) \in Nat
    BY <1>3, <2>1, Numbers DEF One, IInv
  <2>3. CASE kind = "single"
    <3>1. Bound(e)' = Bound(e) /\ ~ ToCome(e)'
      BY <1>1, <1>3, <2>3 DEF Bound, ToCome
    <3>2. QED
      BY <1>1, <1>3, <2>2, <3>1 DEF One
  <2>4. CASE kind # "single"
    <3>1. Bound(e)' = Bound(e) + 1
      BY <1>1, <2>4, Numbers DEF Bound, IInv
    <3>2. QED
      BY <1>1, <1>3, <2>2, <3>1 DEF One
  <2>5. QED
    BY <2>3, <2>4
<1>5. QED
  BY <1>1, <1>2, <1>3, <1>4 DEF RepeatInv, Distinct

\* The run is checked: single-model results of it are not stored, or nobody could ask.
LEMMA ExecuteRepeats ==
    ASSUME IInv, IInv', RepeatInv, Execute \/ ExecuteBlindly
    PROVE  RepeatInv'
<1>1. /\ orch = "checking" /\ orch' = "pushing"
      /\ UNCHANGED <<id, kind, run, todo, buffer, log, stray, starts>>
  BY DEF Execute, ExecuteBlindly, given, eventVars
<1>2. \A e \in Events : Yet(e)' <=> Yet(e)
  BY <1>1 DEF Yet, Alive
<1>3. \A e \in Events : Buffered(e)' <=> Buffered(e)
  BY <1>1 DEF Buffered
<1>4. (Execute /\ blind' = blind) \/ blind' = blind + 1
  BY DEF Execute, ExecuteBlindly
<1>5. ASSUME NEW e \in Events
      PROVE  log'[e] + One(Buffered(e)') + One(ToCome(e)') <= Bound(e)'
  <2>1. log[e] + One(Buffered(e)) + One(ToCome(e)) <= Bound(e)
    BY DEF RepeatInv
  <2>2. /\ log[e] \in Nat /\ Bound(e) \in Nat
        /\ One(Buffered(e)) \in Nat /\ One(ToCome(e)) \in {0, 1} /\ One(ToCome(e)') \in {0, 1}
    BY Numbers DEF One, IInv
  <2>3. One(Buffered(e)') = One(Buffered(e))
    BY <1>3 DEF One
  <2>4. CASE kind # "single"
    <3>1. Bound(e)' = Bound(e) /\ One(ToCome(e)') = One(ToCome(e))
      BY <1>1, <1>2, <2>4 DEF Bound, ToCome, One
    <3>2. QED
      BY <1>1, <2>1, <2>3, <3>1
  <2>5. CASE kind = "single" /\ blind' = blind + 1
    <3>1. Bound(e)' = Bound(e) + 1
      BY <1>1, <2>5, Numbers DEF Bound, IInv
    <3>2. QED
      BY <1>1, <2>1, <2>2, <2>3, <3>1
  <2>6. CASE kind = "single" /\ Execute /\ blind' = blind
    <3>1. Bound(e)' = Bound(e) /\ Bound(e) >= 1
      BY <1>1, <2>6, Numbers DEF Bound, IInv
    <3>2. CASE ToCome(e)'
      <4>1. e[1] = run /\ e[2] > 0
        BY <1>1, <2>6, <3>2 DEF ToCome, Due
      <4>2. log[e] = 0
        BY <2>2, <2>6, <4>1 DEF Execute, Completed, IsMarker
      <4>3. ~ Buffered(e)
        BY <1>1, <4>1 DEF RepeatInv, Yet, Alive
      <4>4. QED
        BY <1>1, <2>2, <2>3, <3>1, <4>2, <4>3 DEF One
    <3>3. CASE ~ ToCome(e)'
      <4>1. One(ToCome(e)') = 0
        BY <3>3 DEF One
      <4>2. QED
        BY <1>1, <2>1, <2>2, <2>3, <3>1, <4>1
    <3>4. QED
      BY <3>2, <3>3
  <2>7. QED
    BY <1>4, <2>4, <2>5, <2>6
<1>6. QED
  BY <1>1, <1>2, <1>3, <1>5 DEF RepeatInv, Distinct

\* The event e, which was still to come, is emitted.
LEMMA EmitRepeats ==
    ASSUME IInv, IInv', RepeatInv, NEW e \in Events, buffer' = Append(buffer, e),
           UNCHANGED log, \A f \in Events : Bound(f)' = Bound(f), Yet(e), ToCome(e), ~ Yet(e)', ~ ToCome(e)',
           orch' \notin {"down", "finished"},
           \A f \in Events : Yet(f)' => Yet(f),
           \A f \in Events : ToCome(f)' => ToCome(f)
    PROVE  RepeatInv'
<1>1. buffer \in Seq(Events) /\ Distinct(buffer) /\ ~ Buffered(e)
  BY DEF IInv, TypeOK, RepeatInv
<1>2. Distinct(buffer') /\ \A f : Buffered(f)' <=> Buffered(f) \/ f = e
  BY <1>1, NewcomerJoins DEF Buffered
<1>3. \A f \in Events : Buffered(f)' => ~ Yet(f)'
  BY <1>2 DEF RepeatInv
<1>4. ASSUME NEW f \in Events
      PROVE  log'[f] + One(Buffered(f)') + One(ToCome(f)') <= Bound(f)'
  <2>1. log[f] + One(Buffered(f)) + One(ToCome(f)) <= Bound(f) /\ log[f] \in Nat /\ Bound(f) \in Nat
    BY Numbers DEF RepeatInv, IInv
  <2>2. One(Buffered(f)') + One(ToCome(f)') <= One(Buffered(f)) + One(ToCome(f))
    <3>1. CASE f = e
      BY <1>1, <1>2, <3>1 DEF One
    <3>2. CASE f # e
      BY <1>2, <3>2 DEF One
    <3>3. QED
      BY <3>1, <3>2
  <2>3. \A x : One(x) \in Nat
    BY DEF One
  <2>4. /\ One(Buffered(f)') \in Nat /\ One(ToCome(f)') \in Nat
        /\ One(Buffered(f)) \in Nat /\ One(ToCome(f)) \in Nat
    BY <2>3
  <2>5. QED
    BY <2>1, <2>2, <2>4
<1>5. QED
  BY <1>2, <1>3, <1>4 DEF RepeatInv

\* The next run: what was to come of this one is not, the rest still is.
LEMMA NextRunYet ==
    ASSUME IInv, NextRun, orch \in {"checking", "running"}
    PROVE  \A e \in Events : /\ Yet(e)' => Yet(e) /\ e[1] > run
                             /\ ~ Due(e)'
                             /\ orch' \in {"stopping", "waiting", "checking"}
<1>1. run \in Nat /\ run' = run + 1 /\ orch' \in {"stopping", "waiting", "checking"}
  BY BoundsAssumption DEF IInv, TypeOK, NextRun
<1>2. orch' = "stopping" => run = NumRuns
  BY <1>1 DEF NextRun
<1>3. ASSUME NEW e \in Events
      PROVE  Yet(e)' => Yet(e) /\ e[1] > run
  <2>1. e[1] \in Nat /\ e[1] <= NumRuns
    BY EventFacts, BoundsAssumption
  <2>2. QED
    BY <1>1, <1>2, <2>1, BoundsAssumption DEF Yet, Alive
<1>4. QED
  BY <1>1, <1>3 DEF Due

LEMMA SkipRepeats == ASSUME IInv, IInv', RepeatInv, Skip PROVE RepeatInv'
<1>1. /\ orch = "checking" /\ NextRun
      /\ UNCHANGED <<kind, buffer, log, stray, starts, blind>>
  BY DEF Skip, given, eventVars
<1>2. \A e \in Events : Yet(e)' => Yet(e)
  BY <1>1, NextRunYet
<1>3. \A e \in Events : ToCome(e)' => ToCome(e)
  BY <1>1, <1>2, NextRunYet DEF ToCome
<1>4. \A e \in Events : Buffered(e) => ~ Yet(e)'
  BY <1>2 DEF RepeatInv
<1>5. \A e \in Events : Bound(e) <= Bound(e)'
  BY <1>1, Numbers DEF Bound, IInv
<1>6. orch' \notin {"down", "finished"}
  BY <1>1 DEF NextRun
<1>7. QED
  BY <1>1, <1>3, <1>4, <1>5, <1>6, RepeatKeep DEF IInv

LEMMA FinishRunRepeats == ASSUME IInv, IInv', RepeatInv, FinishRun PROVE RepeatInv'
<1>1. /\ orch = "running" /\ NextRun
      /\ buffer' = IF kind = "single" THEN buffer ELSE Append(buffer, <<run, 0>>)
      /\ UNCHANGED <<kind, log, stray, starts, blind>>
  BY DEF FinishRun, given
<1>2. \A e \in Events : Yet(e)' => Yet(e) /\ e[1] > run
  BY <1>1, NextRunYet
<1>3. \A e \in Events : ToCome(e)' => ToCome(e)
  BY <1>1, <1>2, NextRunYet DEF ToCome
<1>4. \A e \in Events : Buffered(e) => ~ Yet(e)'
  BY <1>2 DEF RepeatInv
<1>5. \A e \in Events : Bound(e)' = Bound(e) /\ Bound(e) <= Bound(e)'
  BY <1>1, Numbers DEF Bound, IInv
<1>6. orch' \notin {"down", "finished"}
  BY <1>1 DEF NextRun
<1>7. CASE kind = "single"
  BY <1>1, <1>3, <1>4, <1>5, <1>6, <1>7, RepeatKeep DEF IInv
<1>8. CASE kind # "single"
  <2>0. run \in Runs /\ 0 \in 0 .. NumBatches
    BY <1>1, BoundsAssumption DEF IInv, TypeOK, WalkInv, Runs
  <2>e. PICK e \in Events : e = <<run, 0>>
    BY <2>0 DEF Events
  <2>1. e \in Events /\ e[1] = run /\ e[2] = 0 /\ run \in Nat
    BY <2>e, BoundsAssumption DEF IInv, TypeOK
  <2>2. Yet(e) /\ ToCome(e)
    BY <1>1, <1>8, <2>1 DEF Yet, ToCome, Alive
  <2>3. ~ Yet(e)'
    BY <1>2, <2>1
  <2>4. ~ ToCome(e)'
    BY <1>1, <1>8, <2>3 DEF ToCome
  <2>5. buffer' = Append(buffer, e)
    BY <1>1, <1>8, <2>e
  <2>6. QED
    BY <1>1, <1>2, <1>3, <1>5, <1>6, <2>1, <2>2, <2>3, <2>4, <2>5, EmitRepeats
<1>9. QED
  BY <1>7, <1>8

LEMMA BatchRepeats ==
    ASSUME IInv, IInv', RepeatInv, NEW b \in Batches, BatchRecorded(b) \/ BatchGivenUp(b)
    PROVE  RepeatInv'
<1>1. /\ orch = "running" /\ b \in todo /\ todo' = todo \ {b}
      /\ UNCHANGED <<orch, run, kind, log, stray, starts, blind>>
  BY DEF BatchRecorded, BatchGivenUp, given, eventVars
<1>2. \A e \in Events : Yet(e)' => Yet(e)
  BY <1>1 DEF Yet
<1>3. \A e \in Events : ToCome(e)' => ToCome(e)
  BY <1>1, <1>2 DEF ToCome, Due
<1>4. \A e \in Events : Bound(e)' = Bound(e) /\ Bound(e) <= Bound(e)'
  BY <1>1, Numbers DEF Bound, IInv
<1>5. CASE BatchGivenUp(b)
  <2>1. UNCHANGED buffer
    BY <1>5 DEF BatchGivenUp, eventVars
  <2>2. \A e \in Events : Buffered(e) => ~ Yet(e)'
    BY <1>2 DEF RepeatInv
  <2>3. QED
    BY <1>1, <1>3, <1>4, <2>1, <2>2, RepeatKeep DEF IInv
<1>6. CASE BatchRecorded(b)
  <2>0. run \in Runs /\ b \in 0 .. NumBatches
    BY <1>1, BoundsAssumption DEF IInv, TypeOK, WalkInv, Runs, Batches
  <2>e. PICK e \in Events : e = <<run, b>>
    BY <2>0 DEF Events
  <2>1. e \in Events /\ e[1] = run /\ e[2] = b /\ run \in Nat /\ b \in Nat /\ b > 0
    BY <2>e, BoundsAssumption DEF IInv, TypeOK, Batches
  <2>2. Yet(e) /\ ToCome(e)
    BY <1>1, <2>1 DEF Yet, ToCome, Due, Alive
  <2>3. ~ Yet(e)' /\ ~ ToCome(e)'
    BY <1>1, <2>1 DEF Yet, ToCome, Due, Alive
  <2>4. buffer' = Append(buffer, e)
    BY <1>6, <2>e DEF BatchRecorded
  <2>5. QED
    BY <1>1, <1>2, <1>3, <1>4, <2>1, <2>2, <2>3, <2>4, EmitRepeats
<1>7. QED
  BY <1>5, <1>6

\* An event leaves the buffer, for the files or for good.
LEMMA LeaveRepeats == ASSUME IInv, IInv', RepeatInv, Deliver \/ DropEvent PROVE RepeatInv'
<1>1. /\ buffer # <<>> /\ buffer' = Tail(buffer)
      /\ log' = log \/ log' = [log EXCEPT ![Head(buffer)] = @ + 1]
      /\ UNCHANGED <<kind, orch, run, todo, stray, starts, blind>>
  BY DEF Deliver, DropEvent, Unanswered, given, orchVars
<1>2. buffer \in Seq(Events) /\ Distinct(buffer) /\ log \in [Events -> Nat]
  BY DEF IInv, TypeOK, RepeatInv
<1>3. /\ Head(buffer) = buffer[1] /\ 1 \in 1 .. Len(buffer) /\ buffer[1] \in Events
      /\ Tail(buffer) \in Seq(Events) /\ Distinct(Tail(buffer))
      /\ \A f : Holds(Tail(buffer), f) <=> Holds(buffer, f) /\ f # buffer[1]
  BY <1>1, <1>2, HeadLeaves
<1>4. Distinct(buffer') /\ \A f : Buffered(f)' <=> Buffered(f) /\ f # buffer[1]
  BY <1>1, <1>3 DEF Buffered
<1>5. Buffered(buffer[1])
  BY <1>3 DEF Buffered, Holds
<1>6. \A f : Yet(f)' = Yet(f) /\ ToCome(f)' = ToCome(f)
  BY <1>1 DEF Yet, ToCome, Due
<1>7. \A e \in Events : Bound(e)' = Bound(e)
  BY <1>1 DEF Bound
<1>8. ASSUME NEW f \in Events
      PROVE  log'[f] + One(Buffered(f)') + One(ToCome(f)') <= Bound(f)'
  <2>1. log[f] + One(Buffered(f)) + One(ToCome(f)) <= Bound(f) /\ log[f] \in Nat /\ Bound(f) \in Nat
    BY Numbers DEF RepeatInv, IInv
  <2>2. One(ToCome(f)') = One(ToCome(f)) /\ One(ToCome(f)) \in Nat
    BY <1>6 DEF One
  <2>3. CASE f = buffer[1]
    <3>1. One(Buffered(f)) = 1 /\ One(Buffered(f)') = 0
      BY <1>4, <1>5, <2>3 DEF One
    <3>2. log'[f] \in {log[f], log[f] + 1}
      BY <1>1, <1>2, <1>3, <2>3
    <3>3. QED
      BY <1>7, <2>1, <2>2, <3>1, <3>2
  <2>4. CASE f # buffer[1]
    <3>1. One(Buffered(f)') = One(Buffered(f)) /\ One(Buffered(f)) \in Nat
      BY <1>4, <2>4 DEF One
    <3>2. log'[f] = log[f]
      BY <1>1, <1>2, <1>3, <2>4
    <3>3. QED
      BY <1>7, <2>1, <2>2, <3>1, <3>2
  <2>5. QED
    BY <2>3, <2>4
<1>9. orch' \in {"down", "finished"} => buffer' = <<>>
  BY <1>1 DEF RepeatInv
<1>10. QED
  BY <1>4, <1>6, <1>8, <1>9 DEF RepeatInv

\* A POST whose sender had stopped waiting for it is counted as such.
LEMMA LateRepeats ==
    ASSUME IInv, IInv', RepeatInv, NEW e \in Events, LateArrives(e)
    PROVE  RepeatInv'
<1>1. /\ log' = [log EXCEPT ![e] = @ + 1] /\ stray' = [stray EXCEPT ![e] = @ + 1]
      /\ UNCHANGED <<kind, orch, run, todo, buffer, starts, blind>>
  BY DEF LateArrives, given, orchVars
<1>2. \A f : Yet(f)' = Yet(f) /\ ToCome(f)' = ToCome(f) /\ Buffered(f)' = Buffered(f)
  BY <1>1 DEF Yet, ToCome, Due, Buffered
<1>3. ASSUME NEW f \in Events
      PROVE  log'[f] + One(Buffered(f)') + One(ToCome(f)') <= Bound(f)'
  <2>1. log[f] + One(Buffered(f)) + One(ToCome(f)) <= Bound(f) /\ log[f] \in Nat
    BY Numbers DEF RepeatInv, IInv
  <2>2. /\ One(ToCome(f)') = One(ToCome(f)) /\ One(Buffered(f)') = One(Buffered(f))
        /\ One(ToCome(f)) \in Nat /\ One(Buffered(f)) \in Nat
    BY <1>2 DEF One
  <2>3. blind \in Nat /\ starts \in Nat /\ stray[f] \in Nat /\ Bound(f) \in Nat
    BY Numbers DEF IInv
  <2>4. CASE f = e
    <3>1. log'[f] = log[f] + 1 /\ stray'[f] = stray[f] + 1
      BY <1>1, <2>4 DEF IInv, TypeOK
    <3>2. Bound(f)' = Bound(f) + 1
      BY <1>1, <2>3, <3>1 DEF Bound
    <3>3. QED
      BY <2>1, <2>2, <2>3, <3>1, <3>2
  <2>5. CASE f # e
    <3>1. log'[f] = log[f] /\ stray'[f] = stray[f]
      BY <1>1, <2>5 DEF IInv, TypeOK
    <3>2. Bound(f)' = Bound(f)
      BY <1>1, <3>1 DEF Bound
    <3>3. QED
      BY <2>1, <2>2, <3>1, <3>2
  <2>6. QED
    BY <2>4, <2>5
<1>4. QED
  BY <1>1, <1>2, <1>3 DEF RepeatInv, Distinct

\* The other steps of the orchestrator, and those of the nodes.
LEMMA QuietRepeats ==
    ASSUME IInv, IInv', RepeatInv,
           UNCHANGED <<kind, run, log, stray, starts, blind>>,
           buffer' = buffer \/ buffer' = <<>>,
           \/ orch' = "down" /\ buffer' = <<>>
           \/ orch' = "finished" /\ buffer' = <<>>
           \/ orch' = orch /\ todo' = todo
           \/ orch = "waiting" /\ orch' = "checking"
           \/ orch = "pushing" /\ orch' = "running"
    PROVE  RepeatInv'
<1>1. \A e \in Events : Yet(e)' => Yet(e)
  BY DEF Yet, Alive
<1>2. \A e \in Events : ToCome(e)' => ToCome(e)
  BY <1>1 DEF ToCome, Due
<1>3. \A e \in Events : Buffered(e) => ~ Yet(e)'
  BY <1>1 DEF RepeatInv
<1>4. \A e \in Events : Bound(e) <= Bound(e)'
  BY Numbers DEF Bound, IInv
<1>5. orch' \in {"down", "finished"} => buffer' = <<>>
  BY DEF RepeatInv
<1>6. QED
  BY <1>2, <1>3, <1>4, <1>5, RepeatKeep DEF IInv

LEMMA RInvNext == RInv /\ [Next]_vars => RInv'
<1> SUFFICES ASSUME RInv, [Next]_vars
             PROVE  RInv'
  OBVIOUS
<1>0. IInv /\ RepeatInv /\ IInv'
  BY IInvNext DEF RInv
<1>1. CASE Start
  BY <1>0, <1>1, StartRepeats DEF RInv
<1>2. CASE Checking
  BY <1>0, <1>2, SkipRepeats, ExecuteRepeats DEF Checking, RInv
<1>3. CASE NodesReady \/ Push \/ Finish \/ \E n \in Nodes : NodeAnswers(n)
  BY <1>0, <1>3, QuietRepeats
     DEF NodesReady, Push, Finish, NodeAnswers, given, eventVars, RInv
<1>4. CASE BatchOver
  BY <1>0, <1>4, BatchRepeats DEF BatchOver, RInv
<1>5. CASE FinishRun
  BY <1>0, <1>5, FinishRunRepeats DEF RInv
<1>6. CASE Killed \/ ReadyTimeout \/ PushFails
  BY <1>0, <1>6, QuietRepeats DEF Killed, ReadyTimeout, PushFails, Dies, given, RInv
<1>7. CASE Deliver \/ PostAgain \/ DropEvent \/ \E e \in Events : LateArrives(e)
  <2>1. CASE Deliver \/ DropEvent \/ \E e \in Events : LateArrives(e)
    BY <1>0, <2>1, LeaveRepeats, LateRepeats DEF RInv
  <2>2. CASE PostAgain
    BY <1>0, <2>2, QuietRepeats DEF PostAgain, Unanswered, given, orchVars, RInv
  <2>3. QED
    BY <1>7, <2>1, <2>2
<1>8. CASE \E n \in Nodes : NodeGoes(n) \/ NodeComes(n)
  BY <1>0, <1>8, QuietRepeats DEF NodeGoes, NodeComes, given, orchVars, eventVars, RInv
<1>9. CASE UNCHANGED vars
  BY <1>0, <1>9, QuietRepeats DEF vars, given, orchVars, eventVars, RInv
<1>10. QED
  BY <1>1, <1>2, <1>3, <1>4, <1>5, <1>6, <1>7, <1>8, <1>9 DEF Next

\* Beyond the copies that came by POSTs nobody waited for any more, a single-model result
\* is stored once and once more for every check that could not ask, any other event at most
\* once per start, however often it is posted and however the starts die (runner.py:230,
\* multi_runner.py:263, emitter.py:126).
THEOREM RepeatsAreAccountedFor == Spec => []RepeatsAccountedFor
<1>1. Init => RInv
  BY IInvInit, RepeatInvInit DEF RInv
<1>2. RInv => RepeatsAccountedFor
  <2> SUFFICES ASSUME RInv, NEW e \in Events
               PROVE  log[e] <= stray[e] + (IF kind = "single" THEN 1 + blind ELSE starts)
    BY DEF RepeatsAccountedFor
  <2>1. /\ log[e] + One(Buffered(e)) + One(ToCome(e)) <= Bound(e)
        /\ log[e] \in Nat /\ stray[e] \in Nat /\ blind \in Nat /\ starts \in Nat
        /\ One(Buffered(e)) \in Nat /\ One(ToCome(e)) \in Nat
    BY Numbers DEF RInv, RepeatInv, IInv
  <2>2. Bound(e) = (IF kind = "single" THEN 1 + blind ELSE starts) + stray[e]
    BY DEF Bound
  <2>3. CASE kind = "single"
    BY <2>1, <2>2, <2>3
  <2>4. CASE kind # "single"
    BY <2>1, <2>2, <2>4
  <2>5. QED
    BY <2>3, <2>4
<1>3. QED
  BY <1>1, RInvNext, <1>2, PTL DEF Spec
=============================================================================
