------------------------ MODULE MetricsEmitterProofs ------------------------
(***************************************************************************)
(* For any number of events, any buffer and batch size and any number of   *)
(* retries: no metric event disappears (Spec => []Accounted), and none is  *)
(* stored more often than it was tried (Spec => []BoundedDuplicates).      *)
(***************************************************************************)
EXTENDS MetricsEmitter, FiniteSetTheorems, Queues, SequenceTheorems, TLAPS

-----------------------------------------------------------------------------
(* Queues that are left from the head.                                     *)

\* Once the head has left, all others are still there.
LEMMA HeadLeaves ==
    ASSUME NEW S, NEW s \in Seq(S), s # <<>>, Distinct(s)
    PROVE  /\ Head(s) = s[1] /\ 1 \in 1 .. Len(s) /\ s[1] \in S
           /\ Tail(s) \in Seq(S) /\ Distinct(Tail(s))
           /\ \A x : Holds(Tail(s), x) <=> Holds(s, x) /\ x # s[1]
<1>1. /\ Len(s) \in Nat /\ 1 \in 1 .. Len(s) /\ Head(s) = s[1] /\ s[1] \in S
      /\ Tail(s) \in Seq(S) /\ Len(Tail(s)) = Len(s) - 1
      /\ \A i \in 1 .. Len(s) - 1 : Tail(s)[i] = s[i + 1] /\ i + 1 \in 1 .. Len(s) /\ i + 1 # 1
      /\ \A i \in 1 .. Len(s) : i = 1 \/ (i - 1 \in 1 .. Len(s) - 1 /\ (i - 1) + 1 = i)
  BY HeadTailProperties, LenProperties, EmptySeq
<1>2. Distinct(Tail(s))
  BY <1>1 DEF Distinct
<1>3. \A x : Holds(Tail(s), x) => Holds(s, x) /\ x # s[1]
  BY <1>1 DEF Holds, Distinct
<1>4. \A x : Holds(s, x) /\ x # s[1] => Holds(Tail(s), x)
  BY <1>1 DEF Holds
<1>5. QED
  BY <1>1, <1>2, <1>3, <1>4

\* A newcomer stands at the end.
LEMMA NewcomerJoins ==
    ASSUME NEW S, NEW s \in Seq(S), NEW e \in S
    PROVE  /\ \A x : Holds(Append(s, e), x) <=> Holds(s, x) \/ x = e
           /\ Distinct(s) /\ ~ Holds(s, e) => Distinct(Append(s, e))
<1>1. /\ Append(s, e) \in Seq(S)
      /\ Len(Append(s, e)) = Len(s) + 1 /\ Len(s) \in Nat
      /\ Append(s, e)[Len(s) + 1] = e
      /\ \A i \in 1 .. Len(s) : Append(s, e)[i] = s[i] /\ i \in 1 .. Len(s) + 1
      /\ \A i \in 1 .. Len(s) + 1 : i \in 1 .. Len(s) \/ i = Len(s) + 1
  BY AppendProperties, LenProperties
<1>2. \A x : Holds(Append(s, e), x) <=> Holds(s, x) \/ x = e
  BY <1>1 DEF Holds
<1>3. Distinct(s) /\ ~ Holds(s, e) => Distinct(Append(s, e))
  BY <1>1 DEF Distinct, Holds
<1>4. QED
  BY <1>2, <1>3

-----------------------------------------------------------------------------
(* The elements of the sequences the operations build.                     *)

LEMMA ContentsAppend ==
    ASSUME NEW s \in Seq(Events), NEW e \in Events
    PROVE  /\ Append(s, e) \in Seq(Events)
           /\ Contents(s) \cup {e} \subseteq Contents(Append(s, e))
<1>1. Append(s, e) \in Seq(Events) /\ Len(Append(s, e)) = Len(s) + 1
  OBVIOUS
<1>2. /\ Append(s, e)[Len(s) + 1] = e
      /\ \A i \in 1 .. Len(s) : Append(s, e)[i] = s[i]
  OBVIOUS
<1>3. Len(s) + 1 \in 1 .. Len(s) + 1 /\ 1 .. Len(s) \subseteq 1 .. Len(s) + 1
  OBVIOUS
<1>4. QED
  BY <1>1, <1>2, <1>3 DEF Contents

LEMMA ContentsTail ==
    ASSUME NEW s \in Seq(Events), s # <<>>
    PROVE  /\ Head(s) \in Events
           /\ Tail(s) \in Seq(Events)
           /\ Contents(s) \subseteq {Head(s)} \cup Contents(Tail(s))
<1>1. Head(s) = s[1] /\ Head(s) \in Events /\ Tail(s) \in Seq(Events)
  OBVIOUS
<1>2. Len(Tail(s)) = Len(s) - 1 /\ \A i \in 1 .. Len(s) - 1 : Tail(s)[i] = s[i + 1]
  OBVIOUS
<1>3. ASSUME NEW i \in 1 .. Len(s)
      PROVE  s[i] \in {Head(s)} \cup Contents(Tail(s))
  <2>1. CASE i = 1
    BY <1>1, <2>1
  <2>2. CASE i # 1
    <3>1. i - 1 \in 1 .. Len(s) - 1 /\ (i - 1) + 1 = i
      BY <2>2
    <3>2. Tail(s)[i - 1] = s[i]
      BY <1>2, <3>1
    <3>3. QED
      BY <1>2, <3>1, <3>2 DEF Contents
  <2>3. QED
    BY <2>1, <2>2
<1>4. QED
  BY <1>1, <1>3 DEF Contents

LEMMA WrittenIsStored ==
    ASSUME log \in [Events -> Nat], NEW s \in Seq(Events), log' = Written(s)
    PROVE  /\ log' \in [Events -> Nat]
           /\ Stored \cup Contents(s) \subseteq Stored'
<1>1. \A e \in Events : log'[e] = log[e] + IF e \in Contents(s) THEN 1 ELSE 0
  BY DEF Written
<1>2. Contents(s) \subseteq Events
  BY DEF Contents
<1>3. log' \in [Events -> Nat]
  BY DEF Written
<1>4. QED
  BY <1>1, <1>2, <1>3 DEF Stored

LEMMA ContentsSplit ==
    ASSUME NEW s \in Seq(Events), NEW n \in 0 .. Len(s)
    PROVE  /\ SubSeq(s, 1, n) \in Seq(Events)
           /\ SubSeq(s, n + 1, Len(s)) \in Seq(Events)
           /\ Contents(s) \subseteq Contents(SubSeq(s, 1, n))
                                      \cup Contents(SubSeq(s, n + 1, Len(s)))
<1> DEFINE f == SubSeq(s, 1, n)
           g == SubSeq(s, n + 1, Len(s))
<1>1. f \in Seq(Events) /\ Len(f) = n /\ \A i \in 1 .. n : f[i] = s[i]
  OBVIOUS
<1>2. /\ g \in Seq(Events)
      /\ Len(g) = Len(s) - n
      /\ \A i \in 1 .. Len(s) - n : g[i] = s[n + i]
  OBVIOUS
<1> HIDE DEF f, g
<1>3. ASSUME NEW i \in 1 .. Len(s)
      PROVE  s[i] \in Contents(f) \cup Contents(g)
  <2>1. CASE i <= n
    BY <1>1, <2>1 DEF Contents
  <2>2. CASE i > n
    <3>1. i - n \in 1 .. Len(s) - n /\ n + (i - n) = i
      BY <2>2
    <3>2. g[i - n] = s[i]
      BY <1>2, <3>1
    <3>3. QED
      BY <1>2, <3>1, <3>2 DEF Contents
  <2>3. QED
    BY <2>1, <2>2
<1>4. Contents(s) \subseteq Contents(f) \cup Contents(g)
  BY <1>3 DEF Contents
<1>5. QED
  BY <1>1, <1>2, <1>4 DEF f, g

-----------------------------------------------------------------------------
(* The inductive invariant: the sequences are sequences of events, and an  *)
(* "ok" that a sender has seen is about a batch that is in the files.      *)

SeqsOK ==
    /\ buffer \in Seq(Events)
    /\ batch \in Seq(Events)
    /\ log \in [Events -> Nat]
    /\ \A m \in wire : m.events \in Seq(Events)

AnswerInv == pump = "posting" /\ answer = "ok" => Contents(batch) \subseteq Stored

IInv == SeqsOK /\ AnswerInv /\ Accounted

LEMMA IInvInit == Init => IInv
<1> SUFFICES ASSUME Init
             PROVE  IInv
  OBVIOUS
<1>1. <<>> \in Seq(Events)
  OBVIOUS
<1>2. SeqsOK
  BY <1>1 DEF Init, SeqsOK
<1>3. AnswerInv /\ Accounted
  BY DEF Init, AnswerInv, Accounted
<1>4. QED
  BY <1>2, <1>3 DEF IInv

LEMMA EmitStep ==
    ASSUME IInv, NEW e \in Events, Emit(e)
    PROVE  IInv'
<1>1. CASE Len(buffer) < BufferSize
  <2>1. buffer' \in Seq(Events) /\ Contents(buffer) \cup {e} \subseteq Contents(buffer')
    BY <1>1, ContentsAppend DEF Emit, IInv, SeqsOK
  <2>2. QED
    BY <1>1, <2>1 DEF Emit, IInv, SeqsOK, AnswerInv, Accounted, Stored
<1>2. CASE ~(Len(buffer) < BufferSize)
  BY <1>2 DEF Emit, IInv, SeqsOK, AnswerInv, Accounted, Stored
<1>3. QED
  BY <1>1, <1>2

LEMMA CollectStep ==
    ASSUME IInv, Collect
    PROVE  IInv'
<1>1. /\ Head(buffer) \in Events
      /\ buffer' \in Seq(Events)
      /\ Contents(buffer) \subseteq {Head(buffer)} \cup Contents(buffer')
  BY ContentsTail DEF Collect, IInv, SeqsOK
<1>2. /\ batch' \in Seq(Events)
      /\ Contents(batch) \cup {Head(buffer)} \subseteq Contents(batch')
  BY <1>1, ContentsAppend DEF Collect, IInv, SeqsOK
<1>3. SeqsOK' /\ AnswerInv'
  BY <1>1, <1>2 DEF Collect, IInv, SeqsOK, AnswerInv
<1>4. Stored' = Stored /\ emitted' = emitted /\ warned' = warned /\ abandoned' = abandoned
  BY DEF Collect, Stored, Contents
<1>5. Accounted'
  BY <1>1, <1>2, <1>4 DEF IInv, Accounted
<1>6. QED
  BY <1>3, <1>5 DEF IInv

LEMMA SendStep ==
    ASSUME IInv, CollectEnds \/ WorkerExits \/ Answered \/ AttemptFails \/ Retry
    PROVE  IInv'
<1>1. CASE CollectEnds \/ Retry
  BY <1>1 DEF CollectEnds, Retry, Post, IInv, SeqsOK, AnswerInv, Accounted, Stored
<1>2. CASE WorkerExits
  BY <1>2 DEF WorkerExits, IInv, SeqsOK, AnswerInv, Accounted, Stored
<1>3. CASE Answered
  <2>1. Contents(batch) \subseteq Stored
    BY <1>3 DEF Answered, IInv, AnswerInv
  <2>2. /\ batch' = <<>> /\ answer' = "none"
        /\ UNCHANGED <<emitted, buffer, warned, abandoned, wire, log>>
    BY <1>3 DEF Answered, SendDone
  <2>3. QED
    BY <2>1, <2>2 DEF IInv, SeqsOK, AnswerInv, Accounted, Stored
<1>4. CASE AttemptFails
  <2>1. UNCHANGED <<emitted, buffer, abandoned, wire, log>>
    BY <1>4 DEF AttemptFails
  <2>2. CASE attempt = MaxRetries
    <3>1. batch' = <<>> /\ answer' = "none" /\ warned' = warned \cup Contents(batch)
      BY <1>4, <2>2 DEF AttemptFails, SendDone
    <3>2. QED
      BY <2>1, <3>1 DEF IInv, SeqsOK, AnswerInv, Accounted, Stored
  <2>3. CASE attempt # MaxRetries
    <3>1. pump' = "backoff" /\ UNCHANGED <<batch, warned>>
      BY <1>4, <2>3 DEF AttemptFails
    <3>2. QED
      BY <2>1, <3>1 DEF IInv, SeqsOK, AnswerInv, Accounted, Stored
  <2>4. QED
    BY <2>2, <2>3
<1>5. QED
  BY <1>1, <1>2, <1>3, <1>4

LEMMA FlushStep ==
    ASSUME IInv, Flush, batch = <<>>
    PROVE  IInv'
<1> DEFINE n == IF Len(buffer) < BatchSize THEN Len(buffer) ELSE BatchSize
<1>1. n \in 0 .. Len(buffer)
  BY EmitterAssumption DEF IInv, SeqsOK
<1>2. /\ batch' = SubSeq(buffer, 1, n)
      /\ buffer' = SubSeq(buffer, n + 1, Len(buffer))
      /\ UNCHANGED <<emitted, warned, abandoned, log>>
  BY DEF Flush
<1>3. \/ UNCHANGED <<pump, answer, wire>> /\ pump = "ended"
      \/ answer' = "none" /\ wire' = wire \cup {[events |-> batch', attempt |-> 1]}
  BY DEF Flush, Post
<1> HIDE DEF n
<1>4. /\ batch' \in Seq(Events) /\ buffer' \in Seq(Events)
      /\ Contents(buffer) \subseteq Contents(batch') \cup Contents(buffer')
  BY <1>1, <1>2, ContentsSplit DEF IInv, SeqsOK
<1>5. SeqsOK' /\ AnswerInv'
  <2>1. log' \in [Events -> Nat]
    BY <1>2 DEF IInv, SeqsOK
  <2>2. CASE UNCHANGED <<pump, answer, wire>> /\ pump = "ended"
    BY <1>4, <2>1, <2>2 DEF IInv, SeqsOK, AnswerInv
  <2>3. CASE answer' = "none" /\ wire' = wire \cup {[events |-> batch', attempt |-> 1]}
    BY <1>4, <2>1, <2>3 DEF IInv, SeqsOK, AnswerInv
  <2>4. QED
    BY <1>3, <2>2, <2>3
<1>6. Contents(batch) = {} /\ Stored' = Stored
  BY <1>2 DEF Contents, Stored
<1>7. Accounted'
  BY <1>2, <1>4, <1>6 DEF IInv, Accounted
<1>8. QED
  BY <1>5, <1>7 DEF IInv

LEMMA IngestStep ==
    ASSUME IInv, NEW m \in wire, Ingest(m) \/ IngestBreaks(m)
    PROVE  IInv'
<1>1. m.events \in Seq(Events) /\ log \in [Events -> Nat]
  BY DEF IInv, SeqsOK
<1>2. PICK s \in Seq(Events) : /\ log' = Written(s)
                               /\ Ingest(m) => s = m.events
  <2>1. CASE Ingest(m)
    BY <1>1, <2>1 DEF Ingest
  <2>2. CASE IngestBreaks(m) /\ ~ Ingest(m)
    <3>1. PICK k \in 0 .. Len(m.events) - 1 : log' = Written(SubSeq(m.events, 1, k))
      BY <2>2 DEF IngestBreaks
    <3>2. k \in 0 .. Len(m.events)
      BY <1>1
    <3>3. SubSeq(m.events, 1, k) \in Seq(Events)
      BY <1>1, <3>2, ContentsSplit
    <3>4. QED
      BY <2>2, <3>1, <3>3
  <2>3. QED
    BY <2>1, <2>2
<1>3. /\ log' \in [Events -> Nat]
      /\ Stored \cup Contents(s) \subseteq Stored'
  BY <1>1, <1>2, WrittenIsStored
<1>4. /\ wire' \subseteq wire
      /\ UNCHANGED <<emitted, buffer, warned, batch, pump, abandoned>>
  BY DEF Ingest, IngestBreaks
<1>5. SeqsOK' /\ Accounted'
  BY <1>3, <1>4 DEF IInv, SeqsOK, Accounted
<1>6. AnswerInv'
  <2>1. CASE answer' = answer
    BY <1>3, <1>4, <2>1 DEF IInv, AnswerInv
  <2>2. CASE answer' # answer
    <3>1. m = [events |-> batch, attempt |-> attempt]
      BY <2>2 DEF Ingest, IngestBreaks, Reply
    <3>2. CASE Ingest(m)
      <4>1. s = batch
        BY <1>2, <3>1, <3>2
      <4>2. QED
        BY <1>3, <1>4, <4>1 DEF AnswerInv
    <3>3. CASE IngestBreaks(m)
      <4>1. answer' = "error"
        BY <2>2, <3>3 DEF IngestBreaks, Reply
      <4>2. QED
        BY <4>1 DEF AnswerInv
    <3>4. QED
      BY <3>2, <3>3
  <2>3. QED
    BY <2>1, <2>2
<1>7. QED
  BY <1>5, <1>6 DEF IInv

\* When stop() flushes, the worker has let go of its batch, and stop() takes at
\* most one away from it.
HandsOff ==
    /\ pump = "ended" => batch = <<>>
    /\ stop \in {"running", "waiting"} => abandoned = {}

LEMMA HandsOffStep == HandsOff /\ [Next]_vars => HandsOff'
<1> SUFFICES ASSUME HandsOff, [Next]_vars
             PROVE  HandsOff'
  OBVIOUS
<1>1. ASSUME NEW m \in wire, Ingest(m) \/ IngestBreaks(m)
      PROVE  HandsOff'
  BY <1>1 DEF Ingest, IngestBreaks, HandsOff
<1>2. CASE Flush
  <2> DEFINE n == IF Len(buffer) < BatchSize THEN Len(buffer) ELSE BatchSize
  <2>1. CASE n = 0
    <3>1. batch' = SubSeq(buffer, 1, 0) /\ stop' = "stopped"
      BY <1>2, <2>1 DEF Flush
    <3>2. SubSeq(buffer, 1, 0) = <<>>
      OBVIOUS
    <3>3. QED
      BY <3>1, <3>2 DEF HandsOff
  <2>2. CASE n # 0
    <3>1. pump' = "posting" /\ stop' = "flushing"
      BY <1>2, <2>2 DEF Flush, Post
    <3>2. QED
      BY <3>1 DEF HandsOff
  <2>3. QED
    BY <2>1, <2>2
<1>3. QED
  BY <1>1, <1>2
  DEF Next, vars, Emit, Collect, CollectEnds, WorkerExits, Answered, AttemptFails, Retry,
      StopCalled, WorkerJoined, StopTimeout, Post, SendDone, HandsOff

LEMMA IInvStep == IInv /\ HandsOff /\ [Next]_vars => IInv'
<1> SUFFICES ASSUME IInv, HandsOff, [Next]_vars
             PROVE  IInv'
  OBVIOUS
<1>1. ASSUME NEW e \in Events, Emit(e)
      PROVE  IInv'
  BY <1>1, EmitStep
<1>2. CASE Collect
  BY <1>2, CollectStep
<1>3. CASE CollectEnds \/ WorkerExits \/ Answered \/ AttemptFails \/ Retry
  BY <1>3, SendStep
<1>4. CASE StopCalled \/ WorkerJoined
  BY <1>4 DEF StopCalled, WorkerJoined, IInv, SeqsOK, AnswerInv, Accounted, Stored
<1>5. CASE StopTimeout
  <2>1. abandoned = {}
    BY <1>5 DEF StopTimeout, HandsOff
  <2>2. QED
    BY <1>5, <2>1 DEF StopTimeout, IInv, SeqsOK, AnswerInv, Accounted, Stored
<1>6. CASE Flush
  <2>1. batch = <<>>
    BY <1>6 DEF Flush, HandsOff
  <2>2. QED
    BY <1>6, <2>1, FlushStep
<1>7. ASSUME NEW m \in wire, Ingest(m) \/ IngestBreaks(m)
      PROVE  IInv'
  BY <1>7, IngestStep
<1>8. CASE UNCHANGED vars
  BY <1>8 DEF vars, IInv, SeqsOK, AnswerInv, Accounted, Stored
<1>9. QED
  BY <1>1, <1>2, <1>3, <1>4, <1>5, <1>6, <1>7, <1>8 DEF Next

\* Whatever is lost, repeated, cut off or cancelled, an emitted event is held by
\* the emitter, stored, reported as dropped, or was in the batch stop() cancelled.
THEOREM NothingDisappears == Spec => []Accounted
<1>1. Init => IInv /\ HandsOff
  BY IInvInit DEF Init, HandsOff
<1>2. IInv /\ HandsOff /\ [Next]_vars => (IInv /\ HandsOff)'
  BY IInvStep, HandsOffStep
<1>3. IInv => Accounted
  BY DEF IInv
<1>4. QED
  BY <1>1, <1>2, <1>3, PTL DEF Spec

-----------------------------------------------------------------------------
(* Types.                                                                  *)

TypeInv ==
    /\ TypeOK
    /\ pump = "backoff" => attempt < MaxRetries

LEMMA TypeInvInit == Init => TypeInv
<1> SUFFICES ASSUME Init
             PROVE  TypeInv
  OBVIOUS
<1>1. <<>> \in Seq(Events) /\ Len(<<>>) = 0
  OBVIOUS
<1>2. 1 \in 1 .. MaxRetries /\ 0 <= BufferSize /\ 0 <= BatchSize
  BY EmitterAssumption
<1>3. QED
  BY <1>1, <1>2 DEF Init, TypeInv, TypeOK

LEMMA AttemptTypes ==
    /\ 1 \in 1 .. MaxRetries
    /\ \A n \in 1 .. MaxRetries : n < MaxRetries => n + 1 \in 1 .. MaxRetries
    /\ \A n \in 1 .. MaxRetries : n # MaxRetries => n < MaxRetries
  BY EmitterAssumption

LEMMA PostTypes ==
    ASSUME TypeInv, NEW s \in Seq(Events), NEW n \in 1 .. MaxRetries, Post(s, n)
    PROVE  wire' \in SUBSET Posts /\ attempt' \in 1 .. MaxRetries
           /\ pump' = "posting" /\ answer' = "none"
BY DEF Post, Posts, TypeInv, TypeOK

LEMMA WrittenType ==
    ASSUME TypeInv, NEW s, log' = Written(s)
    PROVE  log' \in [Events -> Nat]
<1>1. log \in [Events -> Nat]
  BY DEF TypeInv, TypeOK
<1>2. QED
  BY <1>1 DEF Written

LEMMA SendTypes ==
    ASSUME TypeInv, CollectEnds \/ WorkerExits \/ Answered \/ AttemptFails \/ Retry
    PROVE  TypeInv'
<1>1. /\ batch \in Seq(Events) /\ attempt \in 1 .. MaxRetries
      /\ <<>> \in Seq(Events) /\ Len(<<>>) = 0 /\ 0 <= BatchSize
  BY EmitterAssumption DEF TypeInv, TypeOK
<1>2. CASE CollectEnds
  <2>1. Post(batch, 1) /\ UNCHANGED <<emitted, buffer, warned, batch, stop, abandoned, log>>
    BY <1>2 DEF CollectEnds
  <2>2. QED
    BY <1>1, <2>1, PostTypes, AttemptTypes DEF TypeInv, TypeOK
<1>3. CASE Retry
  <2>1. /\ attempt < MaxRetries
        /\ Post(batch, attempt + 1)
        /\ UNCHANGED <<emitted, buffer, warned, batch, stop, abandoned, log>>
    BY <1>3 DEF Retry, TypeInv
  <2>2. QED
    BY <1>1, <2>1, PostTypes, AttemptTypes DEF TypeInv, TypeOK
<1>4. CASE WorkerExits
  BY <1>4 DEF WorkerExits, TypeInv, TypeOK
<1>5. CASE SendDone /\ warned' \subseteq warned \cup Contents(batch)
           /\ UNCHANGED <<emitted, buffer, abandoned, wire, log>>
  <2>1. warned' \in SUBSET Events
    BY <1>1, <1>5 DEF TypeInv, TypeOK, Contents
  <2>2. QED
    BY <1>1, <1>5, <2>1, AttemptTypes DEF SendDone, TypeInv, TypeOK
<1>6. CASE /\ pump' = "backoff" /\ attempt # MaxRetries
           /\ UNCHANGED <<batch, attempt, answer, stop, warned, emitted, buffer, abandoned, wire, log>>
  <2>1. attempt < MaxRetries
    BY <1>1, <1>6, AttemptTypes
  <2>2. QED
    BY <1>6, <2>1 DEF TypeInv, TypeOK
<1>7. QED
  BY <1>2, <1>3, <1>4, <1>5, <1>6 DEF Answered, AttemptFails

\* What a flush takes, and what it leaves.
LEMMA FlushTaken ==
    ASSUME NEW s \in Seq(Events), NEW n \in 0 .. Len(s)
    PROVE  /\ SubSeq(s, 1, n) \in Seq(Events) /\ Len(SubSeq(s, 1, n)) = n
           /\ SubSeq(s, n + 1, Len(s)) \in Seq(Events)
           /\ Len(SubSeq(s, n + 1, Len(s))) = Len(s) - n
           /\ \A i \in 1 .. n : SubSeq(s, 1, n)[i] = s[i]
           /\ \A i \in 1 .. Len(s) - n : SubSeq(s, n + 1, Len(s))[i] = s[n + i]
<1>1. /\ SubSeq(s, 1, n) \in Seq(Events) /\ Len(SubSeq(s, 1, n)) = n
      /\ \A i \in 1 .. n : SubSeq(s, 1, n)[i] = s[i]
  OBVIOUS
<1>2. /\ SubSeq(s, n + 1, Len(s)) \in Seq(Events)
      /\ Len(SubSeq(s, n + 1, Len(s))) = Len(s) - n
      /\ \A i \in 1 .. Len(s) - n : SubSeq(s, n + 1, Len(s))[i] = s[n + i]
  OBVIOUS
<1>3. QED
  BY <1>1, <1>2

\* What a flush does, in terms of the number it takes.
LEMMA FlushFacts ==
    ASSUME buffer \in Seq(Events), Flush
    PROVE  \E n \in 0 .. Len(buffer) :
              /\ n <= BatchSize
              /\ batch' = SubSeq(buffer, 1, n)
              /\ buffer' = SubSeq(buffer, n + 1, Len(buffer))
              /\ stop = "flushing" /\ pump = "ended"
              /\ UNCHANGED <<emitted, warned, abandoned, log>>
              /\ \/ n = 0 /\ stop' = "stopped" /\ UNCHANGED <<attempt, pump, answer, wire>>
                 \/ n # 0 /\ Post(batch', 1) /\ UNCHANGED stop
<1> DEFINE n == IF Len(buffer) < BatchSize THEN Len(buffer) ELSE BatchSize
<1>1. n \in 0 .. Len(buffer) /\ n <= BatchSize
  BY EmitterAssumption
<1>2. /\ batch' = SubSeq(buffer, 1, n)
      /\ buffer' = SubSeq(buffer, n + 1, Len(buffer))
      /\ stop = "flushing" /\ pump = "ended"
      /\ UNCHANGED <<emitted, warned, abandoned, log>>
      /\ \/ n = 0 /\ stop' = "stopped" /\ UNCHANGED <<attempt, pump, answer, wire>>
         \/ n # 0 /\ Post(batch', 1) /\ UNCHANGED stop
  BY DEF Flush
<1> HIDE DEF n
<1>3. QED
  BY <1>1, <1>2

LEMMA TypeInvNext == TypeInv /\ [Next]_vars => TypeInv'
<1> SUFFICES ASSUME TypeInv, [Next]_vars
             PROVE  TypeInv'
  OBVIOUS
<1>1. ASSUME NEW e \in Events, Emit(e)
      PROVE  TypeInv'
  <2>1. buffer \in Seq(Events) /\ Len(buffer) \in Nat /\ Len(buffer) <= BufferSize
    BY DEF TypeInv, TypeOK
  <2>2. buffer' \in Seq(Events) /\ Len(buffer') <= BufferSize
    <3>1. CASE Len(buffer) < BufferSize
      <4>1. buffer' = Append(buffer, e)
        BY <1>1, <3>1 DEF Emit
      <4>2. Len(buffer') = Len(buffer) + 1 /\ buffer' \in Seq(Events)
        BY <2>1, <4>1
      <4>3. QED
        BY <2>1, <3>1, <4>2, EmitterAssumption
    <3>2. CASE ~(Len(buffer) < BufferSize)
      BY <1>1, <2>1, <3>2 DEF Emit
    <3>3. QED
      BY <3>1, <3>2
  <2>3. warned' \in SUBSET Events /\ emitted' \in SUBSET Events
    BY <1>1 DEF Emit, TypeInv, TypeOK
  <2>4. UNCHANGED <<batch, attempt, pump, answer, stop, abandoned, wire, log>>
    BY <1>1 DEF Emit
  <2>5. QED
    BY <2>2, <2>3, <2>4 DEF TypeInv, TypeOK
<1>2. CASE Collect
  <2>1. /\ buffer \in Seq(Events) /\ Len(buffer) \in Nat /\ Len(buffer) <= BufferSize
        /\ batch \in Seq(Events) /\ Len(batch) \in Nat
    BY DEF TypeInv, TypeOK
  <2>2. /\ buffer # <<>> /\ Len(batch) < BatchSize
        /\ batch' = Append(batch, Head(buffer)) /\ buffer' = Tail(buffer)
        /\ UNCHANGED <<emitted, warned, attempt, pump, answer, stop, abandoned, wire, log>>
    BY <1>2 DEF Collect
  <2>3. /\ Head(buffer) \in Events /\ buffer' \in Seq(Events) /\ Len(buffer') = Len(buffer) - 1
    BY <2>1, <2>2
  <2>4. batch' \in Seq(Events) /\ Len(batch') = Len(batch) + 1
    BY <2>1, <2>2, <2>3
  <2>5. Len(buffer') <= BufferSize /\ Len(batch') <= BatchSize
    BY <2>1, <2>2, <2>3, <2>4, EmitterAssumption
  <2>6. QED
    BY <2>2, <2>3, <2>4, <2>5 DEF TypeInv, TypeOK
<1>3. CASE CollectEnds \/ WorkerExits \/ Answered \/ AttemptFails \/ Retry
  BY <1>3, SendTypes
<1>4. CASE StopCalled \/ WorkerJoined
  BY <1>4 DEF StopCalled, WorkerJoined, TypeInv, TypeOK
<1>5. CASE StopTimeout
  <2>1. Contents(batch) \in SUBSET Events
    BY DEF TypeInv, TypeOK, Contents
  <2>2. <<>> \in Seq(Events) /\ Len(<<>>) = 0 /\ 0 <= BatchSize
    BY EmitterAssumption
  <2>3. QED
    BY <1>5, <2>1, <2>2, AttemptTypes DEF StopTimeout, TypeInv, TypeOK
<1>6. CASE Flush
  <2>1. buffer \in Seq(Events) /\ Len(buffer) <= BufferSize
    BY DEF TypeInv, TypeOK
  <2>2. PICK n \in 0 .. Len(buffer) :
              /\ n <= BatchSize
              /\ batch' = SubSeq(buffer, 1, n)
              /\ buffer' = SubSeq(buffer, n + 1, Len(buffer))
              /\ stop = "flushing" /\ pump = "ended"
              /\ UNCHANGED <<emitted, warned, abandoned, log>>
              /\ \/ n = 0 /\ stop' = "stopped" /\ UNCHANGED <<attempt, pump, answer, wire>>
                 \/ n # 0 /\ Post(batch', 1) /\ UNCHANGED stop
    BY <1>6, <2>1, FlushFacts
  <2>3. /\ batch' \in Seq(Events) /\ Len(batch') = n
        /\ buffer' \in Seq(Events) /\ Len(buffer') = Len(buffer) - n
    BY <2>1, <2>2, FlushTaken
  <2>4. Len(buffer') <= BufferSize /\ Len(batch') <= BatchSize
    BY <2>1, <2>2, <2>3, EmitterAssumption
  <2>5. CASE n = 0 /\ stop' = "stopped" /\ UNCHANGED <<attempt, pump, answer, wire>>
    BY <2>2, <2>3, <2>4, <2>5 DEF TypeInv, TypeOK
  <2>6. CASE n # 0 /\ Post(batch', 1) /\ UNCHANGED stop
    BY <2>2, <2>3, <2>4, <2>6, PostTypes, AttemptTypes DEF TypeInv, TypeOK
  <2>7. QED
    BY <2>2, <2>5, <2>6
<1>7. ASSUME NEW m \in wire, Ingest(m) \/ IngestBreaks(m)
      PROVE  TypeInv'
  <2>1. \E s : log' = Written(s)
    BY <1>7 DEF Ingest, IngestBreaks
  <2>2. log' \in [Events -> Nat]
    BY <2>1, WrittenType
  <2>3. /\ wire' \subseteq wire /\ answer' \in {answer, "ok", "error"}
        /\ UNCHANGED <<emitted, buffer, warned, batch, attempt, pump, stop, abandoned>>
    BY <1>7 DEF Ingest, IngestBreaks, Reply
  <2>4. QED
    BY <2>2, <2>3 DEF TypeInv, TypeOK
<1>8. CASE UNCHANGED vars
  BY <1>8 DEF vars, TypeInv, TypeOK
<1>9. QED
  BY <1>1, <1>2, <1>3, <1>4, <1>5, <1>6, <1>7, <1>8 DEF Next

\* Neither the buffer nor a batch outgrows its capacity, and no POST is tried more
\* often than max_retries.
THEOREM TypeCorrect == Spec => []TypeOK
<1>1. TypeInv => TypeOK
  BY DEF TypeInv
<1>2. QED
  BY TypeInvInit, TypeInvNext, <1>1, PTL DEF Spec

-----------------------------------------------------------------------------
(* Copies of an event: every attempt at its one batch makes at most one.    *)

\* The POSTs on the wire that carry e.
Carriers(e) == {m \in wire : e \in Contents(m.events)}

\* The attempts that can have been made to store e.
Spent(e) ==
    IF e \notin emitted \/ Holds(buffer, e) \/ (Holds(batch, e) /\ pump = "collecting")
    THEN 0
    ELSE IF Holds(batch, e) THEN attempt ELSE MaxRetries

\* What was stored, and what may still be stored.
CountInv ==
    /\ IsFiniteSet(wire)
    /\ \A e \in Events : log[e] + Cardinality(Carriers(e)) <= Spent(e)

\* An event has one place in the buffer or in the batch.
PlaceInv ==
    /\ Distinct(buffer)
    /\ \A e : Holds(buffer, e) => e \in emitted /\ ~ Holds(batch, e)
    /\ \A e : Holds(batch, e) => e \in emitted

LEMMA ContentsHolds == \A s, e : e \in Contents(s) <=> Holds(s, e)
BY DEF Contents, Holds

LEMMA SpentNat == ASSUME TypeInv PROVE \A e : Spent(e) \in Nat /\ Spent(e) <= MaxRetries
<1>1. attempt \in 1 .. MaxRetries /\ MaxRetries \in Nat
  BY EmitterAssumption DEF TypeInv, TypeOK
<1>2. QED
  BY <1>1 DEF Spent

LEMMA SpentNatNext == ASSUME TypeInv' PROVE \A e : Spent(e)' \in Nat
<1>1. attempt' \in Nat /\ MaxRetries \in Nat
  BY EmitterAssumption DEF TypeInv, TypeOK
<1>2. QED
  BY <1>1 DEF Spent

LEMMA CarriersNat == ASSUME CountInv PROVE \A e : Cardinality(Carriers(e)) \in Nat
BY FS_Subset, FS_CardinalityType DEF CountInv, Carriers

LEMMA CountStays ==
    ASSUME TypeInv, TypeInv', CountInv, UNCHANGED <<wire, log>>,
           \A e \in Events : Spent(e) <= Spent(e)'
    PROVE  CountInv'
<1>1. ASSUME NEW e \in Events
      PROVE  log'[e] + Cardinality(Carriers(e)') <= Spent(e)'
  <2>1. log[e] + Cardinality(Carriers(e)) <= Spent(e)
    BY DEF CountInv
  <2>2. Carriers(e)' = Carriers(e)
    BY DEF Carriers
  <2>3. /\ log[e] \in Nat /\ Cardinality(Carriers(e)) \in Nat
        /\ Spent(e) \in Nat /\ Spent(e)' \in Nat
    BY SpentNat, SpentNatNext, CarriersNat DEF TypeInv, TypeOK
  <2>4. QED
    BY <2>1, <2>2, <2>3
<1>2. QED
  BY <1>1 DEF CountInv

LEMMA CountPost ==
    ASSUME TypeInv, TypeInv', CountInv, log' = log, NEW m, wire' = wire \cup {m},
           \A e \in Events : /\ Spent(e) <= Spent(e)'
                             /\ e \in Contents(m.events) => Spent(e) < Spent(e)'
    PROVE  CountInv'
<1>1. ASSUME NEW e \in Events
      PROVE  log'[e] + Cardinality(Carriers(e)') <= Spent(e)'
  <2>1. /\ log[e] + Cardinality(Carriers(e)) <= Spent(e)
        /\ log[e] \in Nat /\ Cardinality(Carriers(e)) \in Nat
        /\ Spent(e) \in Nat /\ Spent(e)' \in Nat
    BY SpentNat, SpentNatNext, CarriersNat DEF CountInv, TypeInv, TypeOK
  <2>2. CASE e \in Contents(m.events)
    <3>1. Carriers(e)' = Carriers(e) \cup {m}
      BY <2>2 DEF Carriers
    <3>2. IsFiniteSet(Carriers(e))
      BY FS_Subset DEF CountInv, Carriers
    <3>3. Cardinality(Carriers(e)') \in {Cardinality(Carriers(e)), Cardinality(Carriers(e)) + 1}
      BY <3>1, <3>2, FS_AddElement
    <3>4. QED
      BY <2>1, <2>2, <3>3
  <2>3. CASE e \notin Contents(m.events)
    <3>1. Carriers(e)' = Carriers(e)
      BY <2>3 DEF Carriers
    <3>2. QED
      BY <2>1, <3>1
  <2>4. QED
    BY <2>2, <2>3
<1>2. IsFiniteSet(wire')
  BY FS_AddElement DEF CountInv
<1>3. QED
  BY <1>1, <1>2 DEF CountInv

LEMMA CountPostBatch ==
    ASSUME TypeInv, TypeInv', CountInv, log' = log, NEW b, NEW n,
           wire' = wire \cup {[events |-> b, attempt |-> n]},
           \A e \in Events : /\ Spent(e) <= Spent(e)'
                             /\ e \in Contents(b) => Spent(e) < Spent(e)'
    PROVE  CountInv'
<1> DEFINE m == [events |-> b, attempt |-> n]
<1>1. m.events = b
  OBVIOUS
<1> HIDE DEF m
<1>2. wire' = wire \cup {m}
  BY DEF m
<1>3. QED
  BY <1>1, <1>2, CountPost

LEMMA CountIngest ==
    ASSUME TypeInv, CountInv, NEW m \in wire, wire' = wire \ {m},
           NEW s, log' = Written(s), Contents(s) \subseteq Contents(m.events),
           \A e \in Events : Spent(e)' = Spent(e)
    PROVE  CountInv'
<1>1. ASSUME NEW e \in Events
      PROVE  log'[e] + Cardinality(Carriers(e)') <= Spent(e)'
  <2>1. /\ log[e] + Cardinality(Carriers(e)) <= Spent(e)
        /\ log[e] \in Nat /\ Cardinality(Carriers(e)) \in Nat
        /\ Spent(e) \in Nat /\ Spent(e)' = Spent(e)
    BY SpentNat, CarriersNat DEF CountInv, TypeInv, TypeOK
  <2>2. log'[e] = log[e] + IF e \in Contents(s) THEN 1 ELSE 0
    BY DEF Written
  <2>3. CASE e \in Contents(m.events)
    <3>1. Carriers(e)' = Carriers(e) \ {m} /\ m \in Carriers(e)
      BY <2>3 DEF Carriers
    <3>2. IsFiniteSet(Carriers(e))
      BY FS_Subset DEF CountInv, Carriers
    <3>3. Cardinality(Carriers(e)') = Cardinality(Carriers(e)) - 1
      BY <3>1, <3>2, FS_RemoveElement
    <3>4. log'[e] \in {log[e], log[e] + 1}
      BY <2>1, <2>2
    <3>5. QED
      BY <2>1, <3>3, <3>4
  <2>4. CASE e \notin Contents(m.events)
    <3>1. Carriers(e)' = Carriers(e)
      BY <2>4 DEF Carriers
    <3>2. log'[e] = log[e]
      BY <2>1, <2>2, <2>4
    <3>3. QED
      BY <2>1, <3>1, <3>2
  <2>5. QED
    BY <2>3, <2>4
<1>2. IsFiniteSet(wire')
  BY FS_RemoveElement DEF CountInv
<1>3. QED
  BY <1>1, <1>2 DEF CountInv

DupInv == TypeInv /\ PlaceInv /\ CountInv

LEMMA EmptyHolds == \A e : ~ Holds(<<>>, e)
BY DEF Holds

LEMMA DupInvInit == Init => DupInv
<1> SUFFICES ASSUME Init
             PROVE  DupInv
  OBVIOUS
<1>1. TypeInv
  BY TypeInvInit
<1>2. PlaceInv
  BY EmptyHolds DEF Init, PlaceInv, Distinct
<1>3. \A e \in Events : Carriers(e) = {} /\ Spent(e) = 0 /\ log[e] = 0
  BY DEF Init, Carriers, Spent
<1>4. CountInv
  <2>1. IsFiniteSet(wire) /\ Cardinality({}) = 0
    BY FS_EmptySet DEF Init
  <2>2. \A e \in Events : Cardinality(Carriers(e)) = 0
    BY <1>3, <2>1
  <2>3. QED
    BY <1>3, <2>1, <2>2 DEF CountInv
<1>5. QED
  BY <1>1, <1>2, <1>4 DEF DupInv

LEMMA EmitDup ==
    ASSUME DupInv, TypeInv', NEW e \in Events, Emit(e)
    PROVE  DupInv'
<1>1. /\ e \notin emitted /\ emitted' = emitted \cup {e}
      /\ UNCHANGED <<batch, attempt, pump, wire, log>>
      /\ buffer \in Seq(Events)
  BY DEF Emit, NextEvent, DupInv, TypeInv, TypeOK
<1>2. ~ Holds(buffer, e) /\ ~ Holds(batch, e)
  BY <1>1 DEF DupInv, PlaceInv
<1>3. CASE buffer' = Append(buffer, e)
  <2>1. Distinct(buffer') /\ \A f : Holds(buffer', f) <=> Holds(buffer, f) \/ f = e
    BY <1>1, <1>2, <1>3, NewcomerJoins DEF DupInv, PlaceInv
  <2>2. PlaceInv'
    BY <1>1, <1>2, <2>1 DEF DupInv, PlaceInv, Holds
  <2>3. \A f \in Events : Spent(f)' = Spent(f)
    BY <1>1, <1>2, <2>1 DEF Spent, Holds
  <2>4. \A f \in Events : Spent(f) <= Spent(f)'
    BY <2>3, SpentNat DEF DupInv
  <2>5. QED
    BY <1>1, <2>2, <2>4, CountStays DEF DupInv
<1>4. CASE buffer' = buffer
  <2>1. PlaceInv'
    BY <1>1, <1>4 DEF DupInv, PlaceInv, Holds, Distinct
  <2>2. \A f \in Events : Spent(f)' = Spent(f) \/ (Spent(f) = 0 /\ Spent(f)' \in Nat)
    BY <1>1, <1>4, SpentNatNext DEF Spent, Holds
  <2>3. \A f \in Events : Spent(f) <= Spent(f)'
    BY <2>2, SpentNat DEF DupInv
  <2>4. QED
    BY <1>1, <2>1, <2>3, CountStays DEF DupInv
<1>5. QED
  BY <1>3, <1>4 DEF Emit

LEMMA CollectDup ==
    ASSUME DupInv, TypeInv', Collect
    PROVE  DupInv'
<1>1. /\ pump = "collecting" /\ buffer # <<>>
      /\ batch' = Append(batch, Head(buffer)) /\ buffer' = Tail(buffer)
      /\ UNCHANGED <<emitted, attempt, pump, wire, log>>
      /\ buffer \in Seq(Events) /\ batch \in Seq(Events)
  BY DEF Collect, DupInv, TypeInv, TypeOK
<1>2. /\ Head(buffer) = buffer[1] /\ 1 \in 1 .. Len(buffer) /\ buffer[1] \in Events
      /\ Tail(buffer) \in Seq(Events) /\ Distinct(Tail(buffer))
      /\ \A f : Holds(Tail(buffer), f) <=> Holds(buffer, f) /\ f # buffer[1]
  BY <1>1, HeadLeaves DEF DupInv, PlaceInv
<1>3. Holds(buffer, buffer[1])
  BY <1>2 DEF Holds
<1>4. Distinct(buffer') /\ \A f : Holds(buffer', f) <=> Holds(buffer, f) /\ f # buffer[1]
  BY <1>1, <1>2
<1>5. \A f : Holds(batch', f) <=> Holds(batch, f) \/ f = buffer[1]
  BY <1>1, <1>2, NewcomerJoins
<1>6. PlaceInv'
  BY <1>1, <1>3, <1>4, <1>5 DEF DupInv, PlaceInv
<1>7. \A f \in Events : Spent(f)' = Spent(f)
  BY <1>1, <1>3, <1>4, <1>5 DEF Spent
<1>8. \A f \in Events : Spent(f) <= Spent(f)'
  BY <1>7, SpentNat DEF DupInv
<1>9. QED
  BY <1>1, <1>6, <1>8, CountStays DEF DupInv

\* The attempt that is posted is one that was not made before.
LEMMA PostDup ==
    ASSUME DupInv, TypeInv', CollectEnds \/ Retry
    PROVE  DupInv'
<1> DEFINE n == IF pump = "collecting" THEN 1 ELSE attempt + 1
<1>1. /\ pump \in {"collecting", "backoff"} /\ pump' = "posting" /\ attempt' = n
      /\ wire' = wire \cup {[events |-> batch, attempt |-> n]}
      /\ UNCHANGED <<emitted, buffer, batch, log>>
  BY DEF CollectEnds, Retry, Post
<1>2. attempt \in Nat
  BY EmitterAssumption DEF DupInv, TypeInv, TypeOK
<1>3. PlaceInv'
  BY <1>1 DEF DupInv, PlaceInv, Holds, Distinct
<1>4. \A f \in Events :
         IF Holds(batch, f) THEN Spent(f) < Spent(f)' ELSE Spent(f)' = Spent(f)
  <2>1. \A f : Holds(batch', f) = Holds(batch, f) /\ Holds(buffer', f) = Holds(buffer, f)
    BY <1>1 DEF Holds
  <2>2. \A f : Holds(batch, f) => f \in emitted /\ ~ Holds(buffer, f)
    BY DEF DupInv, PlaceInv
  <2>3. QED
    BY <1>1, <1>2, <2>1, <2>2 DEF Spent
<1>5. \A f \in Events : /\ Spent(f) <= Spent(f)'
                        /\ f \in Contents(batch) => Spent(f) < Spent(f)'
  BY <1>4, SpentNat, SpentNatNext, ContentsHolds DEF DupInv
<1> HIDE DEF n
<1>6. CountInv'
  BY <1>1, <1>5, CountPostBatch DEF DupInv
<1>7. QED
  BY <1>3, <1>6 DEF DupInv

\* The batch is given up: what it may have cost is within max_retries.
LEMMA LetGo ==
    ASSUME DupInv, TypeInv', batch' = <<>>, pump # "collecting",
           UNCHANGED <<emitted, buffer, wire, log>>
    PROVE  DupInv'
<1>1. \A f : Holds(buffer', f) = Holds(buffer, f)
  BY DEF Holds
<1>2. PlaceInv'
  BY <1>1, EmptyHolds DEF DupInv, PlaceInv, Distinct
<1>3. \A f \in Events : Spent(f)' = IF f \notin emitted \/ Holds(buffer, f) THEN 0 ELSE MaxRetries
  BY <1>1, EmptyHolds DEF Spent
<1>4. \A f \in Events : f \notin emitted \/ Holds(buffer, f) => Spent(f) = 0
  BY DEF Spent
<1>5. \A f \in Events : Spent(f) <= Spent(f)'
  BY <1>3, <1>4, SpentNat, EmitterAssumption DEF DupInv
<1>6. QED
  BY <1>2, <1>5, CountStays DEF DupInv

\* Steps that do not touch the places, nor what is sent and stored.
LEMMA KeepDup ==
    ASSUME DupInv, TypeInv', UNCHANGED <<emitted, buffer, batch, attempt, wire, log>>,
           pump' = pump \/ (pump \in {"posting", "backoff"} /\ pump' \in {"posting", "backoff"})
                        \/ batch = <<>>
    PROVE  DupInv'
<1>1. \A f : Holds(buffer', f) = Holds(buffer, f) /\ Holds(batch', f) = Holds(batch, f)
  BY DEF Holds
<1>2. PlaceInv'
  BY <1>1 DEF DupInv, PlaceInv, Distinct
<1>3. \A f \in Events : Spent(f)' = Spent(f)
  BY <1>1, EmptyHolds DEF Spent
<1>4. \A f \in Events : Spent(f) <= Spent(f)'
  BY <1>3, SpentNat DEF DupInv
<1>5. QED
  BY <1>2, <1>4, CountStays DEF DupInv

LEMMA FlushDup ==
    ASSUME DupInv, TypeInv', Flush, batch = <<>>
    PROVE  DupInv'
<1>1. buffer \in Seq(Events) /\ Distinct(buffer)
  BY DEF DupInv, TypeInv, TypeOK, PlaceInv
<1>2. PICK n \in 0 .. Len(buffer) :
         /\ batch' = SubSeq(buffer, 1, n)
         /\ buffer' = SubSeq(buffer, n + 1, Len(buffer))
         /\ pump = "ended"
         /\ UNCHANGED <<emitted, warned, abandoned, log>>
         /\ \/ n = 0 /\ UNCHANGED <<attempt, pump, answer, wire>>
            \/ n # 0 /\ Post(batch', 1)
  BY <1>1, FlushFacts
<1>3. /\ Len(batch') = n /\ Len(buffer') = Len(buffer) - n /\ Len(buffer) \in Nat
      /\ \A i \in 1 .. n : batch'[i] = buffer[i]
      /\ \A i \in 1 .. Len(buffer) - n : buffer'[i] = buffer[n + i]
  BY <1>1, <1>2, FlushTaken
<1>4. /\ \A i \in 1 .. n : i \in 1 .. Len(buffer)
      /\ \A i \in 1 .. Len(buffer) - n : n + i \in 1 .. Len(buffer)
      /\ \A i \in 1 .. Len(buffer) : i \in 1 .. n
            \/ (i - n \in 1 .. Len(buffer) - n /\ n + (i - n) = i)
  BY <1>3
<1>5. /\ \A f : Holds(batch', f) <=> \E i \in 1 .. n : buffer[i] = f
      /\ \A f : Holds(buffer', f) <=> \E i \in 1 .. Len(buffer) - n : buffer[n + i] = f
  BY <1>3 DEF Holds
<1>6. \A f : Holds(buffer, f) <=> Holds(batch', f) \/ Holds(buffer', f)
  BY <1>4, <1>5 DEF Holds
<1>7. \A f : ~ (Holds(batch', f) /\ Holds(buffer', f))
  BY <1>1, <1>3, <1>4, <1>5 DEF Distinct
<1>8. Distinct(buffer')
  BY <1>1, <1>3, <1>4 DEF Distinct
<1>9. PlaceInv'
  BY <1>2, <1>6, <1>7, <1>8 DEF DupInv, PlaceInv
<1>10. \A f \in Events : Spent(f) = IF f \notin emitted \/ Holds(buffer, f) THEN 0 ELSE MaxRetries
  BY EmptyHolds DEF Spent
<1>11. \A f : Holds(buffer, f) => f \in emitted
  BY DEF DupInv, PlaceInv
<1>12. CASE n = 0 /\ UNCHANGED <<attempt, pump, answer, wire>>
  <2>1. \A f : ~ Holds(batch', f)
    BY <1>3, <1>12 DEF Holds
  <2>2. \A f \in Events : Spent(f)' = Spent(f)
    BY <1>2, <1>6, <1>10, <2>1 DEF Spent
  <2>3. \A f \in Events : Spent(f) <= Spent(f)'
    BY <2>2, SpentNat DEF DupInv
  <2>4. QED
    BY <1>2, <1>9, <1>12, <2>3, CountStays DEF DupInv
<1>13. CASE n # 0 /\ Post(batch', 1)
  <2>1. /\ pump' = "posting" /\ attempt' = 1
        /\ wire' = wire \cup {[events |-> batch', attempt |-> 1]}
    BY <1>13 DEF Post
  <2>2. \A f \in Events :
           IF Holds(batch', f) THEN Spent(f) = 0 /\ Spent(f)' = 1 ELSE Spent(f)' = Spent(f)
    BY <1>2, <1>6, <1>7, <1>10, <1>11, <2>1 DEF Spent
  <2>3. \A f \in Events : /\ Spent(f) <= Spent(f)'
                          /\ f \in Contents(batch') => Spent(f) < Spent(f)'
    BY <2>2, SpentNat, ContentsHolds DEF DupInv
  <2>4. CountInv'
    BY <1>2, <2>1, <2>3, CountPostBatch DEF DupInv
  <2>5. QED
    BY <1>9, <2>4 DEF DupInv
<1>14. QED
  BY <1>2, <1>12, <1>13

LEMMA IngestDup ==
    ASSUME DupInv, TypeInv', NEW m \in wire, Ingest(m) \/ IngestBreaks(m)
    PROVE  DupInv'
<1>1. /\ wire' = wire \ {m}
      /\ UNCHANGED <<emitted, buffer, batch, attempt, pump>>
  BY DEF Ingest, IngestBreaks
<1>2. m.events \in Seq(Events)
  BY DEF DupInv, TypeInv, TypeOK, Posts
<1>3. PICK s : log' = Written(s) /\ Contents(s) \subseteq Contents(m.events)
  <2>1. CASE Ingest(m)
    BY <2>1 DEF Ingest
  <2>2. CASE IngestBreaks(m)
    <3>1. PICK k \in 0 .. Len(m.events) - 1 : log' = Written(SubSeq(m.events, 1, k))
      BY <2>2 DEF IngestBreaks
    <3>2. k \in 0 .. Len(m.events)
      BY <1>2
    <3>3. /\ Len(SubSeq(m.events, 1, k)) = k
          /\ \A i \in 1 .. k : SubSeq(m.events, 1, k)[i] = m.events[i] /\ i \in 1 .. Len(m.events)
      BY <1>2, <3>2, FlushTaken
    <3>4. Contents(SubSeq(m.events, 1, k)) \subseteq Contents(m.events)
      BY <3>3 DEF Contents
    <3>5. QED
      BY <3>1, <3>4
  <2>3. QED
    BY <2>1, <2>2
<1>4. \A f : Holds(buffer', f) = Holds(buffer, f) /\ Holds(batch', f) = Holds(batch, f)
  BY <1>1 DEF Holds
<1>5. PlaceInv'
  BY <1>1, <1>4 DEF DupInv, PlaceInv, Distinct
<1>6. \A f \in Events : Spent(f)' = Spent(f)
  BY <1>1, <1>4 DEF Spent
<1>7. CountInv'
  BY <1>1, <1>3, <1>6, CountIngest DEF DupInv
<1>8. QED
  BY <1>5, <1>7 DEF DupInv

LEMMA DupInvNext == DupInv /\ HandsOff /\ [Next]_vars => DupInv'
<1> SUFFICES ASSUME DupInv, HandsOff, [Next]_vars
             PROVE  DupInv'
  OBVIOUS
<1>0. TypeInv'
  BY TypeInvNext DEF DupInv
<1>1. ASSUME NEW e \in Events, Emit(e)
      PROVE  DupInv'
  BY <1>0, <1>1, EmitDup
<1>2. CASE Collect
  BY <1>0, <1>2, CollectDup
<1>3. CASE CollectEnds \/ Retry
  BY <1>0, <1>3, PostDup
<1>4. CASE Answered \/ StopTimeout \/ (AttemptFails /\ attempt = MaxRetries)
  BY <1>0, <1>4, LetGo DEF Answered, StopTimeout, AttemptFails, SendDone
<1>5. CASE AttemptFails /\ attempt # MaxRetries
  BY <1>0, <1>5, KeepDup DEF AttemptFails
<1>6. CASE WorkerExits \/ StopCalled \/ WorkerJoined
  BY <1>0, <1>6, KeepDup DEF WorkerExits, StopCalled, WorkerJoined
<1>7. CASE Flush
  <2>1. batch = <<>>
    BY <1>7 DEF Flush, HandsOff
  <2>2. QED
    BY <1>0, <1>7, <2>1, FlushDup
<1>8. ASSUME NEW m \in wire, Ingest(m) \/ IngestBreaks(m)
      PROVE  DupInv'
  BY <1>0, <1>8, IngestDup
<1>9. CASE UNCHANGED vars
  BY <1>0, <1>9, KeepDup DEF vars
<1>10. QED
  BY <1>1, <1>2, <1>3, <1>4, <1>5, <1>6, <1>7, <1>8, <1>9 DEF Next

\* However often answers are lost and POSTs delivered late, also after their sender has
\* gone, an event is stored at most max_retries times.
THEOREM DuplicatesAreBounded == Spec => []BoundedDuplicates
<1>1. Init => DupInv /\ HandsOff
  BY DupInvInit DEF Init, HandsOff
<1>2. DupInv /\ HandsOff /\ [Next]_vars => (DupInv /\ HandsOff)'
  BY DupInvNext, HandsOffStep
<1>3. DupInv => BoundedDuplicates
  <2> SUFFICES ASSUME DupInv, NEW e \in Events
               PROVE  log[e] <= MaxRetries
    BY DEF BoundedDuplicates
  <2>1. /\ log[e] + Cardinality(Carriers(e)) <= Spent(e)
        /\ log[e] \in Nat /\ Cardinality(Carriers(e)) \in Nat
        /\ Spent(e) \in Nat /\ Spent(e) <= MaxRetries /\ MaxRetries \in Nat
    BY SpentNat, CarriersNat, EmitterAssumption DEF DupInv, CountInv, TypeInv, TypeOK
  <2>2. QED
    BY <2>1
<1>4. QED
  BY <1>1, <1>2, <1>3, PTL DEF Spec
=============================================================================
