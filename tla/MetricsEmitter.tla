--------------------------- MODULE MetricsEmitter ---------------------------
(***************************************************************************)
(* Metric events on their way from a process to the metrics server: the    *)
(* emitter (nodes/metrics/emitter.py) with its bounded buffer, its worker, *)
(* its retries and its shutdown, and the ingestion handler that appends to *)
(* the files (nodes/metrics/server.py).  A POST is on the wire until the   *)
(* server ingests it or it is lost, also when its sender has given up.     *)
(***************************************************************************)
EXTENDS Naturals, Sequences

CONSTANTS
    Events,         \* the metric events the process emits, numbered as they come
    BufferSize,     \* capacity of the queue
    BatchSize,      \* events per POST
    MaxRetries      \* attempts per batch

ASSUME EmitterAssumption ==
    /\ Events \subseteq Nat
    /\ BufferSize \in Nat \ {0}
    /\ BatchSize \in Nat \ {0}
    /\ MaxRetries \in Nat \ {0}

VARIABLES
    emitted,    \* the events passed to emit()
    buffer,     \* MetricsEmitter._queue
    warned,     \* events whose loss was logged
    batch,      \* the batch being collected or sent
    attempt,    \* the attempt at sending it
    pump,       \* where the coroutine that sends is: the worker, then stop()
    answer,     \* what the server answered to the current attempt
    stop,       \* where stop() is
    abandoned,  \* ghost: the batch in hand when stop() cancelled the worker
    wire,       \* POSTs that may still reach the server
    log         \* how many lines of the NDJSON files hold an event

vars == <<emitted, buffer, warned, batch, attempt, pump, answer, stop, abandoned,
          wire, log>>

Contents(s) == {s[i] : i \in 1 .. Len(s)}

Posts == [events : Seq(Events), attempt : 1 .. MaxRetries]

TypeOK ==
    /\ emitted \in SUBSET Events
    /\ buffer \in Seq(Events) /\ Len(buffer) <= BufferSize
    /\ warned \in SUBSET Events
    /\ batch \in Seq(Events) /\ Len(batch) <= BatchSize
    /\ attempt \in 1 .. MaxRetries
    /\ pump \in {"collecting", "posting", "backoff", "ended"}
    /\ answer \in {"none", "ok", "error"}
    /\ stop \in {"running", "waiting", "flushing", "stopped"}
    /\ abandoned \in SUBSET Events
    /\ wire \in SUBSET Posts
    /\ log \in [Events -> Nat]

Init ==
    /\ emitted = {}
    /\ buffer = <<>>
    /\ warned = {}
    /\ batch = <<>>
    /\ attempt = 1
    /\ pump = "collecting"
    /\ answer = "none"
    /\ stop = "running"
    /\ abandoned = {}
    /\ wire = {}
    /\ log = [e \in Events |-> 0]

-----------------------------------------------------------------------------
(* emit(), called by the code that is measured.                            *)

\* The events are numbered in the order in which they are emitted.
NextEvent(e) == e \notin emitted /\ \A f \in Events : f < e => f \in emitted

\* Mistake: one event too many.
EmitBeyond(e) ==
    /\ NextEvent(e)
    /\ emitted' = emitted \cup {e}
    /\ IF Len(buffer) <= BufferSize
          THEN buffer' = Append(buffer, e) /\ UNCHANGED warned
          ELSE warned' = warned \cup {e} /\ UNCHANGED buffer
    /\ UNCHANGED <<batch, attempt, pump, answer, stop, abandoned, wire, log>>

\* A full buffer drops the event with a warning.
Emit(e) ==
    /\ NextEvent(e)
    /\ emitted' = emitted \cup {e}
    /\ IF Len(buffer) < BufferSize
          THEN buffer' = Append(buffer, e) /\ UNCHANGED warned
          ELSE warned' = warned \cup {e} /\ UNCHANGED buffer
    /\ UNCHANGED <<batch, attempt, pump, answer, stop, abandoned, wire, log>>

-----------------------------------------------------------------------------
(* _worker, _collect_batch and _send_with_retry.                           *)

Collect ==
    /\ pump = "collecting"
    /\ Len(batch) < BatchSize
    /\ buffer # <<>>
    /\ batch' = Append(batch, Head(buffer))
    /\ buffer' = Tail(buffer)
    /\ UNCHANGED <<emitted, warned, attempt, pump, answer, stop, abandoned, wire, log>>

Post(events, n) ==
    /\ pump' = "posting"
    /\ attempt' = n
    /\ answer' = "none"
    /\ wire' = wire \cup {[events |-> events, attempt |-> n]}

\* The batch is full or flush_interval_s is over.
CollectEnds ==
    /\ pump = "collecting"
    /\ batch # <<>>
    /\ Post(batch, 1)
    /\ UNCHANGED <<emitted, buffer, warned, batch, stop, abandoned, log>>

\* An empty batch brings the worker back to `while not self._stopped`.
WorkerExits ==
    /\ pump = "collecting"
    /\ batch = <<>>
    /\ stop # "running"
    /\ pump' = "ended"
    /\ UNCHANGED <<emitted, buffer, warned, batch, attempt, answer, stop, abandoned,
                   wire, log>>

\* Mistake: the flush sends one batch and leaves the rest.
SendDoneEndsFlush ==
    /\ batch' = <<>>
    /\ attempt' = 1
    /\ answer' = "none"
    /\ pump' = IF stop = "running" THEN "collecting" ELSE "ended"
    /\ stop' = IF stop = "flushing" THEN "stopped" ELSE stop

\* _send_with_retry returns: to the worker's loop, to the loop of
\* _flush_remaining after a full batch, or from its last call.
SendDone ==
    /\ batch' = <<>>
    /\ attempt' = 1
    /\ answer' = "none"
    /\ pump' = IF stop = "running" THEN "collecting" ELSE "ended"
    /\ stop' = IF stop = "flushing" /\ Len(batch) < BatchSize THEN "stopped" ELSE stop

Answered ==
    /\ pump = "posting"
    /\ answer = "ok"
    /\ SendDone
    /\ UNCHANGED <<emitted, buffer, warned, abandoned, wire, log>>

\* Refused, answered with an error, or not answered in time.
AttemptFails ==
    /\ pump = "posting"
    /\ IF attempt = MaxRetries
          THEN SendDone /\ warned' = warned \cup Contents(batch)
          ELSE /\ pump' = "backoff"
               /\ UNCHANGED <<batch, attempt, answer, stop, warned>>
    /\ UNCHANGED <<emitted, buffer, abandoned, wire, log>>

\* Mistake: the attempts are not counted.
RetryForever ==
    /\ pump = "backoff"
    /\ Post(batch, attempt)
    /\ UNCHANGED <<emitted, buffer, warned, batch, stop, abandoned, log>>

Retry ==
    /\ pump = "backoff"
    /\ Post(batch, attempt + 1)
    /\ UNCHANGED <<emitted, buffer, warned, batch, stop, abandoned, log>>

-----------------------------------------------------------------------------
(* stop() and _flush_remaining.                                            *)

StopCalled ==
    /\ stop = "running"
    /\ stop' = "waiting"
    /\ UNCHANGED <<emitted, buffer, warned, batch, attempt, pump, answer, abandoned,
                   wire, log>>

WorkerJoined ==
    /\ stop = "waiting"
    /\ pump = "ended"
    /\ stop' = "flushing"
    /\ UNCHANGED <<emitted, buffer, warned, batch, attempt, pump, answer, abandoned,
                   wire, log>>

\* Five seconds passed: the worker is cancelled in a POST or a sleep (a batch is
\* collected within flush_interval_s, which is less).
StopTimeout ==
    /\ stop = "waiting"
    /\ pump \in {"posting", "backoff"}
    /\ abandoned' = Contents(batch)
    /\ batch' = <<>>
    /\ attempt' = 1
    /\ answer' = "none"
    /\ pump' = "ended"
    /\ stop' = "flushing"
    /\ UNCHANGED <<emitted, buffer, warned, wire, log>>

\* get_nowait() until the batch is full or the buffer empty.
Flush ==
    /\ stop = "flushing"
    /\ pump = "ended"
    /\ LET n == IF Len(buffer) < BatchSize THEN Len(buffer) ELSE BatchSize
       IN /\ batch' = SubSeq(buffer, 1, n)
          /\ buffer' = SubSeq(buffer, n + 1, Len(buffer))
          /\ IF n = 0
                THEN stop' = "stopped" /\ UNCHANGED <<attempt, pump, answer, wire>>
                ELSE Post(batch', 1) /\ UNCHANGED stop
    /\ UNCHANGED <<emitted, warned, abandoned, log>>

-----------------------------------------------------------------------------
(* The server: one handler per POST, which appends the events one by one   *)
(* without an await between them.                                          *)

\* The answer reaches the sender if it still waits for this very POST.
Reply(m, a) ==
    answer' = IF pump = "posting" /\ m = [events |-> batch, attempt |-> attempt]
              THEN a ELSE answer

\* A batch holds an event once, as an event is emitted once.
Written(events) ==
    [e \in Events |-> log[e] + IF e \in Contents(events) THEN 1 ELSE 0]

\* Mistake: 200 is answered when the body is read.
IngestAfterReply(m) ==
    /\ m \in wire
    /\ Reply(m, "ok")
    /\ \E k \in 0 .. Len(m.events) : log' = Written(SubSeq(m.events, 1, k))
    /\ wire' = wire \ {m}
    /\ UNCHANGED <<emitted, buffer, warned, batch, attempt, pump, stop, abandoned>>

Ingest(m) ==
    /\ m \in wire
    /\ log' = Written(m.events)
    /\ wire' = wire \ {m}
    /\ Reply(m, "ok")
    /\ UNCHANGED <<emitted, buffer, warned, batch, attempt, pump, stop, abandoned>>

\* An error or the end of the process after some of the events were appended.
IngestBreaks(m) ==
    /\ m \in wire
    /\ \E k \in 0 .. Len(m.events) - 1 : log' = Written(SubSeq(m.events, 1, k))
    /\ wire' = wire \ {m}
    /\ Reply(m, "error")
    /\ UNCHANGED <<emitted, buffer, warned, batch, attempt, pump, stop, abandoned>>

-----------------------------------------------------------------------------

Sending  == CollectEnds \/ WorkerExits \/ Answered \/ AttemptFails \/ Retry
Stopping == WorkerJoined \/ StopTimeout \/ Flush

Next ==
    \/ \E e \in Events : Emit(e)
    \/ Collect \/ CollectEnds \/ WorkerExits
    \/ Answered \/ AttemptFails \/ Retry
    \/ StopCalled \/ WorkerJoined \/ StopTimeout \/ Flush
    \/ \E m \in wire : Ingest(m) \/ IngestBreaks(m)

Spec == Init /\ [][Next]_vars

\* Collecting, sending, backing off and joining all have timeouts.
Fairness == WF_vars(Collect) /\ WF_vars(Sending) /\ WF_vars(Stopping)

FairSpec == Spec /\ Fairness

-----------------------------------------------------------------------------
(* Properties.                                                             *)

Stored == {e \in Events : log[e] > 0}

\* No event disappears: whatever was lost, repeated or cut off, an emitted event
\* is still with the emitter, in the files, reported as dropped, or was in the one
\* batch that stop() took away from the worker.
Accounted ==
    emitted \subseteq Contents(buffer) \cup Contents(batch) \cup Stored
                        \cup warned \cup abandoned

\* An event is stored at most once per attempt: a lost answer makes duplicates,
\* but never more than max_retries of them, late deliveries included.
BoundedDuplicates ==
    \A e \in Events : log[e] <= MaxRetries

StopReturns == stop = "waiting" ~> stop = "stopped"
BufferDrains ==
    \A e \in Events :
        (stop = "running" /\ e \in Contents(buffer)) ~> e \notin Contents(buffer)

\* However the server behaves, stop() returns, and an event in the buffer does not
\* stay there unless it came after stop() was called: the worker keeps draining,
\* and the flush takes what it left.
StopsAndDrains == StopReturns /\ BufferDrains
=============================================================================
