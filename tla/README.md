# DNN-comm-compression: a TLA+ verification project

The repository measures split DNN inference: partitions of a model run on a chain
of nodes, activations are compressed between them, and an orchestrator sweeps
over compression settings. This directory models the programs that make those
measurements, checks the models with TLC and proves their central invariants
with TLAPS. What is at stake is the validity of the measurements: a result filed
under a run must have been produced with that run's settings, nothing may block
the experiment for ever, and the events it is computed from may not vanish
unnoticed.

## The system

| Component | Source (under `framework/`) | State | Operations |
|---|---|---|---|
| Single-model node | `nodes/compute/common/server.py` | in-flight counter and idle event, settings per direction | `POST /infer`, `POST /config`, `/status`, background processing, link prober |
| Multi-model node | `nodes/compute/multi/server.py` | priority queue, virtual clocks and weights, idle event, settings per pipeline and direction | `POST /infer`, `/config`, `/config/weights`, worker, background sends, prober |
| Orchestrator | `nodes/orchestrator/runner.py`, `controller.py`, `data_client.py` | current run, pending futures, records | sweep loop, config push, batch sending with a semaphore, `POST /result` |
| Multi-model orchestrator | `multi_runner.py`, `multi_controller.py` | slots, per-pipeline windows, pending tasks | fill and rate-based submission, slot changes |
| Optimisation loop | `opt_runner.py`, `link_prober.py`, `optimizer/` | dual variables, channel estimates, slot | profile, probe, step, push, run slot, observe |
| Metrics | `nodes/metrics/emitter.py`, `server.py` | bounded buffer, batch in hand, NDJSON files | `emit`, worker, retries, `stop`, ingestion, queries |
| Data models and topology | `datamodels/`, `utils/topology.py`, `utils/loader.py` | none | sweep expansion, run ids, node order, the chain of the flows |
| Artifacts | `nodes/orchestrator/artifacts.py` | profiles and surrogate models on disk | lookup by hash or by path, writing |
| Generator | `tools/generate.py` | experiment directories | one combination or all, recursive baselines |
| Deployment | `deploy/` | containers and what they were defined as | `docker compose up`, `kubectl apply` |
| Codecs, models, datasets | `compressor.py`, `models/`, `datasets.py` | none | tensor arithmetic |
| Analysis | `analysis/`, `validate.py` | none | tables, plots, reports |

Processes talk over HTTP only. The orchestrator pushes settings to both ends of
every link, then posts batches to the first node; each node answers 202, works
in the background, and posts on to the next; the last node posts the result to
the orchestrator's callback server. They share two other things: the experiments'
directory, which the generator writes and everybody else reads when it starts, and
the metrics server's files, which the orchestrator asks what has been done already
and how fast the nodes were. Each process is one asyncio event loop, so
within a process interleaving happens at `await`s only, and between processes
anything can overtake anything.

What is hard: the drain of `POST /config` hangs on an event that is not rechecked
after the wake-up; a node that raises drops its task silently; a batch given up by
the orchestrator lives on in the chain; a result can arrive before the 202 of its
own request; a restarted container forgets its settings; the multi-model worker
never yields while it has work; the metrics worker can be cancelled with a batch
in hand; `--resume` concludes from one stored event that a run was completed; the
optimisation loop must not let a decision see its own slot, or another scheme's
files; and a directory of experiments is regenerated under running containers.
`PROJECT.json` lists each of these at its line, with the properties that
would notice.

## Modules

| Module | Models | Abstracts |
|---|---|---|
| `NodeServer` | one single-model node | tensors, metric events |
| `NodeServerHistory` | the same, with the order of arrivals and who was woken past whom | |
| `Sweep` | abstract: what an experiment promises | everything but runs and records |
| `Pipeline` | orchestrator and chain of nodes, messages, faults, restarts | prober (left to `NodeServer`), payloads |
| `PipelineNodes` | refinement mapping of the first and last node to `NodeServer` | |
| `MultiNode` | one multi-model node | tensors; compute time is a cost from a set, of either sign |
| `MultiNodeHistory` | the same, with arrivals, who was woken past whom, and the clocks at the start of a backlog | |
| `MultiPipeline` | rounds over pipelines that share a chain of multi-model nodes | order within a queue (left to `MultiNode`), weights, arrival times |
| `MetricsEmitter` | emitter, network and ingestion | file layout, queries |
| `Campaign` | an experiment over several starts of an orchestrator: readiness, `--resume`, events on their way to the files, crashes | what a run does with the nodes |
| `OptLoop` | the optimisation experiment: schemes, profiling, surrogates, slot loop, artifacts, starts | every number; what a slot's tasks do |
| `Experiment` | operators: sweep expansion, run ids, node orders, segments | wording of ids, codec parameters |
| `Generator` | the generator: specs, profiles, calls, baselines, writes, kills | fields nobody reads differently |
| `Toolchain` | `Generator` composed with deployment, node starts and orchestrators | a run is one step |
| `NodeServerProofs`, `PipelineProofs`, `MultiNodeProofs`, `MultiPipelineProofs`, `MetricsEmitterProofs`, `CampaignProofs`, `OptLoopProofs`, `ToolchainProofs` | theorems | |
| `Queues` | operators of the proofs: sequences whose elements have identities | |
| `MC*` | values for the constants | |

**NodeServer.** `inFlight`/`idleEvent` are `NodeState._in_flight`/`idle_event`; a
request's `stage` says where `_process_inference` is (`accepted` up to the POST,
`sending` during it). `asyncio.wait_for` (Python 3.11, which the images run) starts a
task for `idle_event.wait()`, so the event is looked at a turn of the loop after the
POST: an update is `posted` until then, `drained` if that task found the event set,
`waiting` if it blocks, and `woken` by the next `set()`; the handler applies its settings in
a later step without looking again, and meanwhile new requests may come in. `ahead` is
the order in which the loop resumes the handlers of one direction: in the order of
the POSTs, except that `Wake` puts those it wakes behind all that are on their way,
which is how a later update gets past an earlier one. A handler may time out wherever
it stands. `Wake` is part of every `Decrement` that reaches zero. `NodeServerHistory`
adds the order of arrivals, in `passed` which handlers were woken while an update was
`posted`, and `probedAt`, the counter when a probe began.

**Pipeline.** `hop[t][n]` is the message to node `n` (`posted`, `dropped`) and then
the request it became; hop `N + 1` is the callback. `enc` and `dec` remember the
settings a task met on each link and never influence a step. `push` is the
`gather` of `push_run_config`, `client` is `_send_one`, `future` the resolved
futures. Faults (lost messages, exceptions, timeouts) are bounded by `MaxFaults`
because each would otherwise be possible at any moment; a timeout of something that
can no longer happen is no fault and is always possible. Decompression of another
method raises; of another rate of the same method it does not, which is what
`MethodOf` is for. The push has the stages of `NodeServer`'s updates; it needs no
`ahead`, because there is one update for a link end at a time. Exceptions of the orchestrator while it decodes a result are not
modelled.

**MultiNode.** The worker runs a whole backlog without an `await` that suspends:
`get()` on a non-empty `PriorityQueue` returns at once and `_process_task` has none.
Hence `LoopIsFree`, a conjunct of everything else that needs the loop; only
`Restart` can cut in. Clocks are integers: `Advance(c, w) = c * Scale \div w`, with
`Scale` a multiple of the weights in every run. The time a task took is a difference of
two `time.time()` readings, so `Costs` holds negative numbers too, and a clock may go
back; `w <= 0` lets `NaN` through, so a weight may be `NaN`, the clock that is charged with it
is `NaN` from then on, and a heap with such a tag in it is in no order (`InOrderOfTags`):
any task may be served next. A weight call is the sequence of the JSON object's entries,
because the handler applies those before the first invalid one. Updates are as in
`NodeServer`, in line per pipeline and direction.

**MultiPipeline.** The counterpart of `Pipeline` for multi-model nodes: a round is a
run of a sub-experiment (`_run_sub_experiment`) or a slot of the optimisation loop
(`push_opt_slot_config`, `run_slot`), settings are per pipeline and link. All
pipelines run through the whole chain. `Window = B` stands for the rate-based
patterns, which have no semaphore. The worker serves a backlog in one step
(`ServeBacklog`), so the order inside it, which `MultiNode` is about, makes no
difference here; the messages are sent in the background, while the node is idle.
Its results implement the same `Sweep` as those of `Pipeline`.

**MetricsEmitter.** `pump` is whoever sends: the worker, later `_flush_remaining`.
A POST stays on the `wire` when its sender has given up. `StopTimeout` is possible
in a POST or a backoff only: collecting ends within `flush_interval_s` (1 s), before
the 5 s are over.

**Campaign.** Events are numbered `<<run, batch>>`; batch 0 is `run_throughput`, the
marker of a multi-model run, emitted when it is over. A single-model run has no
marker of its own: any of its results is one (`IsMarker`). `id` maps runs to ids and
need not be injective, `foreign` are ids that experiments whose names contain this
one's have stored. `buffer` is what the emitter holds (oldest first, which
`MetricsEmitter` justifies). `Deliver` is a POST that was answered; one that was not is
posted again (`PostAgain`) or, after `max_retries` attempts or when `stop()` cancels the
worker, dropped (`DropEvent`), and unless it was refused its content may be stored all
the same: `late` counts the POSTs of an event nobody waits for any more, also those of an
orchestrator that died, and `stray` those of them that have arrived. `Skip`, `Execute` and `ExecuteBlindly` are the three outcomes of
`is_run_completed`.

**OptLoop.** Numbers are replaced by stamps `<<start, scheme, sub-experiment, mu,
slot>>` of the moment they were made: what a probe measured, what a decision was
computed from, what a node has in force. So the order of statements in
`_run_optimization` (step, then observe, then push, then run) is all there is, and
that is what its comments are about. `decision.zero` is the first pipeline given a
zero share, which a node rejects after the entries before it. A scheme's surrogate
is filed under the codecs the mapper makes of it, its profile under the scheme.
`accuracy_model_refs` are passed over: in the code they name the trained surrogates an
optimisation uses, and a pipeline that none covers gets a constant one; the model has
one surrogate per scheme, which every later optimisation of the scheme refers to.

**Toolchain.** `disk` is the experiments' directory; a container remembers the
definition it was made from and the file it read when it started. `ComposeUp` makes
anew what is not as defined, in one project for all experiments; `Apply` leaves pods
and Jobs that are there. `Push` tells both ends of every link a run names. `last`
records what a run measured: the way its batches take by the nodes' own files and the
settings in force at both ends of every hop. Definitions that the three kinds of
experiment share are mapped to one of their copies in `generate.py`.

## Runs

| Run | Question | Size |
|---|---|---|
| `node_server` | counter, wake-ups, drain, order of updates, probes start on an idle node; nothing hangs | 61 k states |
| `pipeline` | faithful records under restarts, custody, no batch missing without faults, refinement of `Sweep` and of `NodeServer`; the sweep ends whatever is lost | 70 k |
| `multi_share` | tags, clocks, order of service, weight updates, negative costs, undefined weights | 849 k |
| `multi_config` | drain and updates, restart; nothing hangs | 306 k |
| `multi_pipeline` | results of a round measured under that round's settings, refinement of `Sweep`, nothing missing without faults, the rounds end | 368 k |
| `emitter` | nothing disappears, duplicates bounded, `stop()` returns, the buffer drains | 309 k |
| `campaign` | what `--resume` skips and how often an event is stored, over crashes, repeated and late POSTs and equal ids; every start ends | 968 k |
| `opt_loop` | causal decisions, slots under their own decision, models of their scheme | 3.3 M |
| `toolchain` | baselines resolved, runs measure the experiment they are filed under, segments are flows | 541 k |

Bounds. Two requests are enough to have one in flight while another finishes, two
updates of one direction to have one woken while the other is blocked or has timed
out. Two nodes give one link with both its ends, two runs are the least that can be
mixed up, two batches the least that overtake; the restart of the second node is the
one that meets a payload. In `multi_share` the backlog of two tasks per pipeline is
the smallest in which serving by pipeline and serving in turns differ. The emitter's
bounds let the buffer overflow, a batch be full or partial, and the last attempt
fail. In `multi_pipeline` one task per pipeline and round is enough for tasks of two
rounds and two pipelines to meet on a node. In `campaign` two starts are one crash
with its recovery, two runs are enough to share an id, and two attempts with two
faults let an event be posted again while its first POST is on the way, and be dropped
though both may arrive. In `opt_loop` three slots with an interval of two have
slots with and without a probe, before and after another; two values of `mu`, two
schemes and two starts are the least that can leak into each other; the schemes share
a codec because only then do they share a file. `toolchain` is one run over several
`Scenarios`, each with its own bounds on calls, kills, deployments and restarts: the
sources in `MCToolchain` hold a cycle of baselines, a reference that cannot be made,
two specs of one name, opposite node orders on one set of hosts, sweeps in both modes
with rates that are written alike, a link left out, and all pairs of flows over three
nodes. No run bounds the length of a behaviour; counters that could grow are bounded
by the constants and variables marked as bounds.

`CHECK_DEADLOCK FALSE` is set where the system really stops: every task is
finished, every update answered, the sweep is over, the generator is not called again.

Three runs show that what a document says is not what the code does (`findings` in
`PROJECT.json`):

- `multi_pipeline_drain`: a task on its way between two idle multi-model nodes does
  not complete under the settings it was compressed with. `multi_pipeline` shows
  that such a task has been given up by the orchestrator and is never counted.
- `campaign_resume`: run ids do not identify a run within an experiment, and
  `--resume`, which deployments always pass, then skips a run on the first start.
  `SkipsAreEarned` says what a skip is worth instead.
- `toolchain_dataset`: a sub-experiment's own dataset is not used in a Llama
  experiment unless it is the first one.

Preconditions found while checking, without which a property fails, and which the
code does not enforce: `RunsMeasureTheExperiment` needs runs that name every hop of
the nodes' definition order, and each of them once (`Regular`: the pushes of a run are
gathered, so of two entries for one link either may stay in force), a file that has not been regenerated since
the deployment (`clean`) and, on Kubernetes, the experiment's own pods (`own`) and no
other orchestrator running on them (`alone`; a run being one step, the model and its
proof would do without, the code would not);
`SegmentsMatchFlows` needs nodes listed along the flows (`ListedAlong`);
`BaselinesResolve` undamaged directories and distinct names.

Smaller disagreements that no run is spent on: `docs/node.md:123` says that probing
never happens during active inference, but a request accepted after the idle check
runs beside the probe (`ProbeStartsIdle` is what holds); `data_client.py:85` that at
most `max_in_flight` batches are in the pipeline, but one that timed out gives its
slot back while a node still holds it; `emitter.py:76` that `stop()` flushes, but
the batch in the worker's hands is cancelled after 5 s (`Accounted` counts it);
`multi/server.py:174` that clocks enforce a proportional share, which within a
backlog they do not (`LaggardsFirst`), and that a step of the wall clock or a `NaN` weight
can turn back or undo; neither docs nor handlers speak of concurrent updates, of
which the last to arrive is not always the one in force (`LatestUpdateInForce`); `generate.py:811` that every link must list
its methods if one does, which is not checked; `multi/server.py:91` calls weights
non-negative, but zero is rejected. `wait_for_all_idle` is never called.

## Fairness

Weak fairness is assumed of steps the programs owe: a ready coroutine is resumed by
the event loop, every HTTP call has a timeout (`httpx` clients are built with one),
the drain and the wait for a result use `wait_for`. Never of calls from outside,
faults, restarts, or the orchestrator's decision to stop. A send is one action
whether it is answered, refused or times out. `LookAtEvent`/`ApplyConfig`/
`DrainTimeout` of one update share one fairness condition because the code owes one
of them, not each.

## Proofs

Every theorem is for all values of the constants: any number of nodes, pipelines,
requests, updates, runs, batches, faults and restarts that the named assumptions
admit. `PROJECT.json` says which theorem states which property; this is what each
proof rests on.

**One single-model node** (`NodeServerProofs`). `TypeOK`, `CounterExact`,
`NoLostWakeup`, and over the order of arrivals `EarlierRequestsDone`,
`LatestUpdateInForce`, `ProbeStartsIdle`.
- `CounterInv` adds to the counter that what it counts is finite (it starts empty and
  changes by one element at a time, so no assumption is needed) and that nobody is
  blocked on a set event.
- `LineInv` says that `ahead` is a line: handlers that may resume stand behind such
  handlers only, blocked ones behind blocked ones, and of two of a kind one stands
  before the other. So a handler is never stuck behind one that is gone.
- `ArrivalsInv` ties the log of arrivals to the stages, and `OrderInv` says how far a later
  update may have got beyond an earlier one: no further, unless it was posted and had not
  looked at the event when the earlier one was woken (`InOrder`). `LatestUpdateInForce` follows
  at the step that applies: whoever is applied before an earlier update is in that race
  with it. That the last to arrive is in force is false, and so is any order that is kept
  when a `set()` falls between a POST and the turn of the loop after it.

**The pipeline of single-model nodes** (`PipelineProofs`). `TypeOK`,
`RecordedUnderRunConfig`, `ImplementsSweep`, `ChainOfCustody`, `EveryBatchRecorded`,
`EndNodesAreNodeServers`.
The first property about records is not inductive: it says nothing of a result on its
way. `IInv` adds that
- a push in progress has not applied anything but the current run's settings
  (`PushInv`);
- a task somebody waits for belongs to the current run, and its future is only
  resolved by its own result (`ClientInv`);
- a task reaches hop `n + 1` only through hop `n` (`ChainInv`);
- on every link a task has passed, both ends used the run's settings or, after a
  restart, the default (`SettingsInv`), where `Decodable` and `RestartsAreLoud` rule
  the default out.

With it, a step that records a task is a `Record` of `Sweep`, and every other step
leaves the results alone: `SweepImplemented` is that refinement, initial states and
steps. Custody needs that the counters of all nodes are exact (`CounterInv`, which
survives restarts) and that in an undisturbed sweep the sender of a message still holds
its request. That no batch is missing needs more than custody: `TaskComplete` follows
a task from its submission to its record and says that it is at some hop or back, and
`PushComplete` that all updates got through, so that no node raises
(`AcceptedDecodes`). Neither says anything of termination; that the sweep ends is
TLC's. Last, `NodesImplemented` is the refinement of the component: `ViewStepHolds`
shows for any node that a step of the pipeline is a step of `NodeServer` as
`PipelineNodes` sees it, or none, and this is then read for the two instances. It
needs `PushInv` (the updates of a finished run are all applied, so nothing changes
when the next run begins) and `ChainInv` (a message is posted to a node only once).

**One multi-model node** (`MultiNodeProofs`). `TypeOK`, `IdleExact`, `TagsCurrent`,
`PipelineOrder`, and over the order of arrivals `EarlierTasksServed`,
`LatestUpdateInForce`, `LaggardsFirst`. Besides the properties themselves `IInv` has
that queued tasks of one pipeline share a tag, that sequence numbers in the queue are
distinct, and that only known pipelines are queued. `PipelineOrder` needs the first
two: of equal tags the smaller number goes first. The line of the handlers
(`LineInv`) and the order of arrivals (`OrderInv`) are treated as in `NodeServerProofs`.
None of these rests on the clocks going forward: tags are copies of clocks, and a clock
moves only while nothing can arrive. `LaggardsFirst` needs `ShareInv`: nothing arrives while the worker runs, so a queued
task still has the tag its pipeline's clock showed when the worker resumed, and that
the clock of the one being served may have passed the others by then does not matter.

**The rounds over multi-model nodes** (`MultiPipelineProofs`). `TypeOK` (which no run
lists), `RecordedUnderRoundConfig`, `ImplementsSweep`, `EveryTaskRecorded`, with the
four parts of `PipelineProofs`. Custody is weaker, since a node is idle while it sends:
`ChainInv` therefore says that a task which has left a node has left all nodes before
it, and `SettingsInv` speaks of the tasks somebody waits for only (`Watched`); of the
others it would be false, as `multi_pipeline_drain` shows. `IdleInv`, that the event is
set exactly if nothing is queued, holds through restarts.

**The emitter** (`MetricsEmitterProofs`). `TypeOK`, `Accounted`, `BoundedDuplicates`.
`Accounted` needs that an "ok" seen by the sender is about a batch in the files, and
that nobody holds a batch when the flush starts (`HandsOff`), so the flush overwrites
nothing. For the duplicates `CountInv` adds what may still be stored: for each event,
the copies in the files and the POSTs on the wire that carry it are together at most
the attempts that can have been made (`Spent`). That the attempts of two batches are
not added needs that an event has one place (`PlaceInv`): it is once in the buffer or
in the batch, not in both.

**Resuming** (`CampaignProofs`). `TypeOK` (which no run lists), `SkipsAreEarned`,
`RepeatsAccountedFor`. The check trusts an event in the files, so the invariant
follows the marker back to where it was emitted. `MarkerInv` says that a
`run_throughput` event in the buffer, on a POST nobody waits for or in the files belongs to a run
that was carried through, and `WalkInv` that whatever the orchestrator has passed since
it was started it executed or skipped. For the repetitions `RepeatInv` counts, for each
event, the copies in the files, in the buffer and still to come in this start, less
those that came by POSTs nobody waited for: for a single-model result there is one to
come only after a check that found none, or that could not ask. A POST that is made
again changes none of these, which is why only the arrival of the earlier one counts.

**The optimisation loop** (`OptLoopProofs`). `SlotsRunAsDecided`, `DecisionsAreCausal`,
`ModelsMatchScheme`. `PushInv` says that a node which has not got this slot's settings
or weights has its push pending, was restarted or refused, for any interleaving of the
answers; `RunInv` relates what the adapter holds to the slot the loop is in (an
estimator has this slot's probe exactly after the step), and `DecidedInv` carries that
to the decision until it is recorded. That the first slot of a run always probes is a
lemma of its own (`FirstSlotProbes`). `SourcesInv` follows the timings from the
profiling runs through the metrics server, the file of the profile and the adapter's
memory to the decision, across starts: `StoreInv` for what is stored, `MemoryInv` for
what is held, of this scheme from its profiling on. It needs `ProfilingFirst`: every
optimisation of a scheme has a profiling before it. `opt_experiment.py:591` asks for
that order ("profiling must precede accuracy_model which must precede optimization
loops"), but nothing checks it, and without it the invariant is false: the adapter
keeps the profile of the scheme before, and the first decision of the new scheme is
computed from it. `MCOptLoop` has the order.

**The toolchain** (`ToolchainProofs`). `BaselinesResolve`, `RunsMeasureTheExperiment`,
`SegmentsMatchFlows`, and that a sweep is expanded into exactly its runs
(`SweepsAreExhaustive`).
- `GenInv` is the invariant of the generator. `BaselinesResolve` speaks of a finished
  call and of directories; in between, a baseline may be on the stack or not yet begun.
  So `StackInv` says of every experiment being made that each of its references is on
  disk, on the stack, or still to be looked for, and `SeenInv` that the cycle guard is
  about these and nothing else: a name in `seen` that was never made would be taken for
  a baseline that is there. `DiskInv` ties what is on disk, unless it is damaged or
  its `infra.yaml` is still to be written, to a combination of the present sources,
  which is why an edit of the sources damages everything made from the old ones.
- `DeployInv` is the invariant of what runs. `FileInv` says that containers have read the
  file that is there unless it changed while in use, `DockerInv` that the orchestrator of
  a compose project has nodes of its own experiment (on Kubernetes it need not, hence
  `own`), `RunningInv` that a running orchestrator is in a sub-experiment of a valid file.
- That a run measures the experiment follows at the step that makes it, from
  `DeployInv` and facts about the data: the links of a regular sub-experiment order
  the nodes as they are listed (`OrderOfNodes`), the nodes' own files send a batch along
  that order (`WalkFromPath`), and the two halves of a push meet on every hop
  (`EndsAreTold`).
- What a walk along links, a flattened list or a product of sweeps computes takes
  induction over data. The induction rules of the library cannot be used, but the
  least-number principle can: `LeastNumber`, from the well-foundedness of `<` on the
  naturals, gives the first position at which a claim fails, and there is none.
  `Combinations` is a recursive function and not a fold for that reason.

**Assumptions.** Those the modules name, which TLC evaluates in every run
(`NodeServerAssumption`, `PipelineAssumption`, `MultiNodeAssumption`,
`MultiPipelineAssumption`, `HistoryAssumption`, `EmitterAssumption`, `SourcesAssumption`,
and those of `Campaign` and `OptLoop`). `HistoryAssumption` keeps requests and updates apart in one
log of arrivals; `MultiPipelineAssumption` has finitely many pipelines, because the
model counts the tasks that a worker's step makes fail. `SourcesAssumption` says what
the generator's sources look like: lists are sequences, flows are not empty, and the
directory of a spec decides its kind, so that a baseline, which `generate.py` looks up
among the single-model specs, is of that kind; of contents, names and cycles it says
nothing. Two hypotheses stand in the theorems themselves: `RestartsAreLoud`, which the properties
about records carry as well, in the two refinements, and `ProfilingFirst`.

**Only model-checked.** Liveness (`NothingHangs`, `SweepEnds`, `RoundsEnd`,
`StopsAndDrains`, `StartsEnd`), because the prover does not do `ENABLED`. Every other
property of a passing run has a theorem.

## Not modelled, and what is left

Not modelled: tensor arithmetic, tokenisation and the numerical optimiser (a model
checker has nothing to say of them beyond where their inputs come from); analysis,
plots and `validate.py`'s report, which change nothing; images, ports, volumes and
traffic shaping in deployments; the legacy experiment format and `--dry-run`; arrival
times of the rate-based patterns; the read-only `GET /experiments` handlers.

Cases that no property covers because the code accepts them by design: files of experiments whose names contain this one's answer its completion check; a sweep
entry that leaves out a link keeps the setting of the run before, and a chain whose links
run against the definition of the nodes is pushed in one order and walked in another
(both outside `Regular`); the probe of a
link that failed counts as 1 bps; a failed query for the timings makes an empty profile
that is valid from then on; a pipeline none of whose tasks came back leaves its dual
variable as it is; a slot event carries an old probe on slots without one; under
`--all` the node mismatch of a baseline is skipped like one of the combination itself;
and `node_order` does not end on links that lead back into the chain (`Endless`).

Left to do:

1. The refinement of `MultiNode` by the nodes of `MultiPipeline`, as `NodesImplemented`
   has it for the single-model nodes: `MultiPipeline` serves a backlog in one step, so a
   step maps to several.
2. `Toolchain` with runs of several steps, composed with `Pipeline`'s pushes, so that two
   orchestrators on one set of Kubernetes pods can be looked at.
