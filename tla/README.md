# InferTune in TLA+

InferTune predicts how an LLM serving engine will behave on a GPU, measures a running
engine, stores what it measured and searches for a good configuration. This directory
holds TLA+ modules that model its core, TLC configurations that check them on small
instances, and proofs checked by TLAPS. Paths below are relative to `src/infertune/`.

    tlc -workers 2 -config loadgen.cfg LoadGen     # model-check one run
    tlapm LoadGenProofs.tla                        # check the proofs

`PROJECT.json` lists the components, the runs, which lines each definition translates,
the hazards with the properties that cover them, and for each property a mutant: a
plausible bug under which TLC finds the property violated. The mutated operators stand
just before the definition they replace, marked `Mutant`.

## 1. The system

| component | state | operations | what is hard |
|---|---|---|---|
| load generator, `bench/loadgen.py` | shared counter, list of records, two locks, a thread pool, a deadline | `run_at_concurrency`, its `worker`, `_Counters.take`, `_stream_one`; `wait_for_endpoint` | threads, exceptions in one worker of many, Ctrl-C, a deadline read without a lock |
| sweep, `bench/harness.py`, `bench/metrics.py` | the points so far, the best throughput | `sweep_concurrency`; `knee`, `best_throughput`, `saturation_concurrency` | three early stops that must lose nothing, two implementations of "saturated" |
| store, `store/sqlite.py` | one SQLite file: schema_info, runs, points | opening, `record`, `runs`, `count` | several processes, crash between two inserts, reads outside a transaction |
| search, `search/space.py`, `search/engine.py` | candidates, evaluations, boots used | `prune`, `pareto_front`, `search`, `grid_search` | the boot budget, ties, predictions that are wrong, a boot that raises |
| memory estimator, `estimator/memory.py`, `core/plan.py` | none (frozen records) | `estimate_plan`, the ledger, `max_concurrency_for_budget`, `with_kv_dtype` | rounding, a bisection, figures kept after a dtype change |
| cache layouts, `core/cache.py` | none | bytes per token and per sequence of each attention kind | KV heads that do not divide over the GPUs, windows |
| roofline and calibration, `estimator/roofline.py`, `calibration.py` | the samples accepted so far | `predict`, `calibrate` | two inversions that must undo what the prediction does; disturbed measurements |
| workload, `core/workload.py` | none | distributions, Monte Carlo working set | floating point |
| engine adapters, `adapters/` | a schema of flags | `compile`, `parse_startup_log` | flags that exist in one version only, logs of several formats |
| model metadata, `models/`, `core/model.py` | none | `analyze`, `measure_hub`, `build_cache_spec` | concurrent range reads, fall-back paths, config fields that co-occur |
| hardware, `hardware/`, `core/gpu.py` | the spec table, an NVML session | `specdb.load`, `nvml.discover` | a session to shut down whichever query raises; the driver's answer merged into the table's |
| command line, `cli.py` | none | `profile`, `plan`, `benchmark`, `tune`, ... | the order of wait, sweep, record; which exceptions are caught |

They interact by calls only. `benchmark` waits for the endpoint, sweeps (each rung is one
call of the load generator), and records the sweep in the store as one run; `search` boots
candidates through a callable that returns a sweep; `calibrate` reads runs back; the
estimator scores the candidates that `prune` compares. Concurrency proper exists in three
places: the load generator's threads, processes that share one store file, and the shard
reads of `measure_hub`. What makes each component correct:

* load generator: the budget is never exceeded, every request sent is accounted for, a
  result is complete, nothing runs on after a call that was disturbed once, warm-up stays
  apart, the call ends;
* sweep: each early stop is justified by the points, loses nothing it promises to keep,
  and agrees with what the result says of itself;
* store: runs enter whole or not at all, readers see whole runs, openers see a whole
  schema, no call blocks for ever;
* search: boots go to the most promising candidates, and only wrong predictions can make
  it miss the best configuration;
* memory estimator: the terms of a plan account for usable memory exactly, the concurrency
  it promises fits the budget and one more does not, and a plan re-derived for another
  dtype promises no more than one estimated for it;
* engine adapters: an engine started without a warning has the cache that was planned and
  stays within the memory it may use, or misses both by no more than is known;
* model metadata: a measurement counts every shard of the checkpoint once, or none is made;
  a profile's cache costs what its layers cost, whichever fields co-occur, and its active
  parameters lie between what a token passes through and the total;
* roofline and calibration: no measurement makes the hardware look better than it is, a
  majority of undisturbed ones gives the truth, and the reported wall is the wall;
* hardware and command line: no driver session stays open, only finished sweeps are stored,
  and the exit code says so.

## 2. The modules

### Measuring an engine

**LoadGen** models `run_at_concurrency` with everything it calls. Each thread has a place
in the code, `pc`; an action is one stretch of code between two points where another
thread can get in. `take` is two actions, so that the lock is what keeps them together,
and so is the append with its progress call. `RequestFails` is the `except (OSError,
HTTPException)` clause and the status check, which yield a record with an error;
`RequestRaises` is every other exception, which kills the caller. `CancelNext` is what the
generator of `Executor.map` does when an exception passes through it: it cancels the futures
that have not started, one by one, while threads go on starting them. `LeavePool` is the join
at the end of the `with` block. Ctrl-C (`Interrupt`) may come at any moment of main's, as
often as `MaxInterrupts` says, and `Escape` is where it takes main: out of the loop of
submissions nothing is cancelled, out of `list()` the futures are, and out of the join main
leaves at once. So one disturbance, an exception in any workers or a Ctrl-C, leaves nobody
behind, and a Ctrl-C on top of either may leave workers sending requests after the call
raised: `NoOrphanRequests` says the first and excepts the second (`TwiceDisturbed`). A request is
the number of its tokens and whether it failed; time is one flag, `expired`, which can
rise during the warm-up, since the deadline is computed before it.

**RequestBudget** is the abstract specification of a call: issue, record, lose, expire,
return, raise, and break (a Ctrl-C). A call returns with part of its budget unspent only when
overdue, and requests are issued and recorded after its end only if it was broken off twice,
or once on top of a failed worker.
`LoadGen!MeetsBudget` maps the threads onto it.

**Sweep** models the loop of `sweep_concurrency`, one action for each way its body ends,
and the summary in `metrics.py`. The engine is a curve, one measurement per rung, so that
the points a sweep returns can be compared with those it skipped.

**Benchmark** (extends `Sweep`; `MCSweep` gives it a ladder) is the `benchmark` command
around it: the arguments, `wait_for_endpoint` poll by poll, the sweep, `record`, `count` and
the exit code. The process may be killed at any step, and any call that may raise does so
sometimes. The store is a log to which `record` appends one run, which is what `Store`
implements.

**Store** models several processes on one file. SQLite is external and modelled as used:
DDL statements commit one by one, the first INSERT takes the file's write lock, a SELECT
outside a transaction sees the latest commit, closing without a commit rolls back. The
content of a run is the number of its points. Indexes and the filters of `runs` are left
out; all processes have the same `SCHEMA_VERSION`. **RunLog** is the abstract store: a log
to which whole runs are appended.

### Choosing a configuration

**Search** models `search` and `grid_search`. Predictions and measurements are numbers
chosen freely in `Init`; the code only compares them.

**Headroom** models `max_concurrency_for_budget` step by step: doubling, the cap at the
ceiling, the bisection. The cache layout enters as an arbitrary set of concurrencies that
fit, monotone or not, so no arithmetic of a layout can break what it promises.

**CacheLayout** has the operators of `core/cache.py`: bytes per token, per sequence and
fixed, for attention with or without a window, MLA, recurrent and mixed caches. A cache is
the sequence of its parts, `Single(part)` the cache of one. `Part` says what the
constructors let through.

**MemoryPlan** (extends `CacheLayout`) is `estimate_plan` as operators over a request: the
overheads, the budget, the predicate whose boundary is the headroom, the binding
constraint, the ledger and the record that comes out; and `with_kv_dtype`. The code estimates
a working set twice, from a sample of 4000 draws at most for the headroom and from one of 8000
for the binding constraint. The first is taken to be exact, with requests of one length, so
that the headroom can be compared with what `sequence_bytes` says of the same requests; the
second (`WorkingSet`) is off by the request's `skew`, any number of tokens.

**Launch** (extends `MemoryPlan`; `MCLaunch` gives it models, devices and engines) takes a
request to a running engine: `Refuse` or `Admit`, the headroom search (an instance of
`Headroom` on the request's predicate), `Plan`, at most one `Switch` to fp8, `Compile` for
any installed schema and any way compile is called, `Boot`. A schema is any subset of the
parameters the adapters use: what `emit` skips gives a warning, a missing eager parameter
gives none, and without a parameter for the fraction the engine takes its own
(`DefaultFraction`). Bytes are integers, fractions
ten-thousandths. The engine is external; its arithmetic is that of
`predict_kv_for_utilization` and of the adapters' docstrings (vLLM's fraction covers
everything it measures, SGLang's the weights and the pool). Expert, pipeline and data
parallelism and the prefill budget are flags passed on value for value, and left out.

**Roofline** is `estimator/roofline.py` as operators over a setup (model, dtype, ranks,
device, interconnect): both steps, communication, the bound, the critical batch size and
`predict`. Times are whole ticks: sizes and rates are chosen so that every quotient is
whole, which an ASSUME of `Calibration` has TLC verify, and an efficiency is `1/d`.

**Calibration** (extends `Roofline`; `MCCalibration` gives it setups) models `calibrate`
point by point: both inversions with their fall-backs, the plausibility bounds, rejections
and medians (`Nth(samples, k)` is the sample that `k - 1` others come before). A sample is an exact quotient. The engine that was measured obeys the roofline
with coefficients the fit does not know, and a measurement may be disturbed.

### Knowing the model and the device

**Weights** (`MCWeights` gives it small repositories) models `measure_hub`: the fetch of
the index with the answers the code tells apart, the single-file path, the pool of
`read_shard` threads and the loop over `pool.map`: shards are submitted one by one, collected
in order, and cancelled one by one when an exception comes out of the loop, while threads go
on beginning queued ones. Ctrl-C is that of `LoadGen`, with the same exception for a second
disturbance. A file is the sequence of its tensors, a
tensor its size, dtype and whether it is an output head. `measure_local`, a sequential loop
over the same files, is the reference (`Local`) the result is compared with.

**ModelConfig** (extends `CacheLayout`) is `models/hf.py` from a config to a profile: which
layout the fields mean, MoE arithmetic, and what is refused here and in `core/model.py`.
Values that are missing are 0.

**Hardware** has the operators of `specdb.py` (key resolution, `load`), `nvml.py` (the
profile `discover` builds) and the checks of `GPUProfile`.

**Profile** (extends both; `MCProfile` gives it names, devices and configs) composes them as
the `profile` and `plan` commands do, up to the estimate: the GPU from the database or from
an NVML session query by query, the config, the weights (an outcome of `Weights`), the
profile. Each step can fail in the ways the code distinguishes: an error message, an
uncaught traceback, Ctrl-C.

### Proofs

**Sums** has what the others need of finite sums: `SumOf` and its laws (taking one member
out, monotone, linear, by induction over finite sets), that `SumFunction` of the community
modules is this sum in whatever order it is taken, and the two forms of induction.
**PredictionProofs** holds the theorems about the two modules that work with the performance
model, `Search` and `Calibration`; **LoadGenProofs**, **BenchmarkProofs**, **StoreProofs**,
**LaunchProofs** (with those about `Headroom`, which `Launch` instantiates),
**WeightsProofs** and **ProfileProofs** those about the modules they are named for.

## 3. What TLC checks

| run | instance | shows |
|---|---|---|
| `loadgen` | 2 workers, 3 requests, 1 warm-up, at most 1 token each, a deadline that passes at any moment or never, Ctrl-C up to twice at any moment, fairness; 1.2 million states | `TypeOK`, `NoOvershoot`, `ReturnIsComplete`, `NoOrphanRequests`, `WarmupIsolated`, `OneLateRequest`, `ProgressCountsUp`, the refinement `MeetsBudget`, `Terminates`, `CrashSurfaces` |
| `sweep` | `benchmark` on the ladder 4, 1, 2 given out of order, throughputs 100 to 102, latencies 1 and 3 around the SLA bound, all flags; 1.6 million states | `ClimbJustified`, `SaturationAgrees`, `SlaStopKeepsKnee`, `RecordedSweepsFinished`, `ExitTellsTruth` |
| `store` | 2 processes, 2 runs of 0 to 2 points, fairness; 44 thousand states | `ListingWhole`, `SchemaBeforeUse`, `CountCoversRuns`, the refinement `KeepsRunLog`, `CallsEnd` |
| `search` | 3 candidates, 2 boots, every ranking on each axis, ties included; 1.7 million states | `NothingBetterSkipped`, `FindsBest` |
| `launch` | 13,824 requests: 4 layouts, small and large weights, a device of 100,000 bytes of which 4,500, 90,000 or all are usable, 1, 2 or 4 GPUs of 2, both KV dtypes, a skew of -100, 0 or 300 tokens; schemas that lack nothing, one parameter, or the absolute lever and another; 1.1 million states | `Reconciles`, `HeadroomFits`, `SearchCheap`, `BindingReal`, `SwitchSafe`, `EngineHonoursPlan` |
| `launch_window` | the same with windowed layers; violation | the headroom ignores caches of windowed layers |
| `calibration` | up to 3 points of any kind from 5 setups, disturbed by 0, 500 or 40,000 ticks; 0.28 million states | `NeverOverstates`, `MedianRecovers`, `CriticalIsWall` |
| `critical_batch` | one setup with 8-bit weights; violation | the critical batch size takes two bytes per parameter whatever the dtype |
| `weights` | up to 3 shards of at most 2 tensors, 2 threads, Ctrl-C up to twice at any moment, fairness; 0.39 million states | `SameAsLocal`, `Resident`, `NoStrayReads`, `Ends`, `FailureSurfaces` |
| `weights_fallback` | as `weights`; violation | a server error on the index makes `measure_hub` measure another file |
| `profile` | 3 database entries, one device or none, some six hundred configs; 0.32 million states | `CacheCountsEveryLayer`, `ActiveCovers`, `NvmlClosed` |
| `hardware_multi` | up to two visible devices; violation | a machine that shows two devices is never detected |

*Bounds.* Two workers compete for each lock, and a budget of three lets one of them take two
requests, or all three, while the other gets fewer or none; the proofs cover every number.
Two Ctrl-C are one to raise an exception and one to break off the join that follows.
One token separates the empty stream from the successful one, which is all `ok` looks at.
Three rungs give a stop in the middle, a rung skipped and one before; 100, 101 and 102 lie
on both sides of and exactly on the 2% bound, and two requests per point put one failure
above the error limit at the low rungs and exactly on it at the top. Two processes and two
runs give every pair of overlapping calls and a run recorded while another is listed. Three
candidates for two boots give a trimmed frontier, a dominated candidate and ties. Three
shards for two threads leave one queued while one of the others fails; the two kinds of
dtype and a head at the start of a file give a dtype that deduplication empties.

On a device of 100,000 bytes a ten-thousandth is ten bytes, so the rounding of the fraction
is visible. Three KV heads on two GPUs do not divide and a single one is replicated; four
GPUs are more than there are. 4,500 usable bytes lie below the 5% floor of the fraction, and
weights of 501 and 70,001 bytes divide unevenly. A ceiling of 64 is reached by some
requests, and by none in others; it is a power of two as the code's 4096 is. The critical
batch size is absent, 3 or 20: below, between and above one and eight sequences and their
headroom. A skew of 300 tokens overflows budgets whose search leaves room for more sequences.

The configs of `profile` combine a latent rank, a hybrid pattern (short, right, too long),
layer types, a window that is on or off, heads that do not divide, and experts with every
order of their counts. The setups of `calibration` are dense and sparse models on one and
two ranks whose crossover to compute lies between the two concurrencies; 500 ticks disturb a
sample mildly and 40,000 make it implausible, and three points allow a majority with one
outlier and an even number.

*Fairness.* `LoadGen` assumes weak fairness of every worker and of main: the operating
system schedules every thread, a server sends at most `max_tokens` chunks, and the socket
time-out turns silence into an error, so no request hangs for ever. Neither `Interrupt` nor
the passing of the deadline is fair: nothing makes a user press Ctrl-C, and an untimed call
has no deadline. `Store` assumes weak fairness of the steps of a call that has begun;
starting a call, an exception and a crash are never forced. A writer that finds the lock
taken may wait or time out (`Busy`), both within SQLite. `Weights` assumes weak fairness of
the calling thread and of the pool: every fetch has a time-out, and which thread runs next
is the system's choice. The other modules state no liveness: each is one thread whose loops
are bounded by its data.

*Where the code and its words differ.* The four violation runs; each quotes the line in
`PROJECT.json` under `findings`.

Smaller remarks, without a run.

* Estimator and adapters. `safe_utilization_ceiling` subtracts a margin of 3% of the device
  on top of the plan's own safety term, so the `profile` command may warn of a clamp for a
  plan that fits. `max_concurrency_for_budget` stops one below a ceiling that fits when the
  ceiling is no power of two (4096 everywhere today). `_classify_binding_constraint` may
  name the cache although the critical batch size is below the headroom, when
  `max_num_seqs` is past both. `with_kv_dtype` keeps the headroom and the binding constraint
  of the old dtype, and the two samples of a working set may disagree: a plan can name the
  cache although its own headroom is past `max_num_seqs`. An engine version without an eager
  flag gets the command without it and without a warning: the graph pool it captures comes
  out of the planned cache or on top of usable memory (`Unplanned`). The five percent floor
  of a fraction can take more than is usable on a device that is nearly full (`Floor`). The
  command line never asks for eager mode; a caller of `compile` may.
* Search. Trimming the frontier to the boot budget by predicted throughput can drop the
  candidate with the most KV capacity, which the docstring of `prune` calls an axis of its
  own.
* Roofline and calibration. `fit_mbu` takes 16-bit communication where the prediction takes
  the weights' dtype, so for fp8 on several ranks a fit can come out too high by 0.03% to
  2.5%; the setups of `calibration` leave that combination out, and 8-bit dense weights,
  which are the violation run. The module's docstring says that compute-bound points are
  skipped, but only values outside 0.02 to 1 are. Runs recorded by the command line carry no
  cache bytes per token, so `mbu` is never fitted from them, and unlabelled engines or
  models share the key "unknown".
* Load generator and store. `run_at_concurrency` promises (line 167) "exactly `concurrency`
  requests are in flight at all times", which free-running workers keep only until the budget
  runs out. One rung that gains less than 2% ends a sweep although the next may gain more.
  `count` reads runs and points by two SELECTs, so the pair it returns may mix two moments.
* Metadata and command line. A hybrid pattern longer than `num_hidden_layers` is trusted
  with a warning, and then `ModelProfile` raises a `ValueError` that nothing catches; a
  `layer_types` of the wrong length is not warned of. `plan --gpus 0`, and a p95 length at or
  below the median, end `profile` and `plan` in a traceback although `benchmark` catches the
  latter. `fetch_config` does not catch a connection that breaks while the body is read.
  `profile --tp 2` can never succeed: with `--gpu` one device is loaded, without it two are
  not detected. Shared experts are counted twice in the active parameters, which errs
  upwards.

## 4. What is proved

Every safety invariant, action property and refinement that a passing run checks is also a
theorem. The theorems hold for every value of the constants that satisfies the named
assumptions, which TLC evaluates on the runs' instances:

* `ParameterAssumption`, `SweepAssumption`, `WeightsAssumption`, `SearchAssumption`: what the
  code's validation enforces (a positive concurrency, pool, boot budget), and finitely many
  candidates. `StoreAssumption`: finitely many processes.
* `RequestsAssumption` (`WellPosed`), `RepositoriesAssumption`, `ConfigsAssumption`,
  `SetupsAssumption` and `ParametersAssumption`: sizes and counts are natural numbers, rates
  and ranks positive, files and layouts sequences, as the constructors and parsers require.
  `SchemasAssumption`: an installed version has any subset of the parameters the adapters use.
* `PlanAssumption`: the overheads are natural numbers, and the ceiling of the headroom
  search is a power of two, as the code's 4096 is.
* `TicksAssumption`: the times of the points a calibration reads are whole. It takes the
  place of floating point and is a restriction of the model, not of the code.

Four theorems have a hypothesis of their own, given with them below. Nothing is assumed
that the provers do not check.

* **LoadGenProofs.** `TypeCorrect`, and `Inductive`: `TypeOK /\ IInv` always holds.
  `Accounting` alone is not inductive: that `TakeWrite` adds exactly one needs `LocksHeld`
  (a worker between reading and writing is the only holder, and what it read is still true);
  that the worker who dies is not counted twice needs the place of each thread; and
  `NoOrphanRequests` needs `PhasesOrdered` (no worker exists before the pool, the futures
  are collected in order, main is past `list()` without all of them only after an exception,
  and what a Ctrl-C broke off is told by `interrupts`). From it follow
  `AccountingHolds`, `OvershootExcluded`, `OrphansExcluded`, `WarmupSeparate`,
  `ReturnComplete`, `ProgressInOrder`, `LateRequestBound`, and `RefinesBudget`: every call
  is a behaviour of `RequestBudget`, with the set of open workers turned into
  `issued - recorded - lost` and each action mapped to a step of the budget or a stutter.
* **BenchmarkProofs.** `RunsFinished`, `ExitHonest`, `ClimbsForAReason`, `SaturationAgreed`,
  `SlaStopHarmless`. The invariant: the points are the curve as far as the climb got
  (`Climbed`), `best` is attained by one of them and bounds all (`Passed`), every point but
  the last was passed, and the curve shows the reason to stop; `StoredAlike` carries that
  reason to the stored numbers, in which a latency of zero is missing. `Ascending` shows
  that the ladder can be sorted: the places of the rungs, counted by how many come before
  each, are a bijection by the pigeonhole principle. That harness and summary agree on
  saturation follows from `ClimbJustified`: only the last point can be flat. That an SLA stop
  is harmless needs an error budget below 100%, for then something succeeded at the last
  point (`SomethingSucceeds`).
* **StoreProofs.** `ListingsWhole`, `SchemaFirst`, and `StoreKeepsRunLog`, the refinement.
  `Room` counts the runs that are being recorded, so that a commit finds its place; `Whole`
  says that a run in the file has its points, `Listed` that a listing has read only runs
  that were there when it began, `Stamped` that a version precedes every use. `CountsCover`
  adds `Counts`: what a process has counted of the runs is a prefix of the log, which only
  grows, so the points it counts afterwards are at least those of the runs it reported.
* **PredictionProofs, the search.** `PromisingFirst` and `BestFound`. Domination and the
  order of the boots are strict orders, so in a finite set something is first
  (`LeastMember`, by well-foundedness of strict inclusion); hence what pruning drops is
  dominated by something on the frontier (`FrontierDominates`), and the cut keeps a prefix
  of it (`KeptClosed`) with its most promising member (`KeptMostPromising`).
* **PredictionProofs, the calibration.** The invariant `FitInv`: the samples are ratios
  (`Measured`), none of them above the truth (`Understated`), at least as many as `exact`
  counts equal to it (`Told`), and what was fitted is their median (`Fitted`).
  `NeverBetterThanTrue`: a disturbance, a step limited by the other coefficient and a
  context that is too short each lower a sample (`MbuSample`, `MfuSample`), and neither a
  sample at a place of the order (`NthTrue`) nor a mean of two exceeds what none of them
  exceeds. `TruthRecovered`: if more than half of the samples are true they are the upper
  ones, since none is above the truth (`TruthOnTop`), and the median is among them. Both
  suppose that every setup is `Wide`: one rank, no link figure, or activations of 16 bits or
  more. With 8 bits on two ranks they are false, see the remark on `fit_mbu` above.
  `WallBeyondCritical` supposes at least two bytes of weights per active parameter, which is
  what the run `critical_batch` violates: up to the critical batch the FLOPs take no longer
  than the bytes (`MemoryLimits`).
* **LaunchProofs, the headroom search.** `TightAnswer`: what the bisection keeps (`low`
  fits, `high` does not or is the ceiling) makes the answer tight for any predicate.
  `ExactAnswer`: for a monotone one it divides the whole range below the ceiling.
  `CheapAnswer`: `Climb` says that doubling is at a power of two with as many calls as its
  exponent, `Cost` that what is left between `low` and `high` has one bit less after every
  further call; the length in bits is a recursive function, shown to exist and to grow.
* **LaunchProofs, the plan.** `LaunchSearches`: the search inside a launch is a behaviour of
  `Headroom`, so its theorems hold here (`HeadroomPromised`, `CheapSearch`).
  `PlanReconciles`: a plan accounts for usable memory to the byte, in its terms and in its
  ledger; `PlanDerived` says that the plan in hand is the estimate of its request or that
  estimate re-derived for fp8, and `SwitchKeepsTerms` that re-deriving touches none of the
  terms. `HeadroomExact`: the estimate by tokens
  (`CacheBytesPerToken` times length) is exactly what `sequence_bytes` says of one sequence
  of a cache without windows (`WindowlessCosts`), so the budget that `Fits` compares holds
  the promised sequences on each GPU, all GPUs together hold them (`GpusHoldSequence`: the
  heads are rounded up), and one more is over; `Searched` and `Admitted` carry the answer and
  the feasibility of the request to the plan. `SwitchingSafe`: no part of a cache grows when
  its dtype narrows (`Narrowed`), so fewer tokens are promised and every concurrency that fit
  still fits (`FitsInstead`). It supposes `Latent`: latent ranks of 16 or more, as every
  published model has; below, the 16 bytes of scales outweigh what fp8 saves. `BindingHonest`
  takes `HeadroomExact` to the constraint a plan names, for any skew: the caches of a batch are
  at least those of a smaller one (`FootprintGrows`), so a constraint other than the cache
  leaves room for one sequence more, and a named cache is full for `max_num_seqs` plus one or
  for the critical batch, unless the search ended at its ceiling or the larger sample reads
  above the search's. Tokens that fit are sequences that fit (`ServedCosts`), which gives the
  context length its room, and shows that a sample that does not read high never names the
  cache in vain. The last conjunct, on `cache_limited`, rests on the same `HeadroomExact`.
* **LaunchProofs, the engine.** `EngineHonours`: `EngineDerived` ties the lever to the plan,
  `Rounding` bounds what a fraction in ten-thousandths loses, `Unclamped` shows that a
  command without warnings was not clamped, and `EngineCounts` that the engine's overheads are
  those the plan counted plus the graph pool of a version that cannot be told to do without,
  for both adapters and every subset of the parameters.
* **WeightsProofs.** `MeasuredAsLocal`, from "what is collected is a prefix of the shards,
  each as `measure_local` reads it"; `StrayReadsExcluded`, from where the caller is when a
  shard has failed or a Ctrl-C has come, and what the threads are doing then.
  `ResidentAddsUp`: bytes summed dtype by dtype are the bytes summed at once (`SumGrouped`),
  leaving out dtypes with nothing left changes nothing (`SumPositive`), at most one tensor is
  dropped, and each tensor of the flattened shards comes from one of them (`Flattened`).
* **ProfileProofs.** `NvmlShut`, whose invariant is the property itself, over every exit;
  `ActiveCovered`, arithmetic over any config, packed checkpoints excepted.
  `EveryLayerCounted`: a cache costs the sum of its parts, a part its layers times the cost
  of one (`HeadsScale`, `LatentScale`, `StateScale`), and the layers of each kind are counted
  (`SumCounted`), for every length and number of ranks (`LayersCost`). Its invariant
  `Measured` says that the model at hand has the cache of its config, whose layout is known.

*Induction.* The library's induction theorems take a predicate as parameter, which no
installed prover instantiates. `Sums` states induction about a set, `Good`, instead: what
holds is membership, and the theorem is first-order (`SubsetInduction`, `NatInductionSet`,
both from well-foundedness). That is how sums, recursive functions (bit lengths,
`FlattenSeq`) and images of finite sets are reached.

Only model-checked: liveness (`Terminates`, `CrashSurfaces`, `CallsEnd`, `Ends`,
`FailureSurfaces`), which is beyond the prover, like ENABLED; and the four violations, which
are no theorems.

## 5. What is not modelled

* `core/workload.py` (distributions and a Monte Carlo working set) and `percentile`:
  floating point and random draws. Requests of one length with a skew between two samples, and two
  p99 latencies per point, stand for them. That an estimate may not be monotone in the
  concurrency is covered by `Headroom` alone, whose predicate is arbitrary.
* `core/units.py` and `core/dtypes.py`: formatting, an enumeration; `bytes_for` is in
  `CacheLayout`.
* `scripts/`: operator scripts around rented GPUs, pure I/O.
* Parsing and text: the SSE parser's lines, config and safetensors headers, the start-up log
  parser, rendered diagnostics, `to_json`. Introspection of an installed engine and the
  registry: reflection, whose outcome is the schema chosen in `Launch`.
* In the modelled components: the random draw of prompts and lengths, an exception raised by
  a `progress` callback (no caller passes one), a database of another schema version, `calibrated_for`'s filter on the run key, prediction intervals
  (a square root), and pipeline, data and expert parallelism.
* Commands that print what is modelled elsewhere: `kv`, `working-set`, `gpus` and `tune`'s
  dry run. `tune --execute` is not implemented in the code.

## 6. Plan

Done, in this order: `LoadGen`, `RequestBudget`, `LoadGenProofs`; `Sweep`; `Store`, `RunLog`;
`Search`; `Headroom`; `Weights`; `CacheLayout`, `MemoryPlan`, `Launch`; `Benchmark`;
`ModelConfig`, `Hardware`, `Profile`; `Roofline`, `Calibration`; the proofs of each.

What would come next: a general form of `TruthRecovered` without whole ticks, with a bound on
the rounding in place of equality; the refinement of the sequential `Local` by `Weights` as a
step-by-step mapping; the selection of runs by key in front of `calibrate`, so that runs of
different engines sharing the key "unknown" are told apart; a store opened by two schema
versions.
