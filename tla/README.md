# YACMO: specification and verification

TLA+ modules that model YACMO, the chaos-engineering tool of this repository,
TLC configurations that check them on small instances and TLAPS proofs of what
matters most. `src/` below is the repository; line numbers are those of the
commit the modules were written from.

    tlc -config MCLifecycle.cfg MCLifecycle    # model-check one run
    tlapm EngineProofs.tla                     # check the proofs

Every run, with the properties it checks, and the source lines behind every
definition are listed in `PROJECT.json`.

## 1. The system

`main.go` loads and validates a configuration, applies the safety preflight,
registers one experiment per enabled module with the engine, runs the scheduler
and finally rolls everything back. One goroutine does all this; others are the
signal handler, the goroutines of a parallel scenario, the workers inside an
experiment, the webhook senders and the metrics server.

    main ── config.Validate ── safety.Preflight
      │
      ├── scheduler.Run ──► engine.RunAll ──► exp.Run   (k8s, http, grpc, mq, network, stress)
      │        ▲                  │
      │    context                └──► callbacks: metrics, report, notify
      │        ▲
      │   signal handler
      └── engine.RollbackAll ──► exp.Rollback

| Component | State | Operations | Hard behaviour | What makes it correct |
|---|---|---|---|---|
| engine `pkg/chaos/engine.go` | registered experiments, names, callbacks, collected results; in a RunAll: loop position, scenario verdicts, one attempt counter per step | Register, RegisterNamed, OnResult, RunAll, RollbackAll, Results | goroutines of a parallel scenario; cancellation at any point; retries; unstable sort | steps run only behind their prerequisites and conditions; every step yields one result; nothing runs after RunAll returned; cancelling stops new Runs; rollback covers whatever was Run; the cap on destructive actions |
| scheduler `pkg/scheduler/scheduler.go` | mode, round counter | Run: once, continuous, cron | select between timer and context; cron expressions | the number of rounds; termination; Run returns at rest; rounds only when due |
| main `main.go` | the order of the phases | start, run, health checks, summary, report, rollback, shutdown | signals in any phase; the rollback has a deadline of its own; the report is written before the rollback | rollback happens on every path after a start; approval precedes anything destructive |
| config `pkg/config` | none | Load, Validate | numeric defaults and bounds not validated | a validated configuration starts no unusable module |
| safety `pkg/safety` | compiled policy | Preflight, ValidateRun, CheckK8sTarget, CheckNetworkAction, CheckStressAction | estimate made before, check made during the run; check of the binaries' presence | nothing destructive starts without permission and approval; blocked targets are never touched; the estimate bounds the run |
| k8s `pkg/k8s` | killedPods, scaledDownDeps, the cluster | Run (kill_pod, scale_down, delete_service), Rollback | the cluster changes between List and Update; partial failure; several rounds; the record is never cleared | rollback restores the replicas; protected resources untouched; at most MaxTargets per namespace and action |
| network `pkg/network` | applied (undo commands), the host's qdisc and iptables | Run, auto-rollback after the duration, Rollback | a command killed by the context may have taken effect; an undo may fail; one root qdisc per interface | every injected rule is removed |
| stress `pkg/stress` | tempFiles, files on disk, worker goroutines | Run, Rollback | workers append to tempFiles without a lock; files survive a failed action | every file created is removed by rollback |
| http, grpc, mq flood | work channel, workers, dispatcher, counters, ticker | Run, (empty) Rollback | dispatcher, workers and a deadline racing; early return of workers while the dispatcher sends; rate to interval conversion | Run ends; counters add up; no request after the end; connections closed |
| report `pkg/report` | entries | RecordExperiment, Build, Write | called by the goroutines of a parallel scenario without a lock | one entry per result; summary adds up |
| metrics `pkg/metrics` | counters, gauges under a mutex | IncCounter, SetGauge, Snapshot, Start, Shutdown | concurrent readers and writers | counters count |
| notify `pkg/notify` | none | Send | a goroutine per webhook nobody waits for | the last notifications are sent before the process ends |
| healthcheck `pkg/healthcheck` | none | RunAll, CompareResults | results matched by name, context done before the first probe | degraded + recovered + stable = all |
| logger, version | output level; build data | formatting | none | none |

Also in the repository and left aside: the CI workflow, the Dockerfile and the
build files, the example configurations and example reports.

## 2. Plan

Modules in the order they are written; each keeps its component's parameters as
CONSTANTS with named assumptions, one action per operation, and its theorems in
a module of their own.

| # | Module | Models | Abstract specification, composition | State |
|---|---|---|---|---|
| 1 | `Campaign` | what the engine promises | the abstract specification of 2 | done |
| 2 | `Engine`, `MCEngine` | `pkg/chaos/engine.go` | implements 1 | done |
| 3 | `EngineProofs`, `EngineResults` | | theorems about 2: who is at work, what is rolled back, the refinement of 1; what a RunAll returns | done |
| 4 | `Scheduler`, `MCScheduler`, `SchedulerProofs` | `pkg/scheduler/scheduler.go` | composes with 2 | done |
| 5 | `K8s`, `MCK8s`, `K8sProofs` | `pkg/k8s`, the policy checks of `pkg/safety` on its targets, a cluster other clients change too | | done |
| 6 | `Network`, `MCNetwork`, `NetworkProofs` | `pkg/network` with the kernel's qdisc and iptables state, commands killed half-way | | done |
| 7 | `Flood`, `MCFlood`, `FloodProofs` | the worker pool shared by http, grpc and mq: dispatcher, work channel, workers, deadline, ticker; the producer's connection | | done |
| 8 | `Stress`, `MCStress`, `StressProofs` | `pkg/stress`: the goroutines of the actions, the workers, tempFiles without a lock, the files on disk | | done |
| 9 | `Safety` | `config.Validate`; the policy, the estimates, the limits and the preflight of `pkg/safety`; the engine's cap, as operators | used by 11 | done |
| 10 | `Ledger` | main's callback and what it writes to: report entries (append is load, store), counters, notifications | part of 11 | done |
| 11 | `Lifecycle`, `MCLifecycle`, `LifecycleProofs` | `main.go`: every phase, signals, health checks and their comparison, the rollback's deadline, what is cut off at the end | composes 9, 10 and 1 | done |

## 3. What is modelled, and how

### Engine

State: `cfg`, `experiments`, `namedExperiments`, `callbacks` and `recorded` are
the fields of `Engine` (`results` is `recorded` here); `results` is the slice a
RunAll builds. `pc`, `pos`, `order`, `step`, `prevSuccess`, `allSucceeded` and
`scenarioSuccess` are the control point and the locals of RunAll, runScenarios
and RollbackAll, all of them of the one goroutine that calls the engine.
`task[s]` is the call of runScenarioStep for step `s`: executed by the caller in
a sequential scenario and by a goroutine of its own in a parallel one. Slot 0 is
the body of the loop over the plain list. `fired`, `returned` and `dirty` are
histories that only properties read.

Each action is one atomic piece of the code: what lies between two points where
another goroutine, the context or an experiment can interfere. `exp.Run` is two
steps, its call (`StartRun`) and its return (`RunSucceeds`, `RunFails`,
`ListRunReturns`); the check of the context and the call of Run are separate, so
a context that is done in between does not stop the Run, as in the code. Each
callback is a step of its own. `sort.Slice` is not stable: `BeginScenarios`
takes any permutation that is sorted. A task that is finished stores its result
under resultsMu (`StoreResult`) and only then is done for `wg.Wait`
(`JoinSteps`).

A result is abstracted to where it comes from, how it ended (`ok`, `fail`,
`dry`, `unknown`, `cancelled`; Success is the first and the third) and how many
Runs stand behind it. Names are model values; times, durations, error texts and
logging are left out. The condition `""` means `always` (engine.go:235-238) and
is represented by it. Retries below zero behave as zero (engine.go:285-289) and
are not represented. Registration ends before the first RunAll, as in `main.go`.

### Campaign

The abstract specification of the engine: Runs are cleared only while the
context lives and only inside a RunAll, RunAll returns when none is cleared or
running, a rollback undoes everything that was touched. The mapping reads
`cleared` and `running` off the tasks' control points, `touched` is `dirty`; a
rollback of an experiment that was not touched, a retry's bookkeeping, results
and callbacks are stuttering steps.

### Scheduler

Extends `Engine`: a round is one call of RunAll, so the engine's own steps
interleave with a cancellation while the scheduler waits for RunAll to return.
The select between rounds takes either case when both are ready. A cron
expression is abstracted to what it parses to: some times, no time at all, or an
error. The timer firing is an action that is always possible; waiting is what
the code does until then. An unknown mode and an expression that does not parse
are refused by `Validate` already (config.go:442-455); `Run` has its own answer to
them and is modelled with it.

### K8s

State: `killedPods` and `scaledDownDeps` are the fields of `ChaosK8s`; `exists`
and `replicas` are the cluster, which belongs to everyone; `pc`, `act`, `ns`,
`targets`, `origReplicas`, `target`, `pos` are the control point and the locals
of Run and Rollback. The three functions killPods, scaleDownDeployments and
deleteServices have one shape (list, exclude, select, then for each target check
the policy and call the API) and are one set of actions with the action of the
configuration as a parameter; where they differ (the record and the two calls of
scale_down, the name that delete_service leaves out) the guard says so.

Every call of the API is a step of its own, and other clients act between any
two: they scale (`OthersScale`) and remove (`OthersRemove`). A call that changes
something has two answers to give, whether it took effect (`done`) and whether
the caller heard so (`ok`); `ok => done`. `fresh` stands for the resource version
that GetScale returns and UpdateScale sends back: an update of a scale that was
changed meanwhile is refused. Lists and fetches fail at any time. selectRandom
is any subset of the right size; the places the policy permits are a set in the
configuration. Label selectors are applied by the cluster: what exists is what
matches them. Pods that controllers create again are left out, no property being
about them. Rollback runs once, after the last Run, as in `main.go`; `others`
and `runs` bound what the environment does.

`writer`, `original`, `affected` and `failed` are histories: who set the
replicas of a deployment last, what they were before, what this Run changed and
for what Rollback got an error.

### Network

State: `applied` is the field of `ChaosNetwork`, the commands on record that
undo something; `rules` is the kernel, external to the code, with one root qdisc
on the interface (a second one is refused) and any number of equal iptables
rules. A parameter of a command (delay, rate, interface) changes neither what it
adds nor what undoes it and is left out, so that a record is the rule it
removes. `act` and `cmd` are the place in Run's loop and within the one action
that has two commands, `dns_failure`; `final` tells main's rollback from the one
Run makes when the duration is over.

Every command is two steps, its start and its end, and the context may end in
between: a command of a done context is not started (`StartAdd`,
`UndoNotStarted`), one that runs is killed, and whether it took effect before is
open (`AddFails(TRUE)`, only of a killed one). A command that fails for reasons of
its own has no effect. An undo may fail or be killed as well, and the loop goes
on. `before` is what the kernel held before the first Run; `leaks` says what kind
of thing went wrong so far, in an addition, in a Run's own rollback or in
main's.

### Flood

httpflood, grpcflood and mqflood repeat one function: a dispatcher goroutine, a
channel with room for as many requests as there are workers, the workers, and a
wait for the workers only. `Flood` is that function once, with the kinds of
targets as guards: HTTP has no connection and may fail to build a request; the
others connect first and may fail to; an HTTP client has a timeout, a gRPC call
ends only with an answer or its context, and the calls of a message queue's client
have no limit that this code sets; of a RabbitMQ queue that cannot be declared the
connection stays open.

Requests have no content and workers no identity, so `work` counts the requests
in the channel and `crew` the workers at each stage; a worker's look at the
context (`Prepare`, `GiveUpWork`) and its sending (`Send`) are separate steps, as are
the two counters it increments. All state of a flood is indexed by its position
in the list of targets, for a dispatcher may outlive its flood. `Ended` is the
cancel that `flood` defers. Two calls of Run are related as two targets of one
call are, so one call is modelled. The rate is a tick that comes some time;
registered producers, of which main has none, and backend types that `Validate`
refuses are left out. `dropped` and `late` are histories.

### Stress

State: `tempFiles` is the field of `ChaosStress`, `files` the disk, external to the
code; `pc` and `next` are the place in Run, `reported` says whose errors are in
`errCh`. A thread `<<i, n>>` is the goroutine that action `i` of the list starts, or
its worker `n` if the action is disk_io; the goroutine that only waits for those
workers is the guard of `Report`. `stage` is a thread's place in its function. Each
append to tempFiles is two steps, the load of the slice and the store of the longer
one, with any other thread in between, which is what the unsynchronised code may
do; a slice is abstracted to the set of its names, as Rollback removes each of
them, in any order, and a name twice is no error (stress.go:126). The context is
done when the process is cancelled or the duration is over, and a thread looks at
it only where the code does. Creating, filling and removing a file may fail, and of a
write that fails the file may be there. Two actions `disk_io` share the names of
their workers' files, as in the code. How the CPU and the memory are kept busy is
left out: the functions hold them until the context is done. `lost` (names another
append overwrote) and `stuck` (files whose removal failed) are histories. A Run
that the policy denies half-way returns without waiting for what it started; the
policy treats all stress actions alike, so that this can only happen before the
first one is started (safety.go:247-255).

### Safety

Operators over a configuration, one for each function: `Validate`,
`PolicyCompiles` (NewPolicy), `DestructiveActionCount`, `EstimateTargets`,
`ValidateRun`, `Preflight`, and, for what happens after it, `ActionDenied` (the
three checks the modules call before each action), `ReportedActions` (what the
experiments tell the engine) and `EngineRefuses` (the engine's cap). A
configuration keeps what these read: lists that are only counted are their length,
names and addresses that must not be empty are sections that are `incomplete` or
not, name patterns compile or do not. What a pattern says of a resource's name is
left to `K8s`, where the permitted places are a set. The estimates are written out
from the two places in the code that count, so that whether they agree is a
question and no assumption.

### Ledger

main's callback, called by whichever goroutine has a result, as a sequence of
steps of its slot: the counter of all experiments, the one of successes or
failures, the append to the report's entries, the notification. `IncCounter` is one
step, being under a mutex; the append is a load and a store, having none. Of an
entry nothing but its being there matters, so `entries` and `loaded` are lengths.
`Send` puts a notification into `outbox`, for a goroutine to deliver or to fail with
(`Sent`); notifications of one kind are not told apart, so `outbox` and `heard` are
sets of kinds. `delivered` is a history. The gauge of the last duration is left
out.

### Lifecycle

The whole process, with `pc` the place in `main`. What the engine does in a round is
what `Campaign` promises of it: `ClearStep`, `StartStep`, `EndStep`, `EndRound`,
`BeginRollback`, `Undo` and `EndRollback` are the actions of `Campaign` with their
effects on the rest of the process added, and `Engine` is shown to implement
`Campaign` by the run `engine` and by `EngineProofs`; so what is found here rests
on nothing the engine does not do. `EndStep` reports a result, `FailStep` is an attempt
that is retried, or whose step is cancelled before its callbacks. A dry run skips
(`SkipStep`). The rounds are the scheduler's: `MoreRounds` is its limit, and a done
context may be taken between two rounds, in cron mode before the first as well.

`altered` is what the campaign has left changed in the world, by module: a Run that
is neither denied nor harmless may add its module, and a Rollback that succeeds
removes it. That a Rollback without an error has undone everything is a question to
`K8s`, `Network` and `Stress`, where the answer is not always yes. The order of the
rollback is left to `Engine`. `late` says that the rollback's context is done: at any
moment, and at once if the interval is none; then only the rollback of stress,
which looks at no context, can still do something.

Signals come at any time: one kills the process while there is no handler; then
`sigCh` holds one at most, the handler takes one in its life, and what comes after is
received by nobody. `Exit` ends everything, notifications that are still being sent
included. A failing registration is that of Kubernetes, whose client cannot be
made. `Ask` has the answer of the terminal, or none, as any answer. A health probe is
healthy or not, and not if its context is done. `refused` and `denied` are histories
of what the engine's cap and the policy said no to, `unable` of the Rollbacks that
failed with time left. The event of a scheduler error cannot be sent: with a
validated configuration Run returns no other error than the cancellation.

## 4. What TLC checks

| Run | Question |
|---|---|
| `engine` | Which steps run, and how often, under conditions, retries and prerequisites, with equal orders, disabled scenarios, shared names, cycles and names of no scenario? Fork, join, resultsMu and callbacks: is each result there once, reported once, nothing left running? Over several calls: do results accumulate, is a rollback complete, does the cap hold? Does the engine implement the campaign, and does every call return if the Runs do? |
| `scheduler` | Are rounds counted right in every mode, does Run return if the experiments do, and at rest? |
| `k8s` | Is every scale-down on record, nothing protected touched, the cap kept in each place; does a rollback do all it can, and restore everything after one Run with nobody else about? |
| `network` | Is what is on record there, what was injected on record, and does every call end, with commands killed half-way? |
| `flood` | Are requests neither lost nor counted twice, connections closed after their last use, few requests sent too late, and do all goroutines end that nobody keeps waiting for ever? |
| `stress` | Does no thread and no worker's file outlive its Run, is every file left on disk accounted for, and does every Run end? |
| `lifecycle` | Is nothing altered without permission and approval, under every combination of the switches? Is what the preflight let pass never refused later? Does the process, interrupted in whatever phase, come to its rollback, leave nothing but what could not be undone, and end if every Run does? Do the metrics and the report agree on what was reported? Is a completed campaign over when somebody hears of it? Is the health comparison right? |
| `lost_results`, `k8s_two_rounds`, `network_rollback`, `rollback_deadline`, `report_race` | Counterexamples to what a comment or the documentation says; see section 5. |

Bounds. Two experiments (one that reports destructive actions, one that does
not) and one name with no experiment: the engine treats experiments alike, so
two tell "this one" from "another one" and permit a duplicate registration. Up
to three steps make every combination of conditions before and after a skipped
step possible; three scenarios make a chain of prerequisites, a tie in the order
and two scenarios of one name. Two goroutines interleave in all ways that two
goroutines can; three calls make a rollback between two RunAlls. One or two
retries separate the step's own number from the scenario's. One callback is
enough to tell called from not called and, with `fired` a counter, from called
twice. Two scenarios of one step each, serial and parallel, are under a cap of one
destructive action, which is respected by one registration of the destructive experiment
and exceeded by two; the lists are under caps as well. The run `engine` takes the
configurations of all these questions at once, and its constraint `OneQuestion` keeps them from multiplying: callbacks are registered for
the goroutines of one RunAll only, several calls are made for the configurations about
them only, and for those one name and the experiments in one order are enough. `MaxCalls` bounds how often the engine is called and how often the
scheduler's timer fires; no property depends on reaching it, and a system that
has reached it stutters (`Finished`, `SchedFinished`) instead of deadlocking.

For `K8s`, two namespaces with two names each tell a limit per place from one per
Run and leave something to select from; two replicas tell the original count
from none and from a changed one; one change by another client is enough to come
between any two calls. Two Runs are the least that record a deployment twice.
`OneRunOfSeveral`, the constraint of the run `k8s`, keeps the two questions apart
that would multiply each other: with several places to act in there is one Run
and no other client, with one place there are two Runs and another client; it
only cuts states in which both are more than the least.
The histories make the state spaces larger than the program's own, and no bound
stops a Run half-way: `MaxRuns` limits how many begin.

For `Network`, one rule of each kind that was there before shows an undo that
removes too much; two actions are the least of which the first is on record
while the second fails, two Runs the least whose records mix. For `Flood`, two
workers and a channel of two hold four requests, so with five the dispatcher is
blocked while the workers are busy; one request leaves a worker without any; two
targets let a dispatcher outlive its flood. For `Stress`, two workers and a filled
disk are the three threads of which one can lose the name of another's file, and two
Runs meet what the first one left.

`MCLifecycle` has five families of configurations: malformed ones; all sixteen
settings of the policy's switches over what is destructive and what is not, dry or
not, and limits that are just kept and just exceeded; a parallel and a sequential
campaign with metrics, report and notifications; health checks over distinct and
shared names; endings, with and without time for the rollback, in every mode.
`MaxSteps` 3 gives one goroutine two results and the other one in between;
`MaxRounds` 2 is a limit reached and one not yet reached; of `MaxSignals` 2 the
second finds a handler that has returned. `OneQuestion` gives each family what its
question needs of steps, goroutines and signals; every family runs to its end.

Fairness. The caller's steps and each slot's steps are weakly fair: Go's
scheduler runs every runnable goroutine. Callbacks end: the report and the
counters do not block and notify starts a goroutine. A Rollback ends: its context
has a deadline, and stress only removes files. The return of `exp.Run` is not
fair in any module: a gRPC target without a duration waits for its answer as long
as the context lives (grpcflood.go:106-111, 154), and the clients of the message
queues are called without a timeout, with no context or one they do not look at
(amqp_producer.go:26, 70, kafka_producer.go:50, nats_producer.go:46). `CallsReturn`,
`CampaignEnds` and `ProcessEnds` therefore begin with the premise that Runs return (no
slot stays in a Run for ever), and what they claim is that nothing else keeps
anybody: no goroutine at the WaitGroup, no retry, no round too many, no signal
in a bad moment. Without the premise they are false. `Campaign` promises no end of
a Run either. Neither a cancellation nor a further call is assumed ever to happen.
In `Scheduler`, main calls Run and timers fire (weak fairness), and
`WaitCancelled` is strongly fair: a select whose cases are both ready picks one
at random, so a done context is not passed over for ever. In `Network` the steps of a Run and of a rollback are weakly
fair, a command among them: it ends, or is killed. That the duration is over is
not assumed, so that a cancelled Run must end without it. In `Flood` Run, each
dispatcher and each crew are weakly fair, ticks and deadlines come, and an
answer comes if it is to an HTTP request, whose client has a timeout, or to a gRPC
call whose context is done. Nothing is assumed of a producer's Connect, Publish and
Close. `RunEnds` says that Run ends unless such a call never does (`LeftToPeer`); of a
gRPC call it excuses only one whose context lives and has no duration, so it
depends on floodCtx being derived from the caller's. In `Stress` Run and each thread are weakly fair, and the duration,
which defaults to one when it is not positive (stress.go:48), is over some time. In
`Lifecycle` main's own steps, the handler's and each slot's are weakly fair, RunAll
returns when it waits for nothing (`CallsReturn` of `Engine`), and `EndRun` is strongly
fair for the reason `WaitCancelled` is. The end of a Run (`EndStep`, `FailStep`) is not
fair. No signal is assumed to come, and `ProcessEnds` speaks of campaigns that have
an end or are interrupted.

## 5. Where the code and what is said of it disagree

- `AllResultsCollected`: cancelling a plain list loses the results of the
  experiments that did run (engine.go:119-123). "Results returns all collected
  experiment results." (engine.go:368)
- `RestoresOriginal` over two Runs: the record is never cleared nor searched, so a
  retry or a second round records the zero replicas the first one left, and
  Rollback, in the order of the records, ends with them (k8s.go:258). "rollback
  restores original count" (README.md:118). After one Run with no other client
  the property holds and is checked (`RestoresAfterOneRun`, run `k8s`).
- `RemovesAllInjected`: when the duration ends and the context is done as well, the
  rollback of Run starts no command and drops the record (network.go:134), so
  main's has nothing left to do. "Full rollback support (removes all injected
  rules)" (README.md:168)
- `RollbackRestores`: the context of the rollback lasts as long as the interval
  between rounds (main.go:269), which `Validate` lets be zero; when it is over,
  the remaining Rollbacks can do nothing and nobody tries again. "Automatic
  rollback — restores scaled deployments, removes network rules, cleans temp files"
  (README.md:337). With time left only failing Rollbacks leave something
  (`GracefulExit`, run `lifecycle`).
- `ReportComplete`: two goroutines of a parallel scenario append to the report's
  entries without a lock (report.go:80), and a result is missing from the report.
  "a timestamped report with full details of every experiment" (report.go:2-3). The
  metrics have it, and a sequential campaign's report is complete (`LedgerAgrees`).

Also seen while modelling, and without a run of their own:

- a step that failed once and is cancelled before its retry returns before the
  callbacks (engine.go:293-303), so a Run that happened reaches neither metrics nor
  report, although "OnResult registers a callback that fires after each experiment"
  (engine.go:60). `CallbacksMatchResults` takes no side: it leaves open whether such a
  step is reported and is about all others;
- the cap on destructive actions counts one for each configured action and namespace
  (k8s.go:110-119, engine.go:101), while an action affects up to `max_targets`
  resources there, or all (k8s.go:186, 337), although the cap is described as
  "Maximum destructive operations (kills, scales, deletes) per run" (README.md:381).
  `DestructiveBudget` is about configured actions, the unit the engine compares and
  prints (engine.go:102);
- a cron expression that parses but never comes due runs rounds back to back
  (scheduler.go:107-117), for the next time is then the zero time;
- the appends to tempFiles race (stress.go:226, 266): a file whose name is lost stays
  on disk although "temp files are tracked and cleaned up on rollback" (README.md:181).
  `LeftoversExplained` names this and a failing removal as the only reasons;
- the notification of the completion is sent by a goroutine nobody waits for
  (notify.go:71), and may be cut off by the end of the process;
- a report format that is none of the three is noticed when the report is to be
  written, after the campaign (report.go:150);
- a signal during the health checks before the campaign makes the remaining ones
  fail, and the comparison then counts healthy endpoints as recovered (main.go:226,
  healthcheck.go:97);
- `stop_pod` is a documented action (config.go:75) that no code handles;
- the cap on destructive actions counts what is registered and not what is run,
  so a retry or a step named twice exceeds it even in its own unit (engine.go:101;
  README.md:381). While nothing is repeated it holds, and is checked and proved
  (`DestructiveBudget`);
- a Run that waits for a peer without a limit keeps the whole campaign: a gRPC
  target without a duration until a signal comes, a message queue's client even
  after it, and then main does not come to its rollback (grpcflood.go:154,
  amqp_producer.go:70, main.go:235);
- `max_experiments` counts rounds (scheduler.go:75, 124; config.go:243);
- the cap `max_targets` applies to each action in each namespace (k8s.go:186), not
  "per round" (config.go:77), and the preflight estimates one action in one
  namespace as one target, however many it touches (safety.go:141, 161-167);
- the count on record is that of the list and not of the scale fetched just
  before the update (k8s.go:261), so one that another client changed in between
  is restored to the older value;
- two of the actions that shape traffic cannot be combined, as README.md:629
  suggests for `latency` and `packet_loss`: each adds a root qdisc, and the second is
  refused (network.go:141-191). A retry then fails at the first one, which is
  still there;
- a RabbitMQ connection whose queue cannot be declared is not closed
  (amqp_producer.go:55, mqflood.go:73-76); `ConnectionHeld` names it as the
  exception.

## 6. What is proved

All theorems hold for every value of the constants that satisfies the
assumptions of the module they are about; for `Engine` that is any number of
experiments, names, scenarios, steps, callbacks and calls, and any configuration. The
assumptions are that the bounds are
natural numbers, that the nil of the name table is no experiment, that an
experiment reports a natural number of destructive actions and that a
configuration has no more scenarios and steps than the bounds say.

`EngineProofs` proves an inductive invariant, `IInv`, of the specification:

- `TypeOK`, with `RegistryOK` (what a name stands for is in the list of
  experiments) and `LoopOK` (the loop's indices are within the scenarios that
  were sorted and within the steps of the current one);
- `TasksOK`, the heart: which tasks may be in progress at which control point of
  the caller. `StructuredConcurrency` follows. It is not inductive alone: that a
  task's slot is a step of the current scenario needs `LoopOK`, and that the
  caller moves on only when its tasks have ended needs the link between `pc` and
  the state of each task;
- `DirtyOK`: everything Run since the last rollback is registered, and in a
  rollback everything still to be undone lies at or before the loop's index.
  That every name's experiment is registered is why a scenario cannot dirty what
  RollbackAll does not reach.

From it: `TypeCorrect`, `StructuredConcurrencyHolds`, `RollbackIsComplete`.
The same module proves that the initial states and every step of the engine
map to `Campaign` (`EngineImplementsCampaign`), one lemma per group of actions,
and from that `CancelStops`: a step of the campaign after the stop clears
nothing.

`EngineResults` is about what a RunAll returns. It adds five invariants to `IInv`, each
inductive on top of those before it:

- `AInv`: which of the two forms of RunAll the caller is in, and what `Results()` may
  be behind by, which is what a list that was cancelled half-way returned
  (`BehindOK`). `ResultsOnlyAccumulate` follows;
- `RInv`: what the attempt counter of a call may be at each point of it, from the
  look at the context to the result. `RetryDiscipline` speaks of results only and is
  not inductive: that a failure has used up its retries is decided two steps before
  the result is stored;
- `PInv`: results come from places the caller has been at, one from each
  (`PastOK`, `Distinct`), and the callbacks were made for those of them that have a
  result or are in progress (`FiredOK`). `CallbacksMatchResults` follows, which
  is about an engine at rest and says less of cancelled steps; the proof has to say
  which share of its callbacks each goroutine has made by now;
- `SInv`: the loop's variables (`scenarioSuccess`, `prevSuccess`, `allSucceeded`) say
  of the scenarios and steps behind what the results say of them. The three
  properties `PrerequisiteGate`, `OneResultEach` and `ConditionalSteps` are defined from
  the results alone; `SInv` is the link to what the code looks at;
- `BInv`: each result comes from a registration of its own, in the list or by name, and
  what was registered passed the cap before the first Run (`CapOK`). The destructive
  actions of the Runs (`ActionsRun`) and those registered are both sums; they are compared as the
  cardinalities of two sets of units, a unit being one action of one place, between
  which the proof gives an injection. `BudgetIsKept` follows for a RunAll that repeats
  nothing.

Each of these is proved of `SafeEngine`, the specification without its fairness, and so
is `PromisesAreKept`, which puts the properties of the results together: whoever drives
the engine may rely on them, and the scheduler does.

Last comes why a call ends. `Measure` is a triple of natural numbers: what is left of
the loop, of the stages of one iteration and of the calls in progress, the last one a
sum over the slots. Every step of a call lowers it in the lexicographic order
(`CallsGetShorter`), which has no endless descent (`NoEndlessDescent`), and as long as
the call has not ended somebody can move (`SomebodyCanMove`), for whoever is waited for
was started and has not ended. `CallerCan` and `SlotCan`, which say who can, are the
guards of the actions, the return of a Run among them. These are the parts of
`CallsReturn` that do not need fairness; that somebody who can move does, if Runs
return, is the step that stays with TLC.

Which scenarios passed is a recursive function of the results, `Passed`: a scenario
passed if all of it succeeded and the latest scenarios of the names it depends on
did. That such a function exists is proved from a greatest fixpoint (`GatesExist`),
that there is only one from least elements of sets of positions (`LeastOf`,
`GatesAgree`), neither with an induction theorem; `Unfolds` is its defining equation,
and `GatesStay` says that a further result changes it for no scenario behind.

`SchedulerProofs` assumes of its constants that the configurations are
well-formed. A step of the scheduler is a step of the engine or leaves the engine
alone (`SchedulerRunsEngine`), so all that is proved of the engine's safety holds in
every round. `SchedInv` adds how many rounds there were at each place of Run
(`RoundsOK`) and that the engine is at work in a round only (`AtRest`).
`RoundLimit` is about the returned Run and needs the strict bound at the place where
the next round is decided; `QuietAfterReturn` needs `AtRest` together with
`TasksOK`, for an idle caller has no tasks. Theorems: `RoundsAreCounted`,
`QuietBetweenRounds`. With `PromisesAreKept` and the measure of a call the same step
gives `RoundsKeepPromises` and `RoundsGetShorter`: in every round the results are right
and RunAll comes closer to its return. `CampaignsGetShorter` adds the rounds: when
their number has a limit, each step of the scheduler lowers `CampaignLeft` and no step
of the engine changes it.

`K8sProofs` assumes of the constants that the configurations and clusters are
well-formed, that the bounds are natural numbers, that the names of resources are
finitely many (so that those affected can be counted) and that no place is the empty
tuple, which stands for "no deployment". Its invariant has, besides the types,
`AtTargets` (the targets left in a place are not protected), `AtUpdate` (the
deployment about to be scaled is on record already, permitted and not excluded)
and `AtReupdate` (the one about to be restored is that of the current record).
`ScaleDownsRecorded` is not inductive alone: the update comes two calls after
the record, and only `AtUpdate` carries the one to the other;
`ProtectedUntouched` needs `AtTargets` from the list to the deletion. Theorems:
`RecordCoversScaleDowns` and `ProtectedIsUntouched`.

Three more invariants carry the remaining properties, together `ProgressInvariance`:

- `CapInv`: what was affected in a namespace by an action, and what the visit in
  progress may still affect, is at most `maxTargets` times the visits begun so far.
  At the end the visits are the product of how often the action and the namespace
  are in their lists, which gives `CapPerPlace`; the counting is of pairs of positions
  and uses the finite-set theorems of the library (`CapTimes` for the arithmetic);
- `BestInv`: what Rollback has been through is at the count of its last record so far
  (`CarriedOut`). `BestEffort` follows once the loop has passed the whole record. It
  holds because a record that comes later in the list comes later in the loop, and
  only it can set the deployment again;
- `AloneInv`: in one Run with no other client, what this experiment has not set is as
  it was, a record holds the original count, and a namespace that is about to be
  visited has not been set before (`SetWhereVisited`, from `OnceOnly`: what occurs once in
  a list is in one place). Without the premise of one visit each `RecordsTrue` is false,
  which is the counterexample of `k8s_two_rounds`. With `BestEffort` it gives
  `OneRunIsRestored`.

`NetworkProofs` assumes well-formed configurations and bounds that are natural
numbers. Its invariant adds to the two properties the places of Run and Rollback:
where Run executes a command its action has one (`AtCommand`), and where Rollback
does its index is within the record (`AtUndo`). The count of the records still to be undone is a cardinality; two
lemmas say how it changes when a record is appended and when the loop goes one
down, and each action needs one of them. Theorems: `UndoesOnlyItsOwn`,
`RecordsAreComplete`; from them `CleanUnlessLeaked`, what a rollback promises and when
it keeps it; and `CallsGetShorter`: `StepsLeft`, in which an action still to come
outweighs the undoing of the rules it may add, falls with every step of a Run or a
rollback, whatever the commands do.

`FloodProofs` assumes that a configuration is a list of targets of at most the
length of the bound. Its invariant `FloodOK(f)` speaks of one flood and has five
parts: whose turn it is and that no worker is lost (`StageOK`), the conservation of
requests (`ConservedAt`), why something ended (`EndOK`: a dispatcher because all was
put or the context was done, a worker because the channel is closed and empty or
the context was done), what may still be sent (`LateOK`) and whose connection is
open (`OpenOK`). `AllAnswered` follows from the first three together: workers of an
ended flood have returned; if the context lived, the channel was closed and
empty, all was put and nothing dropped, and conservation leaves only the
counters. `LateSendsBounded` is not inductive: of those that looked at the context
in time some have not sent yet, which `LateOK` counts. One lemma per action shows
that it preserves the invariant of its flood, and `OthersKeep` that it leaves the
other floods alone. Theorems: `NoRequestLost`, `FloodsComplete`, `FewLateSends`,
`ConnectionsAreHeld`. Two more say why a flood ends: `NobodyWaitsForEver` (a full channel
has a worker to take from it, an empty one a dispatcher to put into it or to close it,
and the dispatcher of a flood whose workers have left may give up), and
`FloodsGetShorter`: `FloodLeft(f)` counts the requests still to come with the steps each
may go through, falls with every step of the goroutines of flood f and is left alone by
all others.

Each of these modules proves its `TypeOK` as well, as the theorem `TypeCorrect`.

`StressProofs` assumes that the configurations are lists of at most `MaxActions` actions
and that the bounds are natural numbers. Its invariant says who may be at work
(`ThreadsOK`: threads of actions that Run has started, with the stages of their kind;
`RunOK`: none outside a Run, all done for an action that has reported) and of which
files (`FilesOK`): a file of disk_io has a worker that will still remove it or a removal
that failed, and a thread that may write its file has put its name on record, where it
is or was overwritten. `LeftoversExplained` needs that last part, as the name is
recorded steps before the file is there; `QuietAfterRun` needs both others. Theorems:
`RunsEndQuiet`, `LeftoversAreKnown`. With `StartedOK` (the
threads of every action Run has come to were started) `NoRunIsStuck` follows: while
Run waits an action may report, a thread may go on, or the context is not done yet.
`ThreadsComeToAnEnd` bounds the steps a thread has left once the context is done; before
that disk_io writes on, as it should.

`LifecycleProofs` assumes that what the process may be started with are
configurations, that the bounds are natural numbers and the slots finitely many.
Its first part is about the operators of `Safety`, for every configuration: the
experiments together report to the engine what the preflight counted
(`CountsAgree`, so `NotRefused`); in a validated configuration a module that may
alter something has an action that counts (`DestructiveCounts`, where the product of
actions and namespaces must not be zero), so that a passed preflight and an action
that is not denied mean permission and approval (`ActionApproved`), although each of
the two checks can be switched off alone; and with `fail_closed` nothing is denied
after the preflight (`NoneDenied`). Its invariant `LInv` says:

- `AdmittedOK`: past the preflight, some answer about the tools made it pass;
- `PhaseOK`: what may be in progress where main is: a Run or a callback only
  inside a round, a rollback only at its place, signals handled from the campaign
  on;
- `HarmOK`: what is altered belongs to a module with its Rollback still before it,
  or to one whose Rollback failed or came too late;
- `EndOK`, `AnnouncedOK`: main returns by itself only at its end, and announces the
  completion only after the campaign.

`GracefulExit` is not inductive alone: that nothing is left altered at the exit
needs `HarmOK` through the campaign and the rollback, and that nothing is in
progress needs `PhaseOK`. Nor is `NothingUnapproved`, whose step, the start of a Run,
needs what the preflight decided four positions of main before. Theorems:
`NothingIsUnapproved`, `PreflightIsFinal`, `ExitIsGraceful`, `CompletionIsFinal`.

The second part counts: what was delivered to the callback is what is counted, plus the
slots whose callback has not come that far (`CountersOK`), and with one step at a time
the same holds of the entries (`EntriesOK`). The latter needs that at most one slot
is active (`SoloOK`), so that nothing comes between the load of an append and its
store; it is what a parallel scenario lacks. The lemmas `PendingRises`, `PendingFalls`
and `PendingStays` say how the number of pending slots, a cardinality, changes when
one slot moves. After the campaign every slot is free (`LInv`) and none is pending:
`BooksAgree`.

The third part is about the health checks: each endpoint is of one of the classes
the comparison distinguishes, so that the three counts, cardinalities of disjoint sets,
add up to the endpoints (`ComparisonIsRight`); and that the second check is compared with
the first one, with a place in main for each, is `HealthOK`. Then come the types
(`LifecycleTyped`), in four groups of variables, and last `ProcessIsCampaign`: what the
process does to the engine's state is a step of `Campaign` or none. With
`EngineImplementsCampaign` this makes `Campaign` the interface of the two: both stay within
it. That within a round `Lifecycle` leaves out nothing `Campaign` allows can be read off
its actions, and is not a theorem.

The fourth part is why the process ends. `ProcessIsNeverStuck`: until it has ended, main,
the scheduler or a goroutine can move, unless a campaign without an end waits for a
signal; the guards (`MainCan` and the others) are those of the actions. `ProcessGetsOn`:
every step of main lowers `MainLeft`, its rank in the order of the phases together with
the Rollbacks still to make, and no signal, deadline or goroutine raises it; in a round
each step begun is one less to begin, and each slot's share, its Run and its callback,
falls with every step of its goroutine. How many steps a RunAll has is a bound of this
module (`MaxSteps`); that it has finitely many is what `EngineResults` proves.

Only model-checked:

- everything under fairness (`CallsReturn`, `CampaignEnds`, `CallsEnd`, `DispatchersEnd`,
  `ProcessEnds`, `RunEnds` of `Flood` and of `Stress`), which is out of the prover's
  reach. What they rest on is proved: for `Engine`, `Scheduler`, `Flood` and `Lifecycle` that
  somebody can move and that every step leaves less to do, for `Network` the latter, for
  `Stress` the former and that the threads come to an end once the context is done. The
  step from these to "it ends", by fairness, is TLC's. `ImplementsCampaign` names the
  whole `Spec` of `Campaign`, its fairness included; its safety part is
  `EngineImplementsCampaign`;
- the counterexamples of the five runs that have one.

Every invariant and every action property that a passing run checks is a theorem.

## 7. Not modelled

- the logger and the version string, which hold no state a property is about; the
  engine logs through a logger that is assumed not to block;
- decoding the configuration file over its defaults, the flags and the banner;
- rendering reports, metrics and webhook payloads, and the HTTP server of the
  metrics beyond its being up: formatting and I/O;
- two Runs of the one Kubernetes or network module side by side, which a parallel
  scenario can ask for: the records of `K8s` and `Network` are those of one Run at a
  time. `Ledger` and `Stress` show what an unsynchronised append does;
- a panic in an experiment, which ends the process, and a process killed by other
  signals: nothing is persisted, so there is no recovery to model;
- CI, Docker and example files.
