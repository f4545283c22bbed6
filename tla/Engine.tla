------------------------------- MODULE Engine -------------------------------
(***************************************************************************)
(* The experiment engine of pkg/chaos/engine.go: registration, RunAll in   *)
(* its two forms (the plain list and the scenarios with ordering,          *)
(* prerequisites, conditions, retries and parallel groups), the result     *)
(* callbacks, cancellation of the context and RollbackAll.                 *)
(*                                                                         *)
(* One goroutine, the caller, runs RunAll and RollbackAll; its position is *)
(* pc.  A call of runScenarioStep is a task: the caller performs it itself *)
(* in a sequential scenario, a goroutine of its own does in a parallel     *)
(* one.  Slot 0 is the body of the loop over the plain list.  A call of    *)
(* exp.Run is two steps, so that Runs overlap and the context may be       *)
(* cancelled while one is in flight.                                       *)
(*                                                                         *)
(* main.go registers everything before the first RunAll, so the snapshots  *)
(* RunAll and RollbackAll take of the registrations are the registrations. *)
(***************************************************************************)
EXTENDS Naturals, Sequences, FiniteSets
Sums   == INSTANCE Functions
SeqExt == INSTANCE SequencesExt

CONSTANTS
  Exps,                   \* experiments: the modules that can be registered
  Ids,                    \* stable names a scenario step may use
  NoExp,                  \* the nil of namedExperiments
  Names,                  \* scenario names
  Configs,                \* configurations the engine may be started with
  DestructiveActionCount, \* what each experiment reports, 0 if it reports none
  MaxSteps,               \* bound: steps of a scenario
  MaxScenarios,           \* bound: scenarios of a configuration
  MaxRegistrations,       \* bound: registered experiments
  MaxCallbacks,           \* bound: registered callbacks
  MaxCalls                \* bound: calls of RunAll and RollbackAll

Conditions == {"always", "on_success", "on_failure"}

Step == [name : Ids, condition : Conditions, retries : Nat]

Scenario == [name : Names, enabled : BOOLEAN, order : Nat, parallel : BOOLEAN,
             prerequisites : SUBSET Names, retries : Nat, steps : Seq(Step)]

Config == [dryRun : BOOLEAN, safety : BOOLEAN, maxDestructive : Nat,
           scenarios : Seq(Scenario)]

ASSUME BoundsAssumption ==
  /\ MaxSteps \in Nat /\ MaxScenarios \in Nat /\ MaxRegistrations \in Nat
  /\ MaxCallbacks \in Nat /\ MaxCalls \in Nat

ASSUME ExpsAssumption ==
  /\ NoExp \notin Exps
  /\ DestructiveActionCount \in [Exps -> Nat]

ASSUME ConfigsAssumption ==
  \A c \in Configs :
     /\ c \in Config
     /\ Len(c.scenarios) <= MaxScenarios
     /\ \A i \in DOMAIN c.scenarios : Len(c.scenarios[i].steps) <= MaxSteps

VARIABLES
  cfg,              \* Engine.cfg
  experiments,      \* Engine.experiments
  namedExperiments, \* Engine.namedExperiments
  callbacks,        \* number of functions in Engine.callbacks
  recorded,         \* Engine.results
  cancelled,        \* the context is done
  pc,               \* where the caller is
  calls,            \* calls of RunAll and RollbackAll so far
  pos,              \* loop index: list, scenarios (after sorting) or rollback
  order,            \* the permutation sort.Slice made of the scenarios
  step,             \* loop index over the steps of a sequential scenario
  prevSuccess,      \* runScenarios' local of that name
  allSucceeded,     \* runScenarios' local of that name
  scenarioSuccess,  \* runScenarios' local of that name
  results,          \* the slice RunAll is building, or last returned
  task,             \* the calls of runScenarioStep, and the list's body
  fired,            \* history: callback calls made for each place's result
  returned,         \* history: everything RunAll has returned so far
  dirty             \* history: experiments Run since their last Rollback

registry == <<cfg, experiments, namedExperiments, callbacks>>
loop     == <<pos, order, step, prevSuccess, allSucceeded, scenarioSuccess>>
ledger   == <<results, recorded, fired, returned>>
vars     == <<registry, cancelled, pc, calls, loop, ledger, task, dirty>>

-----------------------------------------------------------------------------
(* Results: where a result comes from (<<0, i>> for entry i of the list,   *)
(* <<k, s>> for step s of the k-th configured scenario), how it ended and  *)
(* how many calls of exp.Run returned for it.                              *)

Slots  == 0 .. MaxSteps
Places == (0 .. MaxScenarios) \X (1 .. MaxSteps + MaxRegistrations)

Outcomes  == {"ok", "fail", "dry", "unknown", "cancelled"}
Succeeded == {"ok", "dry"}            \* ExperimentResult.Success
Reported  == {"ok", "fail", "dry"}    \* the outcomes the callbacks are given

Result == [at : Places, out : Outcomes, ran : Nat]

TaskPC == {"none", "lookup", "check", "call", "running", "notify", "return", "done"}
Task   == [pc : TaskPC, attempt : Nat \ {0}, out : Outcomes, cb : Nat]
NoTask == [pc |-> "none", attempt |-> 1, out |-> "fail", cb |-> 0]

Scenarios  == cfg.scenarios
Sc         == Scenarios[order[pos]]              \* scenario being executed
StepOf(s)  == Sc.steps[s]
ExpOf(s)   == IF s = 0 THEN experiments[pos] ELSE namedExperiments[StepOf(s).name]
Place(s)   == IF s = 0 THEN <<0, pos>> ELSE <<order[pos], s>>

\* mistake: the scenario's retries override the step's
AttemptsScenarioFirst(sc, st) == 1 + (IF sc.retries > 0 THEN sc.retries ELSE st.retries)

\* step.Retries, or the scenario's, plus one
Attempts(sc, st) == 1 + (IF st.retries > 0 THEN st.retries ELSE sc.retries)

ResultAt(s, t, out) ==
  [at  |-> Place(s), out |-> out,
   ran |-> IF out \in {"ok", "fail"} THEN t.attempt ELSE t.attempt - 1]

Destructive ==
  Sums!SumFunction([i \in DOMAIN experiments |-> DestructiveActionCount[experiments[i]]])

\* mistake: one action too many is let through
CapOffByOne ==
  /\ cfg.safety /\ ~cfg.dryRun /\ cfg.maxDestructive > 0
  /\ Destructive > cfg.maxDestructive + 1

CapExceeded ==
  /\ cfg.safety /\ ~cfg.dryRun /\ cfg.maxDestructive > 0
  /\ Destructive > cfg.maxDestructive

\* the orders sort.Slice may leave: it is not stable, equal keys in any order
SortedOrders ==
  LET N == DOMAIN Scenarios
  IN  {p \in [N -> N] : /\ \A i, j \in N : p[i] = p[j] => i = j
                        /\ \A i, j \in N : i < j =>
                             Scenarios[p[i]].order <= Scenarios[p[j]].order}

PrerequisitesMet == \A p \in Sc.prerequisites : scenarioSuccess[p]

ConditionMet(st) ==
  CASE st.condition = "on_success" -> prevSuccess
    [] st.condition = "on_failure" -> ~prevSuccess
    [] OTHER                       -> TRUE

-----------------------------------------------------------------------------
Init ==
  /\ cfg \in Configs
  /\ experiments = <<>>
  /\ namedExperiments = [i \in Ids |-> NoExp]
  /\ callbacks = 0
  /\ recorded = <<>>
  /\ cancelled = FALSE
  /\ pc = "idle"
  /\ calls = 0
  /\ pos = 0
  /\ order = <<>>
  /\ step = 0
  /\ prevSuccess = TRUE
  /\ allSucceeded = TRUE
  /\ scenarioSuccess = [n \in Names |-> FALSE]
  /\ results = <<>>
  /\ task = [s \in Slots |-> NoTask]
  /\ fired = [p \in Places |-> 0]
  /\ returned = <<>>
  /\ dirty = {}

(* Registration: main.go does all of it before the first RunAll. *)

Register(e) ==
  /\ pc = "idle" /\ calls = 0 /\ Len(experiments) < MaxRegistrations
  /\ experiments' = Append(experiments, e)
  /\ UNCHANGED <<cfg, namedExperiments, callbacks, cancelled, pc, calls, loop,
                 ledger, task, dirty>>

\* mistake: a name that is taken keeps the list as it is
RegisterNamedOnce(id, e) ==
  /\ pc = "idle" /\ calls = 0 /\ Len(experiments) < MaxRegistrations
  /\ namedExperiments' = [namedExperiments EXCEPT ![id] = e]
  /\ experiments' = IF namedExperiments[id] = NoExp THEN Append(experiments, e) ELSE experiments
  /\ UNCHANGED <<cfg, callbacks, cancelled, pc, calls, loop, ledger, task, dirty>>

RegisterNamed(id, e) ==
  /\ pc = "idle" /\ calls = 0 /\ Len(experiments) < MaxRegistrations
  /\ namedExperiments' = [namedExperiments EXCEPT ![id] = e]
  /\ experiments' = Append(experiments, e)
  /\ UNCHANGED <<cfg, callbacks, cancelled, pc, calls, loop, ledger, task, dirty>>

OnResult ==
  /\ pc = "idle" /\ calls = 0 /\ callbacks < MaxCallbacks
  /\ callbacks' = callbacks + 1
  /\ UNCHANGED <<cfg, experiments, namedExperiments, cancelled, pc, calls, loop,
                 ledger, task, dirty>>

(* The signal handler of main.go, from a goroutine of its own. *)
Cancel ==
  /\ ~cancelled
  /\ cancelled' = TRUE
  /\ UNCHANGED <<registry, pc, calls, loop, ledger, task, dirty>>

-----------------------------------------------------------------------------
(* RunAll: entry. *)

EnterRunAll ==
  /\ pc = "idle" /\ calls < MaxCalls
  /\ calls' = calls + 1
  /\ results' = <<>>
  /\ fired' = [p \in Places |-> 0]
  /\ UNCHANGED <<registry, cancelled, recorded, returned, task, dirty,
                 step, prevSuccess, allSucceeded>>

RefuseRun ==
  /\ EnterRunAll
  /\ CapExceeded
  /\ UNCHANGED <<pc, pos, order, scenarioSuccess>>

BeginList ==
  /\ EnterRunAll
  /\ ~CapExceeded
  /\ Scenarios = <<>>
  /\ pc' = "list"
  /\ pos' = 1
  /\ UNCHANGED <<order, scenarioSuccess>>

BeginScenarios ==
  /\ EnterRunAll
  /\ ~CapExceeded
  /\ Scenarios # <<>>
  /\ order' \in SortedOrders
  /\ pc' = "scenario"
  /\ pos' = 1
  /\ scenarioSuccess' = [n \in Names |-> FALSE]

(* RunAll: the loop over the plain list. *)

\* context done at the head of an iteration: return without recording
ListCancelled ==
  /\ pc = "list" /\ pos <= Len(experiments) /\ cancelled
  /\ pc' = "idle"
  /\ returned' = returned \o results
  /\ UNCHANGED <<registry, cancelled, calls, loop, results, recorded, fired, task, dirty>>

ListDryRun ==
  /\ pc = "list" /\ pos <= Len(experiments) /\ ~cancelled /\ cfg.dryRun
  /\ pc' = "exec"
  /\ results' = Append(results, ResultAt(0, task[0], "dry"))
  /\ task' = [task EXCEPT ![0] = [NoTask EXCEPT !.pc = "notify", !.out = "dry"]]
  /\ UNCHANGED <<registry, cancelled, calls, loop, recorded, fired, returned, dirty>>

ListRun ==
  /\ pc = "list" /\ pos <= Len(experiments) /\ ~cancelled /\ ~cfg.dryRun
  /\ pc' = "exec"
  /\ task' = [task EXCEPT ![0] = [NoTask EXCEPT !.pc = "call"]]
  /\ UNCHANGED <<registry, cancelled, calls, loop, ledger, dirty>>

ListRunReturns(out) ==
  /\ task[0].pc = "running"
  /\ results' = Append(results, ResultAt(0, task[0], out))
  /\ task' = [task EXCEPT ![0] = [@ EXCEPT !.pc = "notify", !.out = out]]
  /\ UNCHANGED <<registry, cancelled, pc, calls, loop, recorded, fired, returned, dirty>>

ListNext ==
  /\ pc = "exec" /\ task[0].pc = "notify" /\ task[0].cb = callbacks
  /\ pc' = "list"
  /\ pos' = pos + 1
  /\ task' = [task EXCEPT ![0] = NoTask]
  /\ UNCHANGED <<registry, cancelled, calls, order, step, prevSuccess, allSucceeded,
                 scenarioSuccess, ledger, dirty>>

\* mistake: this round's results replace the earlier ones
ListEndOverwrites ==
  /\ pc = "list" /\ pos > Len(experiments)
  /\ pc' = "idle"
  /\ recorded' = results
  /\ returned' = returned \o results
  /\ UNCHANGED <<registry, cancelled, calls, loop, results, fired, task, dirty>>

ListEnd ==
  /\ pc = "list" /\ pos > Len(experiments)
  /\ pc' = "idle"
  /\ recorded' = recorded \o results
  /\ returned' = returned \o results
  /\ UNCHANGED <<registry, cancelled, calls, loop, results, fired, task, dirty>>

-----------------------------------------------------------------------------
(* runScenarios: the loop over the sorted scenarios. *)

ScenarioDisabled ==
  /\ pc = "scenario" /\ pos <= Len(Scenarios) /\ ~Sc.enabled
  /\ pos' = pos + 1
  /\ UNCHANGED <<registry, cancelled, pc, calls, order, step, prevSuccess, allSucceeded,
                 scenarioSuccess, ledger, task, dirty>>

\* mistake: a skipped scenario leaves its name's earlier success standing
ScenarioSkippedSilently ==
  /\ pc = "scenario" /\ pos <= Len(Scenarios) /\ Sc.enabled /\ ~PrerequisitesMet
  /\ pos' = pos + 1
  /\ UNCHANGED <<registry, cancelled, pc, calls, order, step, prevSuccess, allSucceeded,
                 scenarioSuccess, ledger, task, dirty>>

ScenarioSkipped ==
  /\ pc = "scenario" /\ pos <= Len(Scenarios) /\ Sc.enabled /\ ~PrerequisitesMet
  /\ scenarioSuccess' = [scenarioSuccess EXCEPT ![Sc.name] = FALSE]
  /\ pos' = pos + 1
  /\ UNCHANGED <<registry, cancelled, pc, calls, order, step, prevSuccess, allSucceeded,
                 ledger, task, dirty>>

\* one goroutine per step; the conditions are not looked at
ForkSteps ==
  /\ pc = "scenario" /\ pos <= Len(Scenarios) /\ Sc.enabled /\ PrerequisitesMet
  /\ Sc.parallel
  /\ pc' = "wait"
  /\ allSucceeded' = TRUE
  /\ task' = [s \in Slots |-> IF s \in DOMAIN Sc.steps
                              THEN [NoTask EXCEPT !.pc = "lookup"] ELSE NoTask]
  /\ UNCHANGED <<registry, cancelled, calls, pos, order, step, prevSuccess,
                 scenarioSuccess, ledger, dirty>>

BeginSteps ==
  /\ pc = "scenario" /\ pos <= Len(Scenarios) /\ Sc.enabled /\ PrerequisitesMet
  /\ ~Sc.parallel
  /\ pc' = "steps"
  /\ allSucceeded' = TRUE
  /\ prevSuccess' = TRUE
  /\ step' = 1
  /\ UNCHANGED <<registry, cancelled, calls, pos, order, scenarioSuccess, ledger,
                 task, dirty>>

\* mistake: a step that is skipped counts as a success
StepSkippedAsSuccess ==
  /\ pc = "steps" /\ step <= Len(Sc.steps) /\ ~ConditionMet(StepOf(step))
  /\ step' = step + 1
  /\ prevSuccess' = TRUE
  /\ UNCHANGED <<registry, cancelled, pc, calls, pos, order, allSucceeded,
                 scenarioSuccess, ledger, task, dirty>>

StepSkipped ==
  /\ pc = "steps" /\ step <= Len(Sc.steps) /\ ~ConditionMet(StepOf(step))
  /\ step' = step + 1
  /\ UNCHANGED <<registry, cancelled, pc, calls, pos, order, prevSuccess, allSucceeded,
                 scenarioSuccess, ledger, task, dirty>>

CallStep ==
  /\ pc = "steps" /\ step <= Len(Sc.steps) /\ ConditionMet(StepOf(step))
  /\ pc' = "step"
  /\ task' = [task EXCEPT ![step] = [NoTask EXCEPT !.pc = "lookup"]]
  /\ UNCHANGED <<registry, cancelled, calls, loop, ledger, dirty>>

StepReturns ==
  /\ pc = "step" /\ task[step].pc = "return"
  /\ LET ok == task[step].out \in Succeeded
     IN  /\ prevSuccess' = ok
         /\ allSucceeded' = (allSucceeded /\ ok)
  /\ results' = Append(results, ResultAt(step, task[step], task[step].out))
  /\ task' = [task EXCEPT ![step] = NoTask]
  /\ step' = step + 1
  /\ pc' = "steps"
  /\ UNCHANGED <<registry, cancelled, calls, pos, order, scenarioSuccess, recorded,
                 fired, returned, dirty>>

CloseScenario ==
  /\ scenarioSuccess' = [scenarioSuccess EXCEPT ![Sc.name] = allSucceeded]
  /\ pos' = pos + 1
  /\ pc' = "scenario"
  /\ UNCHANGED <<registry, cancelled, calls, order, step, prevSuccess, allSucceeded,
                 ledger, dirty>>

StepsEnd ==
  /\ pc = "steps" /\ step > Len(Sc.steps)
  /\ CloseScenario
  /\ UNCHANGED task

\* mistake: the goroutine of a cancelled step returns without wg.Done
StoreResultUnlessCancelled(s) ==
  /\ pc = "wait" /\ task[s].pc = "return" /\ task[s].out # "cancelled"
  /\ results' = Append(results, ResultAt(s, task[s], task[s].out))
  /\ allSucceeded' = (allSucceeded /\ task[s].out \in Succeeded)
  /\ task' = [task EXCEPT ![s] = [@ EXCEPT !.pc = "done"]]
  /\ UNCHANGED <<registry, cancelled, pc, calls, pos, order, step, prevSuccess,
                 scenarioSuccess, recorded, fired, returned, dirty>>

\* a parallel step's goroutine takes resultsMu, stores its result and is done
StoreResult(s) ==
  /\ pc = "wait" /\ task[s].pc = "return"
  /\ results' = Append(results, ResultAt(s, task[s], task[s].out))
  /\ allSucceeded' = (allSucceeded /\ task[s].out \in Succeeded)
  /\ task' = [task EXCEPT ![s] = [@ EXCEPT !.pc = "done"]]
  /\ UNCHANGED <<registry, cancelled, pc, calls, pos, order, step, prevSuccess,
                 scenarioSuccess, recorded, fired, returned, dirty>>

\* mistakes: the scenario is closed without waiting for its goroutines, or
\* when they have their results but have not all stored them
JoinWithoutWait ==
  /\ pc = "wait"
  /\ CloseScenario
  /\ UNCHANGED task

JoinBeforeStore ==
  /\ pc = "wait" /\ \A s \in DOMAIN Sc.steps : task[s].pc \in {"return", "done"}
  /\ CloseScenario
  /\ task' = [s \in Slots |-> NoTask]

\* wg.Wait
JoinSteps ==
  /\ pc = "wait" /\ \A s \in DOMAIN Sc.steps : task[s].pc = "done"
  /\ CloseScenario
  /\ task' = [s \in Slots |-> NoTask]

ScenariosEnd ==
  /\ pc = "scenario" /\ pos > Len(Scenarios)
  /\ pc' = "idle"
  /\ recorded' = recorded \o results
  /\ returned' = returned \o results
  /\ UNCHANGED <<registry, cancelled, calls, loop, results, fired, task, dirty>>

-----------------------------------------------------------------------------
(* runScenarioStep, for the task in slot s.  Result takes the task to a    *)
(* result and to the callbacks ("notify") or past them ("return").         *)

TaskStep(s, t) ==
  /\ task' = [task EXCEPT ![s] = t]
  /\ UNCHANGED <<registry, cancelled, pc, calls, loop, ledger>>

\* mistake: an unknown experiment is reported to the callbacks too
LookupReporting(s) ==
  /\ task[s].pc = "lookup"
  /\ TaskStep(s, IF namedExperiments[StepOf(s).name] = NoExp
                 THEN [task[s] EXCEPT !.pc = "notify", !.out = "unknown"]
                 ELSE [task[s] EXCEPT !.pc = "check"])
  /\ UNCHANGED dirty

Lookup(s) ==
  /\ task[s].pc = "lookup"
  /\ TaskStep(s, IF namedExperiments[StepOf(s).name] = NoExp
                 THEN [task[s] EXCEPT !.pc = "return", !.out = "unknown"]
                 ELSE [task[s] EXCEPT !.pc = "check"])
  /\ UNCHANGED dirty

\* mistake: the context is looked at before the first attempt only
CheckContextOnce(s) ==
  /\ task[s].pc = "check"
  /\ \/ /\ cancelled /\ task[s].attempt = 1
        /\ TaskStep(s, [task[s] EXCEPT !.pc = "return", !.out = "cancelled"])
     \/ /\ ~cancelled /\ cfg.dryRun
        /\ TaskStep(s, [task[s] EXCEPT !.pc = "notify", !.out = "dry"])
     \/ /\ ~cancelled \/ task[s].attempt > 1
        /\ ~cfg.dryRun
        /\ TaskStep(s, [task[s] EXCEPT !.pc = "call"])
  /\ UNCHANGED dirty

\* the head of the attempt loop
CheckContext(s) ==
  /\ task[s].pc = "check"
  /\ \/ /\ cancelled
        /\ TaskStep(s, [task[s] EXCEPT !.pc = "return", !.out = "cancelled"])
     \/ /\ ~cancelled /\ cfg.dryRun
        /\ TaskStep(s, [task[s] EXCEPT !.pc = "notify", !.out = "dry"])
     \/ /\ ~cancelled /\ ~cfg.dryRun
        /\ TaskStep(s, [task[s] EXCEPT !.pc = "call"])
  /\ UNCHANGED dirty

\* exp.Run is entered, here and in the list; the context is not read again
StartRun(s) ==
  /\ task[s].pc = "call"
  /\ TaskStep(s, [task[s] EXCEPT !.pc = "running"])
  /\ dirty' = dirty \cup {ExpOf(s)}

RunSucceeds(s) ==
  /\ s # 0 /\ task[s].pc = "running"
  /\ TaskStep(s, [task[s] EXCEPT !.pc = "notify", !.out = "ok"])
  /\ UNCHANGED dirty

RunFails(s) ==
  /\ s # 0 /\ task[s].pc = "running"
  /\ TaskStep(s, IF task[s].attempt < Attempts(Sc, StepOf(s))
                 THEN [task[s] EXCEPT !.pc = "check", !.attempt = @ + 1]
                 ELSE [task[s] EXCEPT !.pc = "notify", !.out = "fail"])
  /\ UNCHANGED dirty

\* one call cb(result)
Notify(s) ==
  /\ task[s].pc = "notify" /\ task[s].cb < callbacks
  /\ fired' = [fired EXCEPT ![Place(s)] = @ + 1]
  /\ task' = [task EXCEPT ![s] = [task[s] EXCEPT !.cb = @ + 1]]
  /\ UNCHANGED <<registry, cancelled, pc, calls, loop, results, recorded, returned, dirty>>

Notified(s) ==
  /\ s # 0 /\ task[s].pc = "notify" /\ task[s].cb = callbacks
  /\ TaskStep(s, [task[s] EXCEPT !.pc = "return"])
  /\ UNCHANGED dirty

-----------------------------------------------------------------------------
(* RollbackAll: in reverse order, whatever each Rollback returns. *)

\* mistake: the loop starts one experiment too low
BeginRollbackLow ==
  /\ pc = "idle" /\ calls < MaxCalls
  /\ calls' = calls + 1
  /\ pc' = "rollback"
  /\ pos' = Len(experiments) - 1
  /\ UNCHANGED <<registry, cancelled, order, step, prevSuccess, allSucceeded,
                 scenarioSuccess, ledger, task, dirty>>

BeginRollback ==
  /\ pc = "idle" /\ calls < MaxCalls
  /\ calls' = calls + 1
  /\ pc' = "rollback"
  /\ pos' = Len(experiments)
  /\ UNCHANGED <<registry, cancelled, order, step, prevSuccess, allSucceeded,
                 scenarioSuccess, ledger, task, dirty>>

\* a Rollback that fails is logged, and the loop goes on
RollbackOne ==
  /\ pc = "rollback" /\ pos > 0
  /\ dirty' = dirty \ {experiments[pos]}
  /\ pos' = pos - 1
  /\ UNCHANGED <<registry, cancelled, pc, calls, order, step, prevSuccess, allSucceeded,
                 scenarioSuccess, ledger, task>>

EndRollback ==
  /\ pc = "rollback" /\ pos = 0
  /\ pc' = "idle"
  /\ UNCHANGED <<registry, cancelled, calls, loop, ledger, task, dirty>>

-----------------------------------------------------------------------------
Setup == \/ \E e \in Exps : Register(e)
         \/ \E id \in Ids, e \in Exps : RegisterNamed(id, e)
         \/ OnResult

Begin == RefuseRun \/ BeginList \/ BeginScenarios \/ BeginRollback

\* what the caller's goroutine does inside RunAll and RollbackAll
CallerStep ==
  \/ ListCancelled \/ ListDryRun \/ ListRun \/ ListNext \/ ListEnd
  \/ ScenarioDisabled \/ ScenarioSkipped \/ ForkSteps \/ BeginSteps
  \/ StepSkipped \/ CallStep \/ StepReturns \/ StepsEnd \/ JoinSteps \/ ScenariosEnd
  \/ RollbackOne \/ EndRollback

\* what the call in slot s does
SlotStep(s) ==
  \/ Lookup(s) \/ CheckContext(s) \/ StartRun(s)
  \/ s = 0 /\ \E out \in {"ok", "fail"} : ListRunReturns(out)
  \/ RunSucceeds(s) \/ RunFails(s) \/ Notify(s) \/ Notified(s) \/ StoreResult(s)

\* no call is left to make
Finished == pc = "idle" /\ calls = MaxCalls /\ UNCHANGED vars

Next == Setup \/ Cancel \/ Begin \/ CallerStep \/ (\E s \in Slots : SlotStep(s)) \/ Finished

(* Goroutines are scheduled fairly, callbacks return, and so does a        *)
(* Rollback, whose context has a deadline.  A Run need not return: some    *)
(* wait without a timeout for a server or a broker.  Nothing obliges the   *)
(* user to cancel, or the caller to make another call.                     *)
InRun(s) == task[s].pc = "running"

Fairness == WF_vars(CallerStep) /\ \A s \in Slots : WF_vars(~InRun(s) /\ SlotStep(s))

Spec == Init /\ [][Next]_vars /\ Fairness
-----------------------------------------------------------------------------
(* Properties. *)

TypeOK ==
  /\ cfg \in Configs
  /\ experiments \in Seq(Exps)
  /\ namedExperiments \in [Ids -> Exps \cup {NoExp}]
  /\ callbacks \in Nat
  /\ recorded \in Seq(Result)
  /\ cancelled \in BOOLEAN
  /\ pc \in {"idle", "list", "exec", "scenario", "steps", "step", "wait", "rollback"}
  /\ calls \in Nat
  /\ pos \in Nat
  /\ order \in Seq(1 .. MaxScenarios)
  /\ step \in Nat
  /\ prevSuccess \in BOOLEAN
  /\ allSucceeded \in BOOLEAN
  /\ scenarioSuccess \in [Names -> BOOLEAN]
  /\ results \in Seq(Result)
  /\ task \in [Slots -> Task]
  /\ fired \in [Places -> Nat]
  /\ returned \in Seq(Result)
  /\ dirty \subseteq Exps

\* the goroutines in runScenarioStep or in the body of the list's loop
Busy == {s \in Slots : task[s].pc # "none"}

\* Structured concurrency: a step is in progress only while the RunAll that
\* started it is waiting for it, so no experiment is running when RunAll has
\* returned or while RollbackAll undoes them; outside a parallel scenario at
\* most one is (engine.go:216-230, 247, 145).
StructuredConcurrency ==
  \A s \in Busy : \/ pc = "exec" /\ s = 0
                  \/ pc = "step" /\ s = step
                  \/ pc = "wait" /\ s \in DOMAIN Sc.steps

\* RunAll returned: each callback was called once for each result that is a
\* success, a failure or a dry run; it was called for no other result but
\* perhaps that of a step that ran and was cancelled before its retry, never
\* twice for one, and for nothing that did not run (engine.go:139, 164, 342).
CallbacksMatchResults ==
  pc = "idle" =>
    /\ \A i \in DOMAIN results :
         results[i].out \in Reported => fired[results[i].at] = callbacks
    /\ \A p \in Places : fired[p] > 0 =>
         /\ fired[p] = callbacks
         /\ \E i \in DOMAIN results :
              results[i].at = p /\ (results[i].out \in Reported \/ results[i].ran > 0)

-----------------------------------------------------------------------------
(* What runScenarios should have done by now, defined from the results     *)
(* instead of from its loop's variables.                                   *)

Success(r) == r.out \in Succeeded

InScenarios == pc \in {"scenario", "steps", "step", "wait"}

\* the scenario at sorted position k, the steps of it that have a result, and
\* the result of one of them
ScAt(k)        == Scenarios[order[k]]
StepsRun(k)    == {results[i].at[2] : i \in {j \in DOMAIN results : results[j].at[1] = order[k]}}
ResultOf(k, s) == results[CHOOSE i \in DOMAIN results : results[i].at = <<order[k], s>>]

\* the last enabled scenario named p before position k, 0 if there is none
LatestNamed(p, k) ==
  LET before == {j \in 1 .. k - 1 : ScAt(j).enabled /\ ScAt(j).name = p}
  IN  IF before = {} THEN 0 ELSE CHOOSE j \in before : \A i \in before : i <= j

Passed[k \in 0 .. pos] ==
  /\ k > 0
  /\ ScAt(k).enabled
  /\ \A p \in ScAt(k).prerequisites : Passed[LatestNamed(p, k)]
  /\ \A s \in StepsRun(k) : Success(ResultOf(k, s))

MayStart(k) ==
  ScAt(k).enabled /\ \A p \in ScAt(k).prerequisites : Passed[LatestNamed(p, k)]

\* A scenario that the loop has passed ran steps only if the latest scenario
\* of each prerequisite's name ran before it and all of that one's steps
\* succeeded, transitively (engine.go:197-209, 260; README.md:342,
\* "experiments only run after dependencies succeed").
PrerequisiteGate ==
  InScenarios => \A k \in 1 .. pos - 1 : StepsRun(k) # {} => MayStart(k)

\* A result is in what RunAll returns exactly once: none is doubled, and of a
\* parallel scenario that was allowed to start none is lost, whenever its
\* goroutine came to resultsMu (engine.go:215-230).
OneResultEach ==
  /\ \A i, j \in DOMAIN results : results[i].at = results[j].at => i = j
  /\ InScenarios => \A k \in 1 .. pos - 1 :
       ScAt(k).parallel /\ MayStart(k) => StepsRun(k) = DOMAIN ScAt(k).steps

\* In a sequential scenario that started, the steps that ran are exactly
\* those whose condition holds of the result of the last step that ran
\* before them; a step that is skipped counts for nothing (engine.go:232-256).
ConditionalSteps ==
  InScenarios => \A k \in 1 .. pos - 1 :
     ~ScAt(k).parallel /\ MayStart(k) =>
       LET PrevOk(s) == LET before == {t \in StepsRun(k) : t < s}
                        IN  before = {} \/ \E t \in before :
                              /\ \A u \in before : u <= t
                              /\ Success(ResultOf(k, t))
       IN  StepsRun(k) =
             {s \in DOMAIN ScAt(k).steps :
                CASE ScAt(k).steps[s].condition = "on_success" -> PrevOk(s)
                  [] ScAt(k).steps[s].condition = "on_failure" -> ~PrevOk(s)
                  [] OTHER                                     -> TRUE}

\* A step is run again only after it failed, never after it succeeded, at
\* most as often as its own retry count allows or, when it has none, its
\* scenario's; it is reported failed only when those are used up
\* (engine.go:283-339; README.md:458, "overrides scenario default").
RetryDiscipline ==
  \A i \in DOMAIN results :
     LET r     == results[i]
         sc    == Scenarios[r.at[1]]
         own   == sc.steps[r.at[2]].retries
         limit == IF r.at[1] = 0 THEN 0 ELSE IF own = 0 THEN sc.retries ELSE own
     IN  CASE r.out = "ok"        -> r.ran \in 1 .. limit + 1
           [] r.out = "fail"      -> r.ran = limit + 1
           [] r.out = "cancelled" -> r.ran <= limit /\ cancelled
           [] OTHER               -> r.ran = 0

\* Results() never holds anything RunAll did not return, in the order it was
\* returned; while the context lives, and always under scenarios, it holds
\* everything (engine.go:113, 170).
ResultsAccumulate ==
  /\ SeqExt!IsPrefix(recorded, returned)
  /\ ~cancelled \/ Scenarios # <<>> => recorded = returned

\* the destructive actions behind the results, in the unit of the cap: what an
\* experiment reports as DestructiveActionCount, for each of its Runs
ActionsRun ==
  Sums!SumFunction([i \in DOMAIN results |->
     LET r == results[i]
         e == IF r.at[1] = 0 THEN experiments[r.at[2]]
              ELSE namedExperiments[Scenarios[r.at[1]].steps[r.at[2]].name]
     IN  IF r.ran = 0 THEN 0 ELSE r.ran * DestructiveActionCount[e]])

\* no step of a scenario may be retried, and no two name one experiment
NothingRepeated ==
  \A i, j \in DOMAIN Scenarios :
     \A s \in DOMAIN Scenarios[i].steps, t \in DOMAIN Scenarios[j].steps :
        /\ Attempts(Scenarios[i], Scenarios[i].steps[s]) = 1
        /\ Scenarios[i].steps[s].name = Scenarios[j].steps[t].name => i = j /\ s = t

\* The cap that is compared once, with what is registered, bounds what is run:
\* the Runs of a RunAll whose scenarios repeat nothing carry out no more
\* "destructive actions configured" (engine.go:102) than the maximum, whatever
\* is registered under which name (engine.go:75-82, 100-105, 407-419).  How
\* many resources such an action affects is no matter of the engine's.
DestructiveBudget ==
  cfg.safety /\ ~cfg.dryRun /\ cfg.maxDestructive > 0 /\ NothingRepeated =>
    ActionsRun <= cfg.maxDestructive

\* the goroutines that will call Run whatever happens, and those in a Run
Committed == {s \in Slots : task[s].pc = "call"}
Running   == {s \in Slots : task[s].pc = "running"}

\* Cancelling stops the campaign: from then on no goroutine comes to the
\* point of calling Run that was not there already, in this RunAll or a later
\* one, on a first attempt or a retry (engine.go:119-124, 293-305).
CancelStopsNewRuns == [][cancelled => Committed' \subseteq Committed]_vars

\* When RollbackAll returns, every experiment that had been Run since the
\* last rollback, by the list or through its name in a scenario, even one
\* whose name was registered again later, has been rolled back
\* (engine.go:79-80, 357-365).
RollbackComplete == [][pc = "rollback" /\ pc' # pc => dirty' = {}]_vars

\* The engine implements the promise of module Campaign: structured
\* concurrency, cancellation and complete rollback, whatever the
\* configuration.  A RunAll the safety cap refuses is no step of it.
Phase == CASE pc = "idle"     -> "idle"
           [] pc = "rollback" -> "undoing"
           [] OTHER           -> "running"

CampaignView == INSTANCE Campaign WITH
  phase <- Phase, cleared <- Committed, running <- Running,
  stopped <- cancelled, touched <- dirty

ImplementsCampaign == CampaignView!Spec

\* If every Run returns, so do RunAll and RollbackAll: wg.Wait waits for no
\* other goroutine that cannot finish, and no step is retried for ever
\* (engine.go:230, 292).
RunsReturn == \A s \in Slots : []<>~InRun(s)

CallsReturn == RunsReturn => (pc # "idle" ~> pc = "idle")

\* "Results returns all collected experiment results" (engine.go:368).
AllResultsCollected == pc = "idle" => recorded = returned
=============================================================================
