---------------------------- MODULE EngineResults ----------------------------
(***************************************************************************)
(* What a RunAll of module Engine returns: where its results come from,    *)
(* that each is there once, what the callbacks and Results() were given,   *)
(* how often a step was tried, and which scenarios and steps ran.          *)
(*                                                                         *)
(* Five invariants, each inductive on top of those before it:              *)
(*   AInv  the form of RunAll, and what Results() is behind by;            *)
(*   RInv  what a step's attempt may be at each point of it;               *)
(*   PInv  the places of the results and the callbacks made for them;      *)
(*   SInv  the scenarios behind, and the one in progress;                  *)
(*   BInv  the registrations the results of a RunAll come from.            *)
(* At the end a measure of what is left of a call, which every step of it  *)
(* makes smaller.                                                          *)
(***************************************************************************)
EXTENDS EngineProofs, FiniteSetTheorems

-----------------------------------------------------------------------------
(* The invariant of the results of one RunAll, on top of IInv.             *)

\* what is left out of Results() was returned by a list that was cancelled
\* half-way, after which no list comes further than its first entry
BehindOK ==
  recorded # returned =>
    /\ cancelled /\ Scenarios = <<>> /\ experiments # <<>>
    /\ SeqExt!IsPrefix(recorded, returned)
    /\ pc # "exec"
    /\ pc = "list" => pos = 1 /\ results = <<>>

\* which form of RunAll the caller is in; the sort has left each scenario once
ModeOK ==
  /\ pc \in {"list", "exec"} => Scenarios = <<>>
  /\ pc = "list" /\ pos = 1 => results = <<>>
  /\ InScenarios => /\ Scenarios # <<>>
                    /\ \A j, k \in DOMAIN order : order[j] = order[k] => j = k
  /\ pc \in {"steps", "step"} => ~Sc.parallel
  /\ pc = "wait" => Sc.parallel

\* Which form of RunAll is on, and what Results() lacks.
AInv == BehindOK /\ ModeOK

\* calls of exp.Run the slot may make, and what its attempt says in each stage
Limit(s) == IF s = 0 THEN 1 ELSE Attempts(Sc, StepOf(s))

AttemptOK(t, n) ==
  /\ t.pc \in {"none", "lookup"} => t.attempt = 1
  /\ t.pc \in {"check", "call", "running"} => t.attempt <= n
  /\ t.pc = "check" /\ cfg.dryRun => t.attempt = 1
  /\ t.pc \in {"call", "running"} => ~cfg.dryRun
  /\ t.pc \in {"notify", "return", "done"} =>
       /\ t.out \in {"ok", "cancelled"} => t.attempt <= n
       /\ t.out = "fail" => t.attempt = n
       /\ t.out = "cancelled" => cancelled
       /\ t.out \in {"dry", "unknown"} => t.attempt = 1

AttemptsOK == \A s \in Slots : AttemptOK(task[s], Limit(s))

\* The attempts under way and those in the results fit the retries.
RInv == AttemptsOK /\ RetryDiscipline

\* the calls in progress whose result, or the callbacks for it, are not complete
Open == {s \in Slots : task[s].pc \notin {"none", "done"}}

\* the places that results may be at by now
Past(p) ==
  /\ pc \in {"list", "exec"} =>
       /\ p[1] = 0
       /\ p[2] < pos \/ (p[2] = pos /\ pc = "exec" /\ task[0].pc = "notify")
  /\ InScenarios =>
       \E k \in 1 .. pos :
         /\ k \in DOMAIN Scenarios
         /\ p[1] = order[k]
         /\ p[2] \in DOMAIN ScAt(k).steps
         /\ k = pos => \/ pc \in {"steps", "step"} /\ p[2] < step
                       \/ pc = "wait" /\ task[p[2]].pc = "done"

\* Results come from what the caller has been at in this RunAll, one from each
\* place, and the callbacks were made for them.
PastOK == \A p \in Places : (\E i \in DOMAIN results : results[i].at = p) => Past(p)

Distinct == \A i, j \in DOMAIN results : results[i].at = results[j].at => i = j

\* a result at p was given to the callbacks, or is being given to them
HasReported(p) == \E i \in DOMAIN results : results[i].at = p /\ results[i].out \in Reported

CalledBack(t) ==
  /\ t.cb <= callbacks
  /\ t.pc \in {"lookup", "check", "call", "running"} => t.cb = 0
  /\ t.pc = "notify" => t.out \in Reported
  /\ t.pc = "return" => t.cb = IF t.out \in Reported THEN callbacks ELSE 0

FiredOK ==
  /\ calls = 0 => pc = "idle" /\ results = <<>>
  /\ task[0].pc = "notify" => HasReported(Place(0))
  /\ \A s \in Open : CalledBack(task[s]) /\ fired[Place(s)] = task[s].cb
  /\ \A p \in Places : (\A s \in Open : p # Place(s)) =>
       fired[p] = IF HasReported(p) THEN callbacks ELSE 0

PInv == PastOK /\ Distinct /\ FiredOK

-----------------------------------------------------------------------------
(* The scenarios that are behind, and the one in progress. *)

\* What the conditions of step s look at: no step ran before it, or the last
\* one that did succeeded.
PrevOk(k, s) ==
  LET before == {t \in StepsRun(k) : t < s}
  IN  before = {} \/ \E t \in before : (\A u \in before : u <= t) /\ Success(ResultOf(k, t))

\* Step s is to run, by its condition and the results before it.
Due(k, s) ==
  CASE ScAt(k).steps[s].condition = "on_success" -> PrevOk(k, s)
    [] ScAt(k).steps[s].condition = "on_failure" -> ~PrevOk(k, s)
    [] OTHER                                     -> TRUE

AllOk(k) == \A s \in StepsRun(k) : Success(ResultOf(k, s))

\* A scenario that the loop has passed: nothing of it ran unless it was allowed
\* to start, and if it was then all that should have run did.
Behind(k) ==
  /\ StepsRun(k) # {} => MayStart(k)
  /\ MayStart(k) =>
       IF ScAt(k).parallel THEN StepsRun(k) = DOMAIN ScAt(k).steps
       ELSE StepsRun(k) = {s \in DOMAIN ScAt(k).steps : Due(k, s)}

\* The loop's variables say what the results say: scenarioSuccess which names
\* have passed, prevSuccess and allSucceeded how the scenario in progress goes.
SInv ==
  InScenarios =>
   /\ \A k \in 1 .. pos - 1 : Behind(k)
   /\ \A n \in Names : scenarioSuccess[n] = Passed[LatestNamed(n, pos)]
   /\ pc # "scenario" => MayStart(pos) /\ allSucceeded = AllOk(pos)
   /\ pc \in {"steps", "step"} =>
        /\ prevSuccess = PrevOk(pos, step)
        /\ StepsRun(pos) = {s \in DOMAIN ScAt(pos).steps : s < step /\ Due(pos, s)}
   /\ pc = "step" => Due(pos, step)
   /\ pc = "wait" => StepsRun(pos) = {s \in DOMAIN ScAt(pos).steps : task[s].pc = "done"}
-----------------------------------------------------------------------------
(* What RunAll leaves out of Results().                                    *)

\* The part of AInv about recorded holds on in a step that neither returns
\* results nor goes on in a list.
LEMMA BehindFrame ==
  ASSUME BehindOK, UNCHANGED <<cfg, experiments, recorded, returned>>, cancelled => cancelled',
         (recorded = returned) \/ pc' \notin {"list", "exec"} \/ (pc' = "list" /\ pos' = 1 /\ results' = <<>>)
  PROVE  BehindOK'
BY DEF BehindOK, Scenarios

LEMMA BehindPreserved ==
  ASSUME IInv, AInv, [Next]_vars
  PROVE  BehindOK'
<1>1. CASE Setup
  <2>1. \A e \in Exps : Append(experiments, e) # <<>>
    BY AppendFacts DEF IInv, TypeOK
  <2> QED
    BY <1>1, <2>1 DEF Setup, Register, RegisterNamed, OnResult, AInv, BehindOK, Scenarios, loop, ledger
<1>2. CASE Cancel \/ Finished \/ UNCHANGED vars
  BY <1>2 DEF Cancel, Finished, vars, AInv, BehindOK, Scenarios, registry, loop, ledger
<1>3. CASE Begin
  BY <1>3, BehindFrame DEF Begin, RefuseRun, BeginList, BeginScenarios, EnterRunAll, BeginRollback,
     AInv, registry, ledger
<1>4. CASE ListCancelled \/ ListEnd
  <2>1. recorded \in Seq(Result) /\ returned \in Seq(Result) /\ results \in Seq(Result)
    BY DEF IInv, TypeOK
  <2>2. CASE recorded = returned
    <3>1. CASE ListEnd
      BY <2>2, <3>1 DEF ListEnd, BehindOK
    <3>2. CASE ListCancelled
      <4>1. SeqExt!IsPrefix(recorded, returned \o results)
        BY <2>1, <2>2 DEF SeqExt!IsPrefix
      <4>2. experiments # <<>>
        BY <3>2 DEF ListCancelled, IInv, LoopOK, TypeOK
      <4> QED
        BY <3>2, <4>1, <4>2 DEF ListCancelled, BehindOK, AInv, ModeOK, Scenarios, registry
    <3> QED
      BY <1>4, <3>1, <3>2
  <2>3. CASE recorded # returned
    <3>1. pos = 1 /\ results = <<>> /\ experiments # <<>>
      BY <1>4, <2>3 DEF ListCancelled, ListEnd, AInv, BehindOK
    <3>2. returned \o results = returned
      BY <2>1, <3>1
    <3>3. ListCancelled
      BY <1>4, <3>1 DEF ListEnd, IInv, TypeOK
    <3> QED
      BY <2>3, <3>2, <3>3 DEF ListCancelled, AInv, BehindOK, Scenarios, registry
  <2> QED
    BY <2>2, <2>3
<1>5. CASE ScenariosEnd
  <2>1. recorded = returned
    BY <1>5 DEF ScenariosEnd, AInv, BehindOK, ModeOK, InScenarios
  <2> QED
    BY <1>5, <2>1 DEF ScenariosEnd, BehindOK
<1>6. CASE ListDryRun \/ ListRun
  <2>1. recorded = returned
    BY <1>6 DEF ListDryRun, ListRun, AInv, BehindOK
  <2> QED
    BY <1>6, <2>1 DEF ListDryRun, ListRun, BehindOK, ledger
<1>7. CASE ListNext
  <2>1. recorded = returned
    BY <1>7 DEF ListNext, AInv, BehindOK
  <2> QED
    BY <1>7, <2>1 DEF ListNext, BehindOK, ledger
<1>8. CASE ScenarioDisabled \/ ScenarioSkipped \/ ForkSteps \/ BeginSteps \/ StepSkipped \/ CallStep
           \/ StepReturns \/ StepsEnd \/ JoinSteps \/ RollbackOne \/ EndRollback
  BY <1>8, BehindFrame DEF ScenarioDisabled, ScenarioSkipped, ForkSteps, BeginSteps, StepSkipped, CallStep,
     StepReturns, StepsEnd, JoinSteps, CloseScenario, RollbackOne, EndRollback, AInv, registry, ledger
<1>9. ASSUME NEW s \in Slots, SlotStep(s)
      PROVE  BehindOK'
  <2>1. pc \in {"exec", "step", "wait"}
    BY <1>9, NoneBusy
    DEF SlotStep, Lookup, CheckContext, StartRun, ListRunReturns, RunSucceeds, RunFails,
        Notify, Notified, StoreResult
  <2>2. UNCHANGED <<cfg, experiments, recorded, returned, cancelled, pc>>
    BY <1>9
    DEF SlotStep, Lookup, CheckContext, StartRun, ListRunReturns, RunSucceeds, RunFails,
        Notify, Notified, StoreResult, TaskStep, registry, ledger
  <2> QED
    BY <2>1, <2>2 DEF AInv, BehindOK, Scenarios
<1> QED
  BY <1>1, <1>2, <1>3, <1>4, <1>5, <1>6, <1>7, <1>8, <1>9 DEF Next, CallerStep

LEMMA ModePreserved ==
  ASSUME IInv, AInv, [Next]_vars
  PROVE  ModeOK'
<1>1. CASE Setup \/ Cancel \/ Finished \/ UNCHANGED vars
  BY <1>1 DEF Setup, Register, RegisterNamed, OnResult, Cancel, Finished, vars, AInv, ModeOK,
     InScenarios, Scenarios, Sc, registry, loop, ledger
<1>2. CASE Begin
  BY <1>2 DEF Begin, RefuseRun, BeginList, BeginScenarios, EnterRunAll, BeginRollback, SortedOrders,
     AInv, ModeOK, InScenarios, Scenarios, registry, ledger
<1>3. CASE ListCancelled \/ ListEnd \/ ScenariosEnd \/ ListDryRun \/ ListRun \/ ListNext
           \/ RollbackOne \/ EndRollback
  BY <1>3 DEF ListCancelled, ListEnd, ScenariosEnd, ListDryRun, ListRun, ListNext,
     RollbackOne, EndRollback, AInv, IInv, TypeOK, LoopOK, ModeOK, InScenarios, Scenarios, registry, loop, ledger
<1>4. CASE ScenarioDisabled \/ ScenarioSkipped \/ ForkSteps \/ BeginSteps \/ StepSkipped \/ CallStep
           \/ StepReturns \/ StepsEnd \/ JoinSteps
  BY <1>4 DEF ScenarioDisabled, ScenarioSkipped, ForkSteps, BeginSteps, StepSkipped, CallStep, StepReturns,
     StepsEnd, JoinSteps, CloseScenario, AInv, ModeOK, InScenarios, Scenarios, Sc, registry, loop, ledger
<1>5. ASSUME NEW s \in Slots, SlotStep(s)
      PROVE  ModeOK'
  <2>1. pc \in {"exec", "step", "wait"}
    BY <1>5, NoneBusy
    DEF SlotStep, Lookup, CheckContext, StartRun, ListRunReturns, RunSucceeds, RunFails,
        Notify, Notified, StoreResult
  <2>2. UNCHANGED <<cfg, order, pos, pc>>
    BY <1>5
    DEF SlotStep, Lookup, CheckContext, StartRun, ListRunReturns, RunSucceeds, RunFails,
        Notify, Notified, StoreResult, TaskStep, registry, loop
  <2> QED
    BY <2>1, <2>2 DEF AInv, ModeOK, InScenarios, Scenarios, Sc
<1> QED
  BY <1>1, <1>2, <1>3, <1>4, <1>5 DEF Next, CallerStep

\* The two forms of RunAll, and what is left out of Results(), in every state.
THEOREM ReturnedInvariance == SafeEngine => []AInv
<1>1. Init => AInv
  BY DEF Init, AInv, BehindOK, ModeOK, InScenarios
<1>2. IInv /\ AInv /\ [Next]_vars => AInv'
  BY BehindPreserved, ModePreserved DEF AInv
<1> QED
  BY <1>1, <1>2, Invariance, PTL DEF SafeEngine

\* What RunAll returned is in Results(), but for a list that was cancelled.
THEOREM ResultsOnlyAccumulate == Spec => []ResultsAccumulate
<1>1. IInv /\ AInv => ResultsAccumulate
  BY DEF IInv, TypeOK, AInv, BehindOK, ResultsAccumulate, SeqExt!IsPrefix
<1> QED
  BY <1>1, Invariance, ReturnedInvariance, PTL DEF Spec, SafeEngine
-----------------------------------------------------------------------------
(* How often a step is run.                                                *)

\* RetryDiscipline of one result
ResultFits(r) ==
  LET sc    == Scenarios[r.at[1]]
      own   == sc.steps[r.at[2]].retries
      limit == IF r.at[1] = 0 THEN 0 ELSE IF own = 0 THEN sc.retries ELSE own
  IN  CASE r.out = "ok"        -> r.ran \in 1 .. limit + 1
        [] r.out = "fail"      -> r.ran = limit + 1
        [] r.out = "cancelled" -> r.ran <= limit /\ cancelled
        [] OTHER               -> r.ran = 0

\* The step that a sequential scenario calls, or has called, has a slot.
LEMMA StepInSlots ==
  ASSUME IInv, pc = "step" \/ (pc = "steps" /\ step <= Len(Sc.steps))
  PROVE  step \in Slots /\ step # 0 /\ step \in DOMAIN Sc.steps
<1>1. Sc.steps \in Seq(Step) /\ Len(Sc.steps) \in Nat /\ Len(Sc.steps) <= MaxSteps
  BY ScenarioInProgress
<1>2. step \in DOMAIN Sc.steps
  BY <1>1 DEF IInv, LoopOK, TypeOK
<1> QED
  BY <1>1, <1>2, BoundsAssumption DEF Slots

\* A slot in use may run its experiment once, or as often as its step's or its
\* scenario's retries say.
LEMMA LimitOfSlot ==
  ASSUME IInv, NEW s \in Slots, task[s].pc # "none"
  PROVE  /\ Limit(s) \in Nat \ {0}
         /\ s = 0 => Limit(s) = 1
         /\ s # 0 => Limit(s) = 1 + IF StepOf(s).retries = 0 THEN Sc.retries ELSE StepOf(s).retries
<1>1. CASE s = 0
  BY <1>1 DEF Limit
<1>2. CASE s # 0
  <2>1. StepOf(s) \in Step /\ Sc \in Scenario
    BY <1>2, SlotInUse, ScenarioInProgress
  <2>2. StepOf(s).retries \in Nat /\ Sc.retries \in Nat
    BY <2>1 DEF Step, Scenario
  <2> QED
    BY <1>2, <2>2 DEF Limit, Attempts
<1> QED
  BY <1>1, <1>2

\* The result made of a task that ended as its attempt allows.
LEMMA ResultMade ==
  ASSUME IInv, NEW s \in Slots, task[s].pc # "none", NEW t \in Task, NEW out \in Outcomes,
         out \in {"ok", "cancelled"} => t.attempt <= Limit(s),
         out = "fail" => t.attempt = Limit(s),
         out = "cancelled" => cancelled,
         out \in {"dry", "unknown"} => t.attempt = 1
  PROVE  ResultFits(ResultAt(s, t, out))
<1> DEFINE r == ResultAt(s, t, out)
<1>1. t.attempt \in Nat \ {0}
  BY DEF Task
<1>2. r.at = Place(s) /\ r.out = out
      /\ r.ran = IF out \in {"ok", "fail"} THEN t.attempt ELSE t.attempt - 1
  BY DEF ResultAt
<1> HIDE DEF r
<1>3. CASE s = 0
  <2>1. r.at[1] = 0 /\ Limit(s) = 1
    BY <1>2, <1>3, LimitOfSlot DEF Place
  <2> QED
    BY <1>1, <1>2, <2>1 DEF ResultFits, Outcomes, r
<1>4. CASE s # 0
  <2>1. r.at[1] = order[pos] /\ r.at[2] = s /\ order[pos] # 0
    BY <1>2, <1>4, SlotInUse, ScenarioInProgress DEF Place
  <2>2. Scenarios[r.at[1]] = Sc /\ Scenarios[r.at[1]].steps[r.at[2]] = StepOf(s)
    BY <2>1 DEF Sc, StepOf
  <2>3. Limit(s) = 1 + IF StepOf(s).retries = 0 THEN Sc.retries ELSE StepOf(s).retries
    BY <1>4, LimitOfSlot
  <2>4. Sc.retries \in Nat /\ StepOf(s).retries \in Nat
    BY <1>4, SlotInUse, ScenarioInProgress DEF Step, Scenario
  <2> DEFINE limit == IF StepOf(s).retries = 0 THEN Sc.retries ELSE StepOf(s).retries
  <2>5. limit \in Nat /\ Limit(s) = limit + 1
    BY <2>3, <2>4
  <2>6. ResultFits(r) <=> (CASE r.out = "ok"        -> r.ran \in 1 .. limit + 1
                             [] r.out = "fail"      -> r.ran = limit + 1
                             [] r.out = "cancelled" -> r.ran <= limit /\ cancelled
                             [] OTHER               -> r.ran = 0)
    BY <2>1, <2>2 DEF ResultFits
  <2> HIDE DEF limit
  <2> QED
    BY <1>1, <1>2, <2>5, <2>6 DEF Outcomes, r
<1> QED
  BY <1>3, <1>4

\* Results that fit their retries still do when time passes or one is added.
LEMMA RetryFrame ==
  ASSUME RetryDiscipline, cfg' = cfg, cancelled => cancelled', results' \in {results, <<>>}
  PROVE  RetryDiscipline'
<1>1. \A i \in DOMAIN results : ResultFits(results[i])
  BY DEF RetryDiscipline, ResultFits
<1>2. \A i \in DOMAIN results' : ResultFits(results'[i])
  BY <1>1
<1> QED
  BY <1>2 DEF RetryDiscipline, ResultFits, Scenarios

LEMMA RetryAppend ==
  ASSUME NEW r \in Result, RetryDiscipline, ResultFits(r), results \in Seq(Result),
         results' = Append(results, r), cfg' = cfg, cancelled => cancelled'
  PROVE  RetryDiscipline'
<1>1. \A i \in DOMAIN results' : results'[i] = r \/ \E j \in DOMAIN results : results'[i] = results[j]
  OBVIOUS
<1>2. \A j \in DOMAIN results : ResultFits(results[j])
  BY DEF RetryDiscipline, ResultFits
<1>3. \A i \in DOMAIN results' : ResultFits(results'[i])
  BY <1>1, <1>2
<1> QED
  BY <1>3 DEF RetryDiscipline, ResultFits, Scenarios

\* The attempts when only the task in slot s changes, and when none is left.
LEMMA AttemptsFrame ==
  ASSUME IInv, AttemptsOK, NEW s \in Slots, NEW t \in Task, task' = [task EXCEPT ![s] = t],
         UNCHANGED <<cfg, order, pos, cancelled>>, AttemptOK(t, Limit(s))
  PROVE  AttemptsOK'
<1>1. \A k \in Slots : task'[k] = IF k = s THEN t ELSE task[k]
  BY DEF IInv, TypeOK
<1>2. \A k \in Slots : Limit(k)' = Limit(k)
  BY DEF Limit, Sc, Scenarios, StepOf
<1> QED
  BY <1>1, <1>2 DEF AttemptsOK, AttemptOK

LEMMA AttemptsNone ==
  ASSUME \A s \in Slots : task'[s].pc = "none" /\ task'[s].attempt = 1
  PROVE  AttemptsOK'
BY DEF AttemptsOK, AttemptOK

LEMMA AttemptsIdle ==
  ASSUME IInv, AttemptsOK, task' = task, pc \notin {"exec", "step", "wait"}
  PROVE  AttemptsOK'
<1>1. \A s \in Slots : task[s].pc = "none" /\ task[s].attempt = 1
  BY NoneBusy DEF AttemptsOK, AttemptOK
<1> QED
  BY <1>1, AttemptsNone

LEMMA CallerRetries ==
  ASSUME IInv, RInv, Setup \/ Cancel \/ Begin \/ CallerStep \/ Finished \/ UNCHANGED vars
  PROVE  RInv'
<1>1. AttemptsOK /\ RetryDiscipline /\ results \in Seq(Result)
  BY DEF RInv, IInv, TypeOK
<1>2. CASE Setup \/ Begin
  <2>1. AttemptsOK'
    BY <1>1, <1>2, AttemptsIdle DEF Setup, Register, RegisterNamed, OnResult, Begin, RefuseRun,
       BeginList, BeginScenarios, EnterRunAll, BeginRollback
  <2>2. RetryDiscipline'
    BY <1>1, <1>2, RetryFrame DEF Setup, Register, RegisterNamed, OnResult, Begin, RefuseRun,
       BeginList, BeginScenarios, EnterRunAll, BeginRollback, registry, ledger
  <2> QED
    BY <2>1, <2>2 DEF RInv
<1>3. CASE Cancel \/ Finished \/ UNCHANGED vars
  <2>1. UNCHANGED <<cfg, order, pos, task, results>> /\ (cancelled => cancelled')
    BY <1>3 DEF Cancel, Finished, vars, registry, loop, ledger
  <2>2. AttemptsOK'
    BY <1>1, <2>1 DEF AttemptsOK, AttemptOK, Limit, Sc, Scenarios, StepOf
  <2> QED
    BY <1>1, <2>1, <2>2, RetryFrame DEF RInv
<1>4. CASE ListCancelled \/ ListEnd \/ ScenarioDisabled \/ ScenarioSkipped \/ BeginSteps \/ StepSkipped
           \/ StepsEnd \/ ScenariosEnd \/ RollbackOne \/ EndRollback
  <2>1. pc \notin {"exec", "step", "wait"} /\ UNCHANGED <<cfg, cancelled, task, results>>
    BY <1>4 DEF ListCancelled, ListEnd, ScenarioDisabled, ScenarioSkipped, BeginSteps, StepSkipped,
       StepsEnd, CloseScenario, ScenariosEnd, RollbackOne, EndRollback, registry, ledger
  <2> QED
    BY <1>1, <2>1, AttemptsIdle, RetryFrame DEF RInv
<1>5. CASE ListNext \/ JoinSteps
  <2>1. UNCHANGED <<cfg, cancelled, results>>
    BY <1>5 DEF ListNext, JoinSteps, CloseScenario, registry, ledger
  <2>2. \A s \in Slots : task'[s].pc = "none" /\ task'[s].attempt = 1
    <3>1. CASE ListNext
      <4>1. \A s \in Slots \ {0} : task[s].pc = "none"
        BY <3>1 DEF ListNext, IInv, TasksOK, StructuredConcurrency, Busy
      <4>2. \A s \in Slots : task'[s] = IF s = 0 THEN NoTask ELSE task[s]
        BY <3>1 DEF ListNext, IInv, TypeOK
      <4> QED
        BY <1>1, <4>1, <4>2 DEF AttemptsOK, AttemptOK, NoTask
    <3>2. CASE JoinSteps
      BY <3>2 DEF JoinSteps, NoTask
    <3> QED
      BY <1>5, <3>1, <3>2
  <2> QED
    BY <1>1, <2>1, <2>2, AttemptsNone, RetryFrame DEF RInv
<1>6. CASE ListDryRun \/ ListRun
  <2>0. 0 \in Slots /\ pc = "list"
    BY <1>6, BoundsAssumption DEF ListDryRun, ListRun, Slots
  <2>1. 0 \in Slots /\ task[0].pc = "none" /\ task[0] \in Task /\ task[0].attempt = 1
    <3>1. task[0].pc = "none" /\ task[0] \in Task
      BY <2>0, NoneBusy DEF IInv, TypeOK
    <3> QED
      BY <1>1, <2>0, <3>1 DEF AttemptsOK, AttemptOK
  <2>2. AttemptsOK'
    <3>1. CASE ListDryRun
      <4> DEFINE u == [NoTask EXCEPT !.pc = "notify", !.out = "dry"]
      <4>1. AttemptOK(u, Limit(0)) /\ u \in Task
        BY NoTaskTyped DEF AttemptOK, NoTask
      <4> QED
        BY <1>1, <2>1, <3>1, <4>1, AttemptsFrame DEF ListDryRun, registry, loop
    <3>2. CASE ListRun
      <4> DEFINE u == [NoTask EXCEPT !.pc = "call"]
      <4>1. AttemptOK(u, Limit(0)) /\ u \in Task
        BY <3>2, NoTaskTyped DEF AttemptOK, NoTask, Limit, ListRun
      <4> QED
        BY <1>1, <2>1, <3>2, <4>1, AttemptsFrame DEF ListRun, registry, loop
    <3> QED
      BY <1>6, <3>1, <3>2
  <2>3. RetryDiscipline'
    <3>1. CASE ListDryRun
      <4>1. pos \in DOMAIN experiments
        BY <3>1 DEF ListDryRun, IInv, LoopOK, TypeOK
      <4>2. Place(0) \in Places
        BY <4>1, BoundsAssumption DEF Place, Places, IInv, RegistryOK, TypeOK
      <4>3. ResultAt(0, task[0], "dry") \in Result
        BY <2>1, <4>2, ResultTyped DEF Outcomes
      <4>4. ResultFits(ResultAt(0, task[0], "dry"))
        BY <2>1 DEF ResultFits, ResultAt, Place
      <4> QED
        BY <1>1, <3>1, <4>3, <4>4, RetryAppend DEF ListDryRun, registry
    <3>2. CASE ListRun
      BY <1>1, <3>2, RetryFrame DEF ListRun, registry, ledger
    <3> QED
      BY <1>6, <3>1, <3>2
  <2> QED
    BY <2>2, <2>3 DEF RInv
<1>7. CASE ForkSteps
  <2>1. AttemptsOK'
    BY <1>7 DEF ForkSteps, AttemptsOK, AttemptOK, NoTask
  <2> QED
    BY <1>1, <1>7, <2>1, RetryFrame DEF ForkSteps, RInv, registry, ledger
<1>8. CASE CallStep
  <2>1. step \in Slots
    BY <1>8, StepInSlots DEF CallStep
  <2> DEFINE u == [NoTask EXCEPT !.pc = "lookup"]
  <2>2. u \in Task /\ AttemptOK(u, Limit(step))
    BY NoTaskTyped DEF AttemptOK, NoTask
  <2>3. AttemptsOK'
    BY <1>1, <1>8, <2>1, <2>2, AttemptsFrame DEF CallStep, registry, loop
  <2> QED
    BY <1>1, <1>8, <2>3, RetryFrame DEF CallStep, RInv, registry, ledger
<1>9. CASE StepReturns
  <2>0. step \in Slots /\ task[step].pc = "return"
    BY <1>9, StepInSlots DEF StepReturns
  <2>1. step \in Slots /\ task[step] \in Task /\ task[step].out \in Outcomes /\ task[step].pc = "return"
    BY <2>0 DEF IInv, TypeOK, Task
  <2>2. Place(step) \in Places
    BY <2>1, SlotInUse
  <2>3. AttemptOK(task[step], Limit(step))
    BY <1>1, <2>1 DEF AttemptsOK
  <2>4. ResultFits(ResultAt(step, task[step], task[step].out))
    BY <2>1, <2>3, ResultMade DEF AttemptOK
  <2>5. ResultAt(step, task[step], task[step].out) \in Result
    BY <2>1, <2>2, ResultTyped
  <2>6. RetryDiscipline'
    BY <1>1, <1>9, <2>4, <2>5, RetryAppend DEF StepReturns, registry
  <2>7. \A s \in Slots : task'[s].pc = "none" /\ task'[s].attempt = 1
    <3>1. \A s \in Slots \ {step} : task[s].pc = "none"
      BY <1>9 DEF StepReturns, IInv, TasksOK, StructuredConcurrency, Busy
    <3>2. \A s \in Slots : task'[s] = IF s = step THEN NoTask ELSE task[s]
      BY <1>9, <2>1 DEF StepReturns, IInv, TypeOK
    <3> QED
      BY <1>1, <3>1, <3>2 DEF AttemptsOK, AttemptOK, NoTask
  <2> QED
    BY <2>6, <2>7, AttemptsNone DEF RInv
<1> QED
  BY <1>2, <1>3, <1>4, <1>5, <1>6, <1>7, <1>8, <1>9 DEF CallerStep
LEMMA SlotRetries ==
  ASSUME IInv, RInv, NEW s \in Slots, SlotStep(s)
  PROVE  RInv'
<1> DEFINE t == task[s]
<1>1. t \in Task /\ task \in [Slots -> Task] /\ results \in Seq(Result)
  BY DEF IInv, TypeOK
<1>2. t.pc # "none"
  BY DEF SlotStep, Lookup, CheckContext, StartRun, ListRunReturns, RunSucceeds, RunFails,
      Notify, Notified, StoreResult
<1>3. AttemptsOK /\ RetryDiscipline /\ AttemptOK(t, Limit(s)) /\ Limit(s) \in Nat \ {0} /\ (s = 0 => Limit(s) = 1)
  BY <1>2, LimitOfSlot DEF RInv, AttemptsOK
<1>4. UNCHANGED <<cfg, order, pos, cancelled>>
  BY DEF SlotStep, Lookup, CheckContext, StartRun, ListRunReturns, RunSucceeds, RunFails,
      Notify, Notified, StoreResult, TaskStep, registry, loop
<1>5. t.attempt \in Nat \ {0} /\ t.out \in Outcomes /\ Place(s) \in Places
  BY <1>1, <1>2, SlotInUse DEF Task
<1>6. \A o \in {"ok", "fail", "dry", "unknown", "cancelled"} : o \in Outcomes
  BY DEF Outcomes
<1>7. \A p \in {"lookup", "check", "call", "running", "notify", "return", "done"} : p \in TaskPC
  BY DEF TaskPC
\* the actions that only change the task
<1>8. ASSUME NEW u \in Task, TaskStep(s, u), AttemptOK(u, Limit(s))
      PROVE  RInv'
  <2>1. AttemptsOK'
    BY <1>3, <1>4, <1>8, AttemptsFrame DEF TaskStep
  <2> QED
    BY <1>3, <1>4, <1>8, <2>1, RetryFrame DEF TaskStep, RInv, ledger
<1>9. CASE Lookup(s)
  <2>1. t.attempt = 1
    BY <1>3, <1>9 DEF Lookup, AttemptOK
  <2>2. [t EXCEPT !.pc = "return", !.out = "unknown"] \in Task /\ [t EXCEPT !.pc = "check"] \in Task
    BY <1>1, <1>6, <1>7, TaskPC_Typed, TaskOut_Typed
  <2>3. AttemptOK([t EXCEPT !.pc = "return", !.out = "unknown"], Limit(s))
    BY <1>1, <2>1 DEF AttemptOK, Task
  <2>4. AttemptOK([t EXCEPT !.pc = "check"], Limit(s))
    BY <1>1, <1>3, <2>1 DEF AttemptOK, Task
  <2> QED
    BY <1>8, <1>9, <2>2, <2>3, <2>4 DEF Lookup
<1>10. CASE CheckContext(s)
  <2>1. t.pc = "check" /\ t.attempt <= Limit(s) /\ (cfg.dryRun => t.attempt = 1)
    BY <1>3, <1>10 DEF CheckContext, AttemptOK
  <2>2. CASE cancelled /\ TaskStep(s, [t EXCEPT !.pc = "return", !.out = "cancelled"])
    <3>1. [t EXCEPT !.pc = "return", !.out = "cancelled"] \in Task
      BY <1>1, <1>6, <1>7, TaskOut_Typed
    <3>2. AttemptOK([t EXCEPT !.pc = "return", !.out = "cancelled"], Limit(s))
      BY <1>1, <2>1, <2>2 DEF AttemptOK, Task
    <3> QED
      BY <1>8, <2>2, <3>1, <3>2
  <2>3. CASE cfg.dryRun /\ TaskStep(s, [t EXCEPT !.pc = "notify", !.out = "dry"])
    <3>1. [t EXCEPT !.pc = "notify", !.out = "dry"] \in Task
      BY <1>1, <1>6, <1>7, TaskOut_Typed
    <3>2. AttemptOK([t EXCEPT !.pc = "notify", !.out = "dry"], Limit(s))
      BY <1>1, <2>1, <2>3 DEF AttemptOK, Task
    <3> QED
      BY <1>8, <2>3, <3>1, <3>2
  <2>4. CASE ~cfg.dryRun /\ TaskStep(s, [t EXCEPT !.pc = "call"])
    <3>1. [t EXCEPT !.pc = "call"] \in Task
      BY <1>1, <1>7, TaskPC_Typed
    <3>2. AttemptOK([t EXCEPT !.pc = "call"], Limit(s))
      BY <1>1, <2>1, <2>4 DEF AttemptOK, Task
    <3> QED
      BY <1>8, <2>4, <3>1, <3>2
  <2> QED
    BY <1>10, <2>2, <2>3, <2>4 DEF CheckContext
<1>11. CASE StartRun(s)
  <2>1. [t EXCEPT !.pc = "running"] \in Task /\ TaskStep(s, [t EXCEPT !.pc = "running"])
    BY <1>1, <1>7, <1>11, TaskPC_Typed DEF StartRun
  <2>2. AttemptOK([t EXCEPT !.pc = "running"], Limit(s))
    BY <1>1, <1>3, <1>11 DEF AttemptOK, Task, StartRun
  <2> QED
    BY <1>8, <2>1, <2>2
<1>12. ASSUME s = 0, NEW out \in {"ok", "fail"}, ListRunReturns(out)
       PROVE  RInv'
  <2> DEFINE u == [t EXCEPT !.pc = "notify", !.out = out]
  <2>0. t.attempt = 1
    BY <1>3, <1>5, <1>12 DEF ListRunReturns, AttemptOK
  <2>1. u \in Task /\ task' = [task EXCEPT ![s] = u] /\ out \in Outcomes
    BY <1>1, <1>6, <1>7, <1>12, TaskOut_Typed DEF ListRunReturns
  <2>2. AttemptOK(u, Limit(s))
    BY <1>1, <1>3, <1>12, <2>0 DEF AttemptOK, Task
  <2>3. AttemptsOK'
    <3> HIDE DEF u
    <3> QED
      BY <1>3, <1>4, <2>1, <2>2, AttemptsFrame
  <2>4. ResultFits(ResultAt(s, t, out)) /\ ResultAt(s, t, out) \in Result
    BY <1>1, <1>2, <1>3, <1>5, <1>12, <2>0, <2>1, ResultMade, ResultTyped
  <2> QED
    BY <1>1, <1>3, <1>4, <1>12, <2>3, <2>4, RetryAppend DEF ListRunReturns, RInv
<1>13. CASE RunSucceeds(s)
  <2>1. [t EXCEPT !.pc = "notify", !.out = "ok"] \in Task
    BY <1>1, <1>6, <1>7, TaskOut_Typed
  <2>2. AttemptOK([t EXCEPT !.pc = "notify", !.out = "ok"], Limit(s))
    BY <1>1, <1>3, <1>13 DEF AttemptOK, Task, RunSucceeds
  <2> QED
    BY <1>8, <1>13, <2>1, <2>2 DEF RunSucceeds
<1>14. CASE RunFails(s)
  <2>1. t.attempt <= Limit(s) /\ ~cfg.dryRun /\ Limit(s) = Attempts(Sc, StepOf(s))
    BY <1>3, <1>14 DEF AttemptOK, RunFails, Limit
  <2>2. CASE t.attempt < Limit(s)
    <3>1. [t EXCEPT !.pc = "check", !.attempt = @ + 1] \in Task
      BY <1>1, <1>7, TaskRetried_Typed
    <3>2. AttemptOK([t EXCEPT !.pc = "check", !.attempt = @ + 1], Limit(s))
      BY <1>1, <1>3, <1>5, <2>1, <2>2 DEF AttemptOK, Task
    <3> QED
      BY <1>8, <1>14, <2>1, <2>2, <3>1, <3>2 DEF RunFails
  <2>3. CASE ~(t.attempt < Limit(s))
    <3>1. [t EXCEPT !.pc = "notify", !.out = "fail"] \in Task
      BY <1>1, <1>6, <1>7, TaskOut_Typed
    <3>2. AttemptOK([t EXCEPT !.pc = "notify", !.out = "fail"], Limit(s))
      BY <1>1, <1>3, <1>5, <2>1, <2>3 DEF AttemptOK, Task
    <3> QED
      BY <1>8, <1>14, <2>1, <2>3, <3>1, <3>2 DEF RunFails
  <2> QED
    BY <2>2, <2>3
<1>15. CASE Notify(s)
  <2> DEFINE u == [t EXCEPT !.cb = @ + 1]
  <2>1. u \in Task /\ task' = [task EXCEPT ![s] = u]
    BY <1>1, <1>15, TaskCalled_Typed DEF Notify
  <2>2. AttemptOK(u, Limit(s))
    BY <1>1, <1>3 DEF AttemptOK, Task
  <2>3. AttemptsOK'
    <3> HIDE DEF u
    <3> QED
      BY <1>3, <1>4, <2>1, <2>2, AttemptsFrame
  <2> QED
    BY <1>3, <1>4, <1>15, <2>3, RetryFrame DEF Notify, RInv
<1>16. CASE Notified(s)
  <2>1. [t EXCEPT !.pc = "return"] \in Task
    BY <1>1, <1>7, TaskPC_Typed
  <2>2. AttemptOK([t EXCEPT !.pc = "return"], Limit(s))
    BY <1>1, <1>3, <1>16 DEF AttemptOK, Task, Notified
  <2> QED
    BY <1>8, <1>16, <2>1, <2>2 DEF Notified
<1>17. CASE StoreResult(s)
  <2>1. [t EXCEPT !.pc = "done"] \in Task /\ task' = [task EXCEPT ![s] = [t EXCEPT !.pc = "done"]]
    BY <1>1, <1>7, <1>17, TaskPC_Typed DEF StoreResult
  <2>2. AttemptOK([t EXCEPT !.pc = "done"], Limit(s))
    BY <1>1, <1>3, <1>17 DEF AttemptOK, Task, StoreResult
  <2>3. AttemptsOK'
    BY <1>3, <1>4, <2>1, <2>2, AttemptsFrame
  <2>4. ResultFits(ResultAt(s, t, t.out))
    BY <1>1, <1>2, <1>3, <1>5, <1>17, ResultMade DEF AttemptOK, StoreResult
  <2>5. ResultAt(s, t, t.out) \in Result
    BY <1>1, <1>5, ResultTyped
  <2> QED
    BY <1>1, <1>3, <1>4, <1>17, <2>3, <2>4, <2>5, RetryAppend DEF StoreResult, RInv
<1> QED
  BY <1>9, <1>10, <1>11, <1>12, <1>13, <1>14, <1>15, <1>16, <1>17 DEF SlotStep

\* The attempts of the calls in progress, in every state.
THEOREM RetryInvariance == SafeEngine => []RInv
<1>1. Init => RInv
  BY DEF Init, RInv, AttemptsOK, AttemptOK, NoTask, RetryDiscipline
<1>2. IInv /\ RInv /\ [Next]_vars => RInv'
  BY CallerRetries, SlotRetries DEF Next
<1> QED
  BY <1>1, <1>2, Invariance, PTL DEF SafeEngine

\* A step is retried only after it failed, and as often as it may be.
THEOREM RetriesAreDisciplined == Spec => []RetryDiscipline
<1>1. RInv => RetryDiscipline
  BY DEF RInv
<1> QED
  BY <1>1, RetryInvariance, PTL DEF Spec, SafeEngine
-----------------------------------------------------------------------------
(* Where the results come from.                                            *)

\* A place that results may be at remains one until the next RunAll.
LEMMA PastStays ==
  ASSUME IInv, [Next]_vars, ~Begin, NEW p \in Places, Past(p)
  PROVE  Past(p)'
<1>1. p[1] \in Nat /\ p[2] \in Nat /\ pos \in Nat /\ step \in Nat
  BY BoundsAssumption DEF Places, IInv, TypeOK
<1>2. CASE Setup \/ Cancel \/ Finished \/ UNCHANGED vars
  BY <1>2 DEF Setup, Register, RegisterNamed, OnResult, Cancel, Finished, vars, Past, InScenarios,
     Scenarios, ScAt, registry, loop
<1>3. CASE ListCancelled \/ ListEnd \/ ScenariosEnd \/ RollbackOne \/ EndRollback
  BY <1>3 DEF ListCancelled, ListEnd, ScenariosEnd, RollbackOne, EndRollback, Past, InScenarios
<1>4. CASE ListDryRun \/ ListRun
  BY <1>1, <1>4 DEF ListDryRun, ListRun, Past, InScenarios, loop
<1>5. CASE ListNext
  BY <1>1, <1>5 DEF ListNext, Past, InScenarios
<1>6. CASE ScenarioDisabled \/ ScenarioSkipped \/ ForkSteps \/ BeginSteps \/ StepSkipped \/ CallStep
           \/ StepReturns \/ StepsEnd \/ JoinSteps
  <2>1. /\ InScenarios /\ InScenarios' /\ UNCHANGED <<cfg, order>>
        /\ pc' \notin {"list", "exec"}
    BY <1>6 DEF ScenarioDisabled, ScenarioSkipped, ForkSteps, BeginSteps, StepSkipped, CallStep,
       StepReturns, StepsEnd, JoinSteps, CloseScenario, InScenarios, registry, loop
  <2>2. PICK k \in 1 .. pos :
          /\ k \in DOMAIN Scenarios
          /\ p[1] = order[k]
          /\ p[2] \in DOMAIN ScAt(k).steps
          /\ k = pos => \/ pc \in {"steps", "step"} /\ p[2] < step
                        \/ pc = "wait" /\ task[p[2]].pc = "done"
    BY <2>1 DEF Past
  <2>3. /\ k \in DOMAIN Scenarios'
        /\ p[1] = order'[k]
        /\ p[2] \in DOMAIN (ScAt(k).steps)'
    BY <2>1, <2>2 DEF Scenarios, ScAt
  <2>4. /\ k \in 1 .. pos'
        /\ k = pos' => \/ pc' \in {"steps", "step"} /\ p[2] < step'
                       \/ pc' = "wait" /\ task'[p[2]].pc = "done"
    BY <1>1, <1>6, <2>2 DEF ScenarioDisabled, ScenarioSkipped, ForkSteps, BeginSteps, StepSkipped,
       CallStep, StepReturns, StepsEnd, JoinSteps, CloseScenario, loop
  <2> QED
    BY <2>1, <2>3, <2>4 DEF Past
<1>7. ASSUME NEW s \in Slots, SlotStep(s)
      PROVE  Past(p)'
  <2>1. UNCHANGED <<cfg, order, pos, pc, step>>
    BY <1>7
    DEF SlotStep, Lookup, CheckContext, StartRun, ListRunReturns, RunSucceeds, RunFails,
        Notify, Notified, StoreResult, TaskStep, registry, loop
  <2>2. task[s].pc # "done" /\ (s = 0 => (task[0].pc = "notify" => task'[0].pc = "notify"))
        /\ \A u \in Slots \ {s} : task'[u] = task[u]
    <3>1. task \in [Slots -> Task]
      BY DEF IInv, TypeOK
    <3>2. task[s].pc # "done" /\ (s = 0 => task[0].pc # "done")
      BY <1>7
      DEF SlotStep, Lookup, CheckContext, StartRun, ListRunReturns, RunSucceeds, RunFails,
          Notify, Notified, StoreResult
    <3>3. \A u \in Slots \ {s} : task'[u] = task[u]
      BY <1>7, <3>1
      DEF SlotStep, Lookup, CheckContext, StartRun, ListRunReturns, RunSucceeds, RunFails,
          Notify, Notified, StoreResult, TaskStep
    <3>4. ASSUME s = 0, task[0].pc = "notify"
          PROVE  task'[0].pc = "notify"
      <4>1. Notify(s)
        BY <1>7, <3>4, BoundsAssumption
        DEF SlotStep, Lookup, CheckContext, StartRun, ListRunReturns, RunSucceeds, RunFails,
            Notified, StoreResult
      <4>2. task[s] \in Task
        BY <3>1
      <4>3. [task[s] EXCEPT !.cb = @ + 1].pc = "notify"
        BY <3>4, <4>2 DEF Task
      <4> QED
        BY <3>1, <3>4, <4>1, <4>3 DEF Notify
    <3> QED
      BY <3>2, <3>3, <3>4
  <2>3. CASE InScenarios
    <3>1. PICK k \in 1 .. pos :
            /\ k \in DOMAIN Scenarios
            /\ p[1] = order[k]
            /\ p[2] \in DOMAIN ScAt(k).steps
            /\ k = pos => \/ pc \in {"steps", "step"} /\ p[2] < step
                          \/ pc = "wait" /\ task[p[2]].pc = "done"
      BY <2>3 DEF Past
    <3>2. p[2] \in Slots
      <4>1. Len(ScAt(k).steps) <= MaxSteps /\ Len(ScAt(k).steps) \in Nat
            /\ ScAt(k).steps \in Seq(Step)
        BY <2>3, <3>1, ConfigTyped DEF ScAt, IInv, LoopOK, TypeOK
      <4> QED
        BY <3>1, <4>1, BoundsAssumption DEF Slots
    <3>3. task[p[2]].pc = "done" => task'[p[2]].pc = "done"
      BY <2>2, <3>2
    <3> QED
      BY <2>1, <2>3, <3>1, <3>3 DEF Past, InScenarios, Scenarios, ScAt
  <2>4. CASE ~InScenarios
    <3>1. 0 \in Slots
      BY BoundsAssumption DEF Slots
    <3> QED
      BY <2>1, <2>2, <2>4, <3>1 DEF Past, InScenarios
  <2> QED
    BY <2>3, <2>4
<1> QED
  BY <1>2, <1>3, <1>4, <1>5, <1>6, <1>7 DEF Next, CallerStep

\* Calls in progress have different places.
LEMMA PlacesDiffer ==
  ASSUME IInv, NEW s \in Open, NEW u \in Open, Place(s) = Place(u)
  PROVE  s = u
<1>1. (s = 0 => pc = "exec") /\ (s # 0 => pc # "exec") /\ (u = 0 => pc = "exec") /\ (u # 0 => pc # "exec")
  BY SlotInUse DEF Open
<1> QED
  BY <1>1 DEF Place

LEMMA ResultPlaces ==
  ASSUME IInv
  PROVE  results \in Seq(Result) /\ \A i \in DOMAIN results : results[i].at \in Places
<1>1. results \in Seq(Result)
  BY DEF IInv, TypeOK
<1>2. \A i \in DOMAIN results : results[i] \in Result
  BY <1>1
<1> QED
  BY <1>1, <1>2 DEF Result

\* There is no result at the place of a call in progress, but for the list's,
\* which is stored before the callbacks.
LEMMA PlaceIsFree ==
  ASSUME IInv, AInv, PastOK,
         NEW s \in Slots, s \in Open \/ (s = 0 /\ pc = "list"),
         s = 0 => task[0].pc # "notify"
  PROVE  \A i \in DOMAIN results : results[i].at # Place(s)
<1> SUFFICES ASSUME NEW i \in DOMAIN results, results[i].at = Place(s)
             PROVE  FALSE
  OBVIOUS
<1>0. Past(Place(s)) /\ pos \in Nat /\ step \in Nat
  <2>1. results[i].at \in Places
    BY ResultPlaces
  <2> QED
    BY <2>1 DEF PastOK, IInv, TypeOK
<1>1. CASE s = 0
  <2>1. pc \in {"list", "exec"}
    BY <1>1, SlotInUse DEF Open
  <2> QED
    BY <1>0, <1>1, <2>1 DEF Past, Place
<1>2. CASE s # 0
  <2>1. pc \in {"step", "wait"} /\ InScenarios /\ task[s].pc # "done"
    BY <1>2, SlotInUse DEF Open, InScenarios
  <2>2. PICK k \in 1 .. pos :
          /\ k \in DOMAIN Scenarios
          /\ order[pos] = order[k]
          /\ k = pos => \/ pc \in {"steps", "step"} /\ s < step
                        \/ pc = "wait" /\ task[s].pc = "done"
    BY <1>0, <1>2, <2>1 DEF Past, Place
  <2>3. pos \in DOMAIN order /\ k \in DOMAIN order
    BY <2>1, <2>2 DEF IInv, LoopOK
  <2>4. k = pos
    BY <2>1, <2>2, <2>3 DEF AInv, ModeOK
  <2>5. pc = "step" => s = step
    BY <1>2, <2>1 DEF IInv, TasksOK, StructuredConcurrency, Busy, Open
  <2> QED
    BY <1>0, <2>1, <2>2, <2>4, <2>5
<1> QED
  BY <1>1, <1>2
\* Within a RunAll results are only added, at places of their own.
LEMMA ResultsGrow ==
  ASSUME IInv, [Next]_vars, ~Begin
  PROVE  \/ results' = results
         \/ \E s \in Slots, r \in Result :
              /\ results' = Append(results, r) /\ r.at = Place(s)
              /\ s \in Open \/ (s = 0 /\ pc = "list")
              /\ s = 0 => task[0].pc # "notify"
              /\ Past(r.at)'
<1>1. CASE Setup \/ Cancel \/ Finished \/ UNCHANGED vars
  BY <1>1 DEF Setup, Register, RegisterNamed, OnResult, Cancel, Finished, vars, ledger
<1>2. CASE ListCancelled \/ ListRun \/ ListNext \/ ListEnd \/ ScenarioDisabled \/ ScenarioSkipped
           \/ ForkSteps \/ BeginSteps \/ StepSkipped \/ CallStep \/ StepsEnd \/ JoinSteps
           \/ ScenariosEnd \/ RollbackOne \/ EndRollback
  BY <1>2 DEF ListCancelled, ListRun, ListNext, ListEnd, ScenarioDisabled, ScenarioSkipped, ForkSteps,
     BeginSteps, StepSkipped, CallStep, StepsEnd, JoinSteps, CloseScenario, ScenariosEnd, RollbackOne,
     EndRollback, ledger
<1>3. CASE ListDryRun
  <2>0. 0 \in Slots /\ pc = "list" /\ pos \in DOMAIN experiments
    BY <1>3, BoundsAssumption DEF ListDryRun, Slots, IInv, LoopOK, TypeOK
  <2>1. task[0] \in Task /\ task[0].pc = "none"
    BY <2>0, NoneBusy DEF IInv, TypeOK
  <2>2. Place(0) \in Places
    BY <2>0, BoundsAssumption DEF Place, Places, IInv, RegistryOK, TypeOK
  <2>3. PICK r \in Result : r = ResultAt(0, task[0], "dry")
    BY <2>0, <2>1, <2>2, ResultTyped DEF Outcomes
  <2>4. r.at = Place(0) /\ Place(0) = <<0, pos>>
    BY <2>3 DEF ResultAt, Place
  <2>5. pos' = pos /\ pc' = "exec"
    BY <1>3 DEF ListDryRun, loop
  <2>6. task'[0].pc = "notify"
    BY <1>3, <2>0 DEF ListDryRun, NoTask, IInv, TypeOK
  <2>7. Past(r.at)'
    BY <2>4, <2>5, <2>6 DEF Past, InScenarios
  <2> QED
    BY <1>3, <2>0, <2>1, <2>3, <2>4, <2>7 DEF ListDryRun
<1>4. CASE StepReturns
  <2>0. step \in Slots /\ step # 0 /\ step \in DOMAIN Sc.steps /\ task[step].pc = "return"
    BY <1>4, StepInSlots DEF StepReturns
  <2>1. task[step] \in Task /\ task[step].out \in Outcomes /\ step \in Open
    BY <2>0 DEF IInv, TypeOK, Task, Open
  <2>2. PICK r \in Result : r = ResultAt(step, task[step], task[step].out)
    BY <2>0, <2>1, SlotInUse, ResultTyped
  <2>3. r.at = Place(step) /\ Place(step) = <<order[pos], step>>
    BY <2>0, <2>2 DEF ResultAt, Place
  <2>4. pc' = "steps" /\ step' = step + 1 /\ UNCHANGED <<cfg, order, pos>>
    BY <1>4 DEF StepReturns, registry
  <2>5. pos \in 1 .. pos /\ pos \in DOMAIN Scenarios /\ step \in DOMAIN ScAt(pos).steps
        /\ step < step + 1
    BY <1>4, <2>0 DEF StepReturns, IInv, LoopOK, TypeOK, InScenarios, ScAt, Sc
  <2>6. Past(r.at)'
    BY <2>3, <2>4, <2>5 DEF Past, InScenarios, Scenarios, ScAt
  <2> QED
    BY <1>4, <2>0, <2>1, <2>2, <2>3, <2>6 DEF StepReturns
<1>5. ASSUME NEW s \in Slots, SlotStep(s)
      PROVE  \/ results' = results
             \/ \E r \in Result :
                  /\ results' = Append(results, r) /\ r.at = Place(s)
                  /\ s \in Open
                  /\ s = 0 => task[0].pc # "notify"
                  /\ Past(r.at)'
  <2>1. CASE StoreResult(s)
    <3>0. s # 0 /\ pc = "wait" /\ s \in DOMAIN Sc.steps /\ task[s].pc = "return"
      BY <2>1, SlotInUse DEF StoreResult
    <3>1. task[s] \in Task /\ task[s].out \in Outcomes /\ s \in Open
      BY <3>0 DEF IInv, TypeOK, Task, Open
    <3>2. PICK r \in Result : r = ResultAt(s, task[s], task[s].out)
      BY <3>0, <3>1, SlotInUse, ResultTyped
    <3>3. r.at = Place(s) /\ Place(s) = <<order[pos], s>>
      BY <3>0, <3>2 DEF ResultAt, Place
    <3>4. pc' = "wait" /\ UNCHANGED <<cfg, order, pos>> /\ task'[s].pc = "done"
      BY <2>1, <3>0, <3>1 DEF StoreResult, registry, IInv, TypeOK, Task
    <3>5. pos \in 1 .. pos /\ pos \in DOMAIN Scenarios /\ s \in DOMAIN ScAt(pos).steps
      BY <3>0 DEF IInv, LoopOK, TypeOK, InScenarios, ScAt, Sc
    <3>6. Past(r.at)'
      BY <3>3, <3>4, <3>5 DEF Past, InScenarios, Scenarios, ScAt
    <3> QED
      BY <2>1, <3>0, <3>1, <3>2, <3>3, <3>6 DEF StoreResult
  <2>2. ASSUME s = 0, NEW out \in {"ok", "fail"}, ListRunReturns(out)
        PROVE  \E r \in Result :
                  /\ results' = Append(results, r) /\ r.at = Place(s)
                  /\ s \in Open
                  /\ s = 0 => task[0].pc # "notify"
                  /\ Past(r.at)'
    <3>1. task[0] \in Task /\ out \in Outcomes /\ 0 \in Open /\ task[0].pc = "running"
      BY <2>2 DEF IInv, TypeOK, Outcomes, Open, ListRunReturns
    <3>0. Place(0) \in Places /\ pc = "exec"
      BY <2>2, <3>1, SlotInUse
    <3>2. PICK r \in Result : r = ResultAt(0, task[0], out)
      BY <2>2, <3>0, <3>1, ResultTyped
    <3>3. r.at = Place(0) /\ Place(0) = <<0, pos>>
      BY <3>2 DEF ResultAt, Place
    <3>4. UNCHANGED <<pc, pos>> /\ task'[0].pc = "notify"
      BY <2>2, <3>1 DEF ListRunReturns, loop, IInv, TypeOK, Task
    <3>5. Past(r.at)'
      BY <3>0, <3>3, <3>4 DEF Past, InScenarios
    <3> QED
      BY <2>2, <3>1, <3>2, <3>3, <3>5 DEF ListRunReturns
  <2>3. CASE Lookup(s) \/ CheckContext(s) \/ StartRun(s) \/ RunSucceeds(s) \/ RunFails(s)
             \/ Notify(s) \/ Notified(s)
    BY <2>3 DEF Lookup, CheckContext, StartRun, RunSucceeds, RunFails, Notify, Notified, TaskStep, ledger
  <2> QED
    BY <1>5, <2>1, <2>2, <2>3 DEF SlotStep
<1> QED
  BY <1>1, <1>2, <1>3, <1>4, <1>5 DEF Next, CallerStep

\* One result more, at a place that had none.
LEMMA OneMore ==
  ASSUME NEW r \in Result, results \in Seq(Result), results' = Append(results, r),
         \A i \in DOMAIN results : results[i].at # r.at
  PROVE  /\ Distinct => Distinct'
         /\ \A p : HasReported(p)' <=> HasReported(p) \/ (p = r.at /\ r.out \in Reported)
<1> DEFINE n == Len(results) + 1
<1>1. /\ n \in DOMAIN results' /\ results'[n] = r
      /\ \A i \in DOMAIN results : i \in DOMAIN results' /\ results'[i] = results[i]
      /\ \A i \in DOMAIN results' : i = n \/ i \in DOMAIN results
  OBVIOUS
<1> HIDE DEF n
<1>2. Distinct => Distinct'
  BY <1>1 DEF Distinct
<1>3. \A p : HasReported(p)' <=> HasReported(p) \/ (p = r.at /\ r.out \in Reported)
  BY <1>1 DEF HasReported, Reported
<1> QED
  BY <1>2, <1>3

LEMMA PlacesPreserved ==
  ASSUME IInv, AInv, PastOK, Distinct, [Next]_vars
  PROVE  PastOK' /\ Distinct'
<1>1. CASE Begin
  <2>1. results' = <<>> \/ (results' = results /\ pc' = "rollback")
    BY <1>1 DEF Begin, RefuseRun, BeginList, BeginScenarios, EnterRunAll, BeginRollback, ledger
  <2> QED
    BY <2>1 DEF PastOK, Past, Distinct, InScenarios
<1>2. CASE ~Begin
  <2>1. ASSUME NEW p \in Places, \E i \in DOMAIN results : results[i].at = p
        PROVE  Past(p)'
    BY <1>2, <2>1, PastStays DEF PastOK
  <2>2. CASE results' = results
    BY <2>1, <2>2 DEF PastOK, Distinct
  <2>3. CASE results' # results
    <3>1. PICK s \in Slots, r \in Result :
              /\ results' = Append(results, r) /\ r.at = Place(s)
              /\ s \in Open \/ (s = 0 /\ pc = "list")
              /\ s = 0 => task[0].pc # "notify"
              /\ Past(r.at)'
      BY <1>2, <2>3, ResultsGrow
    <3>2. \A i \in DOMAIN results : results[i].at # r.at
      BY <3>1, PlaceIsFree
    <3>3. Distinct'
      BY <3>1, <3>2, ResultPlaces, OneMore
    <3>4. \A i \in DOMAIN results' : results'[i] = r \/ \E j \in DOMAIN results : results'[i] = results[j]
      BY <3>1, ResultPlaces
    <3> QED
      BY <2>1, <3>1, <3>3, <3>4 DEF PastOK
  <2> QED
    BY <2>2, <2>3
<1> QED
  BY <1>1, <1>2
-----------------------------------------------------------------------------
(* The callbacks.                                                          *)

\* The forms a step may have: no call is in progress before or after it; calls
\* are begun, at places without a result; the task of one call changes; the
\* result of one call is stored and the call is over.
LEMMA FiredClosed ==
  ASSUME FiredOK, Open = {}, Open' = {}, task'[0].pc # "notify",
         UNCHANGED <<results, fired, callbacks>>, calls' = 0 => pc' = "idle" /\ results' = <<>>
  PROVE  FiredOK'
<1>1. \A p : HasReported(p)' <=> HasReported(p)
  BY DEF HasReported
<1> QED
  BY <1>1 DEF FiredOK

LEMMA FiredOpened ==
  ASSUME IInv, FiredOK, Open = {}, UNCHANGED <<results, fired, callbacks>>, calls' # 0,
         task'[0].pc # "notify",
         \A s \in Open' : /\ task'[s].pc \in {"lookup", "call"} /\ task'[s].cb = 0
                          /\ \E p \in Places : /\ p = Place(s)'
                                              /\ \A i \in DOMAIN results : results[i].at # p
  PROVE  FiredOK'
<1>1. \A p : HasReported(p)' <=> HasReported(p)
  BY DEF HasReported
<1>2. callbacks \in Nat
  BY DEF IInv, TypeOK
<1>3. ASSUME NEW s \in Open'
      PROVE  CalledBack(task[s])' /\ fired'[Place(s)'] = task'[s].cb
  <2>1. PICK p \in Places : p = Place(s)' /\ \A i \in DOMAIN results : results[i].at # p
    BY <1>3
  <2>2. ~HasReported(p)
    BY <2>1 DEF HasReported
  <2>3. fired[p] = 0
    BY <2>2 DEF FiredOK
  <2>4. task'[s].pc \in {"lookup", "call"} /\ task'[s].cb = 0
    BY <1>3
  <2> QED
    BY <1>2, <2>1, <2>3, <2>4 DEF CalledBack
<1>4. \A p \in Places : fired'[p] = IF HasReported(p)' THEN callbacks' ELSE 0
  BY <1>1 DEF FiredOK
<1> QED
  BY <1>3, <1>4 DEF FiredOK

LEMMA FiredMoved ==
  ASSUME IInv, FiredOK, NEW s \in Open, NEW u \in Task, task' = [task EXCEPT ![s] = u],
         UNCHANGED <<results, fired, callbacks, cfg, order, pos>>, calls' # 0,
         u.pc \notin {"none", "done"}, s = 0 => u.pc # "notify",
         u.cb = task[s].cb, CalledBack(u)
  PROVE  FiredOK'
<1>1. \A p : HasReported(p)' <=> HasReported(p)
  BY DEF HasReported
<1>2. s \in Slots /\ \A k \in Slots : task'[k] = IF k = s THEN u ELSE task[k]
  BY DEF IInv, TypeOK, Open
<1>3. Open' = Open
  BY <1>2 DEF Open
<1>4. \A k : Place(k)' = Place(k)
  BY DEF Place
<1>5. \A k \in Open : CalledBack(task[k])' /\ fired'[Place(k)'] = task'[k].cb
  <2> TAKE k \in Open
  <2>1. k \in Slots /\ CalledBack(task[k]) /\ fired[Place(k)] = task[k].cb
    BY DEF Open, FiredOK
  <2>2. CASE k = s
    BY <1>2, <1>4, <2>1, <2>2 DEF CalledBack
  <2>3. CASE k # s
    BY <1>2, <1>4, <2>1, <2>3 DEF CalledBack
  <2> QED
    BY <2>2, <2>3
<1>6. task'[0].pc = "notify" => HasReported(Place(0))'
  <2>1. 0 \in Slots
    BY BoundsAssumption DEF Slots
  <2>2. task'[0].pc = "notify" => HasReported(Place(0))
    BY <1>2, <2>1 DEF FiredOK
  <2> QED
    BY <2>2 DEF HasReported, Place
<1>7. \A p \in Places : (\A k \in Open' : p # Place(k)') =>
         fired'[p] = IF HasReported(p)' THEN callbacks' ELSE 0
  BY <1>1, <1>3, <1>4 DEF FiredOK
<1> QED
  BY <1>3, <1>5, <1>6, <1>7 DEF FiredOK

LEMMA FiredStored ==
  ASSUME IInv, FiredOK, NEW s \in Open, s # 0, task[s].pc = "return",
         NEW r \in Result, results' = Append(results, r), r.at = Place(s), r.out = task[s].out,
         \A i \in DOMAIN results : results[i].at # r.at,
         UNCHANGED <<fired, callbacks, cfg, order, pos>>, calls' # 0,
         s \notin Open', task'[0].pc # "notify",
         Open' \subseteq Open, \A k \in Open \ {s} : k \in Open' /\ task'[k] = task[k]
  PROVE  FiredOK'
<1>1. \A p : HasReported(p)' <=> HasReported(p) \/ (p = r.at /\ r.out \in Reported)
  BY ResultPlaces, OneMore
<1>2. \A k : Place(k)' = Place(k)
  BY DEF Place
<1>3. \A k \in Open' : CalledBack(task[k])' /\ fired'[Place(k)'] = task'[k].cb
  <2> TAKE k \in Open'
  <2>1. k \in Open \ {s} /\ task'[k] = task[k]
    OBVIOUS
  <2>2. CalledBack(task[k]) /\ fired[Place(k)] = task[k].cb
    BY <2>1 DEF FiredOK
  <2> QED
    BY <1>2, <2>1, <2>2 DEF CalledBack
<1>4. ASSUME NEW p \in Places, \A k \in Open' : p # Place(k)'
      PROVE  fired'[p] = IF HasReported(p)' THEN callbacks' ELSE 0
  <2>1. CASE p = r.at
    <3>1. ~HasReported(p)
      BY <2>1 DEF HasReported
    <3>2. fired[p] = IF r.out \in Reported THEN callbacks ELSE 0
      BY <2>1 DEF FiredOK, CalledBack
    <3> QED
      BY <1>1, <2>1, <3>1, <3>2
  <2>2. CASE p # r.at
    <3>1. \A k \in Open : p # Place(k)
      BY <1>2, <1>4, <2>2
    <3>2. fired[p] = IF HasReported(p) THEN callbacks ELSE 0
      BY <3>1 DEF FiredOK
    <3> QED
      BY <1>1, <2>2, <3>2
  <2> QED
    BY <2>1, <2>2
<1> QED
  BY <1>3, <1>4 DEF FiredOK
\* No step from here on in the scenario in progress has a result yet.
LEMMA StepsAhead ==
  ASSUME IInv, AInv, PastOK, pos \in DOMAIN Scenarios, NEW p \in Places, p[1] = order[pos],
         pc = "scenario" \/ (pc = "steps" /\ p[2] = step)
  PROVE  \A i \in DOMAIN results : results[i].at # p
<1> SUFFICES ASSUME NEW i \in DOMAIN results, results[i].at = p
             PROVE  FALSE
  OBVIOUS
<1>1. Past(p) /\ InScenarios /\ step \in Nat
  BY DEF PastOK, InScenarios, IInv, TypeOK
<1>2. PICK k \in 1 .. pos :
        /\ k \in DOMAIN Scenarios
        /\ p[1] = order[k]
        /\ k = pos => \/ pc \in {"steps", "step"} /\ p[2] < step
                      \/ pc = "wait" /\ task[p[2]].pc = "done"
  BY <1>1 DEF Past
<1>3. k \in DOMAIN order /\ pos \in DOMAIN order
  BY <1>1, <1>2 DEF IInv, LoopOK
<1>4. k = pos
  BY <1>1, <1>2, <1>3 DEF AInv, ModeOK
<1> QED
  BY <1>1, <1>2, <1>4

LEMMA StepPlace ==
  ASSUME NEW k \in 1 .. MaxScenarios, NEW s \in 1 .. MaxSteps
  PROVE  <<k, s>> \in Places
<1>1. k \in 0 .. MaxScenarios /\ s \in 1 .. MaxSteps + MaxRegistrations
  BY BoundsAssumption
<1> QED
  BY <1>1 DEF Places

LEMMA CallerFires ==
  ASSUME IInv, AInv, PastOK, Distinct, FiredOK,
         Setup \/ Cancel \/ Begin \/ CallerStep \/ Finished \/ UNCHANGED vars
  PROVE  FiredOK'
<1>0. 0 \in Slots
  BY BoundsAssumption DEF Slots
<1>1. CASE Setup
  <2>1. results = <<>> /\ pc = "idle" /\ UNCHANGED <<results, fired, task, pc>>
    BY <1>1 DEF Setup, Register, RegisterNamed, OnResult, FiredOK, ledger
  <2>2. Open = {} /\ Open' = {} /\ task'[0].pc # "notify"
    BY <1>0, <2>1, NoneBusy DEF Open
  <2>3. \A p \in Places : fired[p] = 0
    BY <2>1, <2>2 DEF FiredOK, HasReported
  <2> QED
    BY <2>1, <2>2, <2>3 DEF FiredOK, HasReported
<1>2. CASE Cancel \/ Finished \/ UNCHANGED vars
  BY <1>2 DEF Cancel, Finished, vars, FiredOK, Open, CalledBack, HasReported, Place, registry, loop, ledger
<1>3. CASE Begin
  <2>1. pc = "idle" /\ calls' = calls + 1 /\ calls \in Nat /\ task' = task /\ callbacks' = callbacks
    BY <1>3 DEF Begin, RefuseRun, BeginList, BeginScenarios, EnterRunAll, BeginRollback, registry,
       IInv, TypeOK
  <2>2. Open = {} /\ Open' = {} /\ task'[0].pc # "notify"
    BY <1>0, <2>1, NoneBusy DEF Open
  <2>3. CASE BeginRollback
    BY <2>1, <2>2, <2>3, FiredClosed DEF BeginRollback, ledger
  <2>4. CASE RefuseRun \/ BeginList \/ BeginScenarios
    <3>1. results' = <<>> /\ \A p \in Places : fired'[p] = 0
      BY <2>4 DEF RefuseRun, BeginList, BeginScenarios, EnterRunAll
    <3> QED
      BY <2>1, <2>2, <3>1 DEF FiredOK, HasReported
  <2> QED
    BY <1>3, <2>3, <2>4 DEF Begin
<1>4. CASE ListCancelled \/ ListEnd \/ ScenarioDisabled \/ ScenarioSkipped \/ BeginSteps \/ StepSkipped
           \/ StepsEnd \/ ScenariosEnd \/ RollbackOne \/ EndRollback
  <2>1. pc \in {"list", "scenario", "steps", "rollback"}
        /\ UNCHANGED <<callbacks, calls, task, results, fired>>
    BY <1>4 DEF ListCancelled, ListEnd, ScenarioDisabled, ScenarioSkipped, BeginSteps, StepSkipped,
       StepsEnd, CloseScenario, ScenariosEnd, RollbackOne, EndRollback, registry, ledger
  <2>2. Open = {} /\ Open' = {} /\ task'[0].pc # "notify"
    BY <1>0, <2>1, NoneBusy DEF Open
  <2>3. calls' # 0
    BY <2>1 DEF FiredOK
  <2> QED
    BY <2>1, <2>2, <2>3, FiredClosed
<1>5. CASE ListDryRun
  <2>1. pc = "list" /\ calls' # 0 /\ pos' = pos /\ UNCHANGED <<callbacks, fired>>
    BY <1>5 DEF ListDryRun, FiredOK, registry, loop
  <2>2. Open = {} /\ \A s \in Slots : task[s].pc = "none"
    BY <2>1, NoneBusy DEF Open
  <2>3. task[0] \in Task /\ pos \in DOMAIN experiments
    BY <1>0, <1>5 DEF ListDryRun, IInv, LoopOK, TypeOK
  <2>4. Place(0) \in Places
    BY <2>3, BoundsAssumption DEF Place, Places, IInv, RegistryOK, TypeOK
  <2>5. PICK r \in Result : r = ResultAt(0, task[0], "dry")
    BY <1>0, <2>3, <2>4, ResultTyped DEF Outcomes
  <2>6. r.at = Place(0) /\ r.out = "dry" /\ results' = Append(results, r)
    BY <1>5, <2>5 DEF ListDryRun, ResultAt
  <2>7. \A i \in DOMAIN results : results[i].at # r.at
    BY <1>0, <2>1, <2>2, <2>6, PlaceIsFree
  <2>8. \A p : HasReported(p)' <=> HasReported(p) \/ p = r.at
    BY <2>6, <2>7, ResultPlaces, OneMore DEF Reported
  <2>9. task'[0] = [NoTask EXCEPT !.pc = "notify", !.out = "dry"]
        /\ \A s \in Slots \ {0} : task'[s].pc = "none"
    BY <1>0, <1>5, <2>2 DEF ListDryRun, IInv, TypeOK
  <2>10. Open' = {0}
    BY <1>0, <2>9 DEF Open, NoTask
  <2>11. Place(0)' = r.at
    BY <2>1, <2>6 DEF Place
  <2>12. fired[r.at] = 0
    <3>1. ~HasReported(r.at)
      BY <2>7 DEF HasReported
    <3> QED
      BY <2>2, <2>4, <2>6, <3>1 DEF FiredOK
  <2>13. callbacks \in Nat
    BY DEF IInv, TypeOK
  <2>14. CalledBack(task[0])' /\ fired'[Place(0)'] = task'[0].cb
    BY <2>1, <2>9, <2>11, <2>12, <2>13 DEF CalledBack, NoTask, Reported
  <2>15. \A p \in Places : p # Place(0)' => fired'[p] = IF HasReported(p)' THEN callbacks' ELSE 0
    BY <2>1, <2>2, <2>8, <2>11 DEF FiredOK
  <2>16. HasReported(Place(0))'
    <3>1. HasReported(r.at)'
      BY <2>8
    <3> QED
      BY <2>11, <3>1 DEF HasReported
  <2> QED
    BY <2>1, <2>10, <2>14, <2>15, <2>16 DEF FiredOK
<1>6. CASE ListRun
  <2>1. pc = "list" /\ calls' # 0 /\ pos' = pos /\ UNCHANGED <<callbacks, fired, results>>
    BY <1>6 DEF ListRun, FiredOK, registry, loop, ledger
  <2>2. Open = {} /\ \A s \in Slots : task[s].pc = "none"
    BY <2>1, NoneBusy DEF Open
  <2>3. pos \in DOMAIN experiments
    BY <1>0, <1>6 DEF ListRun, IInv, LoopOK, TypeOK
  <2>4. Place(0) \in Places /\ Place(0)' = Place(0)
    BY <2>1, <2>3, BoundsAssumption DEF Place, Places, IInv, RegistryOK, TypeOK
  <2>5. \A i \in DOMAIN results : results[i].at # Place(0)
    BY <1>0, <2>1, <2>2, PlaceIsFree
  <2>6. task'[0] = [NoTask EXCEPT !.pc = "call"] /\ \A s \in Slots \ {0} : task'[s].pc = "none"
    BY <1>0, <1>6, <2>2 DEF ListRun, IInv, TypeOK
  <2>7. Open' = {0} /\ task'[0].pc = "call" /\ task'[0].cb = 0
    BY <1>0, <2>6 DEF Open, NoTask
  <2> QED
    BY <2>1, <2>2, <2>4, <2>5, <2>7, FiredOpened
<1>7. CASE ListNext
  <2>1. pc = "exec" /\ calls' # 0 /\ UNCHANGED <<callbacks, fired, results>> /\ task[0].pc = "notify"
        /\ task[0].cb = callbacks
    BY <1>7 DEF ListNext, FiredOK, registry, loop, ledger
  <2>2. Open = {0}
    BY <1>0, <2>1 DEF IInv, TasksOK, StructuredConcurrency, Busy, Open
  <2>3. task' = [task EXCEPT ![0] = NoTask] /\ task \in [Slots -> Task]
    BY <1>7 DEF ListNext, IInv, TypeOK
  <2>4. Open' = {} /\ task'[0].pc # "notify"
    BY <1>0, <2>2, <2>3 DEF Open, NoTask
  <2>5. \A p \in Places : fired[p] = IF HasReported(p) THEN callbacks ELSE 0
    <3> TAKE p \in Places
    <3>1. CASE p = Place(0)
      BY <2>1, <2>2, <3>1 DEF FiredOK
    <3>2. CASE p # Place(0)
      BY <2>2, <3>2 DEF FiredOK
    <3> QED
      BY <3>1, <3>2
  <2> QED
    BY <2>1, <2>4, <2>5 DEF FiredOK, HasReported
<1>8. CASE ForkSteps
  <2>1. pc = "scenario" /\ calls' # 0 /\ UNCHANGED <<callbacks, fired, results, cfg, order, pos>>
    BY <1>8 DEF ForkSteps, FiredOK, registry, ledger
  <2>2. Open = {}
    BY <2>1, NoneBusy DEF Open
  <2>3. pos \in DOMAIN Scenarios /\ order[pos] \in DOMAIN Scenarios
    BY <1>8, ConfigTyped DEF ForkSteps, IInv, LoopOK, InScenarios, TypeOK
  <2>4. Sc.steps \in Seq(Step) /\ Len(Sc.steps) \in Nat /\ Len(Sc.steps) <= MaxSteps
        /\ order[pos] \in 1 .. MaxScenarios
    BY <2>3, ConfigTyped, BoundsAssumption DEF Sc, IInv, TypeOK
  <2>5. \A s \in Slots : task'[s] = IF s \in DOMAIN Sc.steps
                                    THEN [NoTask EXCEPT !.pc = "lookup"] ELSE NoTask
    BY <1>8 DEF ForkSteps
  <2>6. Open' = DOMAIN Sc.steps /\ task'[0].pc # "notify"
        /\ \A s \in Open' : task'[s].pc = "lookup" /\ task'[s].cb = 0
    <3>1. DOMAIN Sc.steps \subseteq Slots \ {0}
      BY <2>4, BoundsAssumption DEF Slots
    <3> QED
      BY <1>0, <2>5, <3>1 DEF Open, NoTask
  <2>7. ASSUME NEW s \in Open'
        PROVE  \E p \in Places : p = Place(s)' /\ \A i \in DOMAIN results : results[i].at # p
    <3>1. s \in DOMAIN Sc.steps /\ s # 0 /\ s \in 1 .. MaxSteps
      BY <2>4, <2>6, <2>7, BoundsAssumption
    <3>2. PICK p \in Places : p = <<order[pos], s>>
      BY <2>4, <3>1, StepPlace
    <3>3. p = Place(s)'
      BY <2>1, <3>1, <3>2 DEF Place
    <3>4. \A i \in DOMAIN results : results[i].at # p
      BY <2>1, <2>3, <3>2, StepsAhead
    <3> QED
      BY <3>3, <3>4
  <2> QED
    BY <2>1, <2>2, <2>6, <2>7, FiredOpened
<1>9. CASE CallStep
  <2>1. pc = "steps" /\ calls' # 0 /\ UNCHANGED <<callbacks, fired, results, cfg, order, pos, step>>
    BY <1>9 DEF CallStep, FiredOK, registry, loop, ledger
  <2>2. Open = {} /\ \A s \in Slots : task[s].pc = "none"
    BY <2>1, NoneBusy DEF Open
  <2>3. step \in Slots /\ step # 0 /\ pos \in DOMAIN Scenarios /\ order[pos] \in 1 .. MaxScenarios
    BY <1>9, <2>1, StepInSlots, ScenarioInProgress DEF CallStep, IInv, LoopOK
  <2>4. \A s \in Slots : task'[s] = IF s = step THEN [NoTask EXCEPT !.pc = "lookup"] ELSE task[s]
    BY <1>9, <2>3 DEF CallStep, IInv, TypeOK
  <2>5. Open' = {step} /\ task'[0].pc # "notify" /\ task'[step].pc = "lookup" /\ task'[step].cb = 0
    BY <1>0, <2>2, <2>3, <2>4 DEF Open, NoTask
  <2>6. PICK p \in Places : p = <<order[pos], step>>
    <3>1. step \in 1 .. MaxSteps
      BY <2>3, BoundsAssumption DEF Slots
    <3> QED
      BY <2>3, <3>1, StepPlace
  <2>7. \A s \in Open' : p = Place(s)'
    BY <2>1, <2>3, <2>5, <2>6 DEF Place
  <2>8. \A i \in DOMAIN results : results[i].at # p
    BY <2>1, <2>3, <2>6, StepsAhead
  <2> QED
    BY <2>1, <2>2, <2>5, <2>7, <2>8, FiredOpened
<1>10. CASE StepReturns
  <2>1. pc = "step" /\ calls' # 0 /\ UNCHANGED <<callbacks, fired, cfg, order, pos>>
        /\ task[step].pc = "return"
    BY <1>10 DEF StepReturns, FiredOK, registry
  <2>2. step \in Slots /\ step # 0 /\ step \in Open /\ task[step] \in Task
    BY <2>1, StepInSlots DEF Open, IInv, TypeOK
  <2>3. Open = {step} /\ \A s \in Slots \ {step} : task[s].pc = "none"
    BY <2>1, <2>2 DEF Open, IInv, TasksOK, StructuredConcurrency, Busy
  <2>4. \A s \in Slots : task'[s] = IF s = step THEN NoTask ELSE task[s]
    BY <1>10, <2>2 DEF StepReturns, IInv, TypeOK
  <2>5. Open' = {} /\ task'[0].pc # "notify"
    BY <1>0, <2>2, <2>3, <2>4 DEF Open, NoTask
  <2>6. PICK r \in Result : r = ResultAt(step, task[step], task[step].out)
    BY <2>1, <2>2, SlotInUse, ResultTyped DEF Task
  <2>7. r.at = Place(step) /\ r.out = task[step].out /\ results' = Append(results, r)
    BY <1>10, <2>6 DEF StepReturns, ResultAt
  <2>8. \A i \in DOMAIN results : results[i].at # r.at
    BY <2>2, <2>7, PlaceIsFree
  <2> QED
    BY <2>1, <2>2, <2>3, <2>5, <2>7, <2>8, FiredStored
<1>11. CASE JoinSteps
  <2>1. pc = "wait" /\ calls' # 0 /\ UNCHANGED <<callbacks, fired, results>>
        /\ \A s \in DOMAIN Sc.steps : task[s].pc = "done"
    BY <1>11 DEF JoinSteps, CloseScenario, FiredOK, registry, ledger
  <2>2. Open = {}
    BY <2>1 DEF Open, IInv, TasksOK, StructuredConcurrency, Busy
  <2>3. Open' = {} /\ task'[0].pc # "notify"
    BY <1>0, <1>11 DEF JoinSteps, Open, NoTask
  <2> QED
    BY <2>1, <2>2, <2>3, FiredClosed
<1> QED
  BY <1>1, <1>2, <1>3, <1>4, <1>5, <1>6, <1>7, <1>8, <1>9, <1>10, <1>11 DEF CallerStep
LEMMA SlotFires ==
  ASSUME IInv, AInv, PastOK, Distinct, FiredOK, NEW s \in Slots, SlotStep(s)
  PROVE  FiredOK'
<1> DEFINE t == task[s]
<1>0. 0 \in Slots
  BY BoundsAssumption DEF Slots
<1>1. t \in Task /\ task \in [Slots -> Task] /\ callbacks \in Nat /\ fired \in [Places -> Nat]
  BY DEF IInv, TypeOK
<1>2. t.pc \notin {"none", "done"} /\ s \in Open
  BY DEF SlotStep, Lookup, CheckContext, StartRun, ListRunReturns, RunSucceeds, RunFails,
      Notify, Notified, StoreResult, Open
<1>3. UNCHANGED <<cfg, order, pos, callbacks, calls, pc>>
  BY DEF SlotStep, Lookup, CheckContext, StartRun, ListRunReturns, RunSucceeds, RunFails,
      Notify, Notified, StoreResult, TaskStep, registry, loop
<1>4. calls' # 0 /\ CalledBack(t) /\ fired[Place(s)] = t.cb /\ Place(s) \in Places
  <2>1. pc # "idle"
    BY <1>2, SlotInUse
  <2> QED
    BY <1>2, <1>3, <2>1, SlotInUse DEF FiredOK
<1>5. \A o \in {"ok", "fail", "dry", "unknown", "cancelled"} : o \in Outcomes
  BY DEF Outcomes
<1>6. \A p \in {"lookup", "check", "call", "running", "notify", "return", "done"} : p \in TaskPC
  BY DEF TaskPC
<1>7. s = 0 => t.pc \in {"none", "call", "running", "notify"}
  BY DEF IInv, TasksOK
\* the actions that only change the task
<1>8. ASSUME NEW u \in Task, TaskStep(s, u), u.pc \notin {"none", "done"}, s = 0 => u.pc # "notify",
             u.cb = t.cb, CalledBack(u)
      PROVE  FiredOK'
  <2>1. task' = [task EXCEPT ![s] = u] /\ UNCHANGED <<results, fired>>
    BY <1>8 DEF TaskStep, ledger
  <2> QED
    BY <1>2, <1>3, <1>4, <1>8, <2>1, FiredMoved
<1>9. CASE Lookup(s)
  <2>1. PICK u \in Task : TaskStep(s, u) /\ u.pc \in {"return", "check"} /\ u.cb = t.cb
                           /\ (u.pc = "return" => u.out = "unknown")
    <3>1. [t EXCEPT !.pc = "return", !.out = "unknown"] \in Task /\ [t EXCEPT !.pc = "check"] \in Task
      BY <1>1, <1>5, <1>6, TaskPC_Typed, TaskOut_Typed
    <3> QED
      BY <1>1, <1>9, <3>1 DEF Lookup, Task
  <2>2. t.cb = 0
    BY <1>4, <1>9 DEF Lookup, CalledBack
  <2> QED
    BY <1>1, <1>8, <2>1, <2>2 DEF CalledBack, Reported
<1>10. CASE CheckContext(s)
  <2>1. PICK u \in Task : TaskStep(s, u) /\ u.cb = t.cb /\ u.pc \in {"return", "notify", "call"}
                           /\ (u.pc = "return" => u.out = "cancelled") /\ (u.pc = "notify" => u.out = "dry")
    <3>1. [t EXCEPT !.pc = "return", !.out = "cancelled"] \in Task
          /\ [t EXCEPT !.pc = "notify", !.out = "dry"] \in Task /\ [t EXCEPT !.pc = "call"] \in Task
      BY <1>1, <1>5, <1>6, TaskPC_Typed, TaskOut_Typed
    <3> QED
      BY <1>1, <1>10, <3>1 DEF CheckContext, Task
  <2>2. t.cb = 0 /\ s # 0
    BY <1>4, <1>7, <1>10 DEF CheckContext, CalledBack
  <2> QED
    BY <1>1, <1>8, <2>1, <2>2 DEF CalledBack, Reported
<1>11. CASE StartRun(s)
  <2>1. PICK u \in Task : TaskStep(s, u) /\ u.cb = t.cb /\ u.pc = "running"
    <3>1. [t EXCEPT !.pc = "running"] \in Task
      BY <1>1, <1>6, TaskPC_Typed
    <3> QED
      BY <1>1, <1>11, <3>1 DEF StartRun, Task
  <2>2. t.cb = 0
    BY <1>4, <1>11 DEF StartRun, CalledBack
  <2> QED
    BY <1>1, <1>8, <2>1, <2>2 DEF CalledBack
<1>12. ASSUME s = 0, NEW out \in {"ok", "fail"}, ListRunReturns(out)
       PROVE  FiredOK'
  <2>1. t.pc = "running" /\ t.cb = 0 /\ fired[Place(0)] = 0 /\ fired' = fired
    BY <1>4, <1>12 DEF ListRunReturns, CalledBack
  <2>2. PICK r \in Result : r = ResultAt(0, t, out)
    BY <1>1, <1>4, <1>5, <1>12, ResultTyped
  <2>3. r.at = Place(0) /\ r.out \in Reported /\ results' = Append(results, r)
    BY <1>12, <2>2 DEF ListRunReturns, ResultAt, Reported
  <2>4. \A i \in DOMAIN results : results[i].at # r.at
    BY <1>2, <1>12, <2>1, <2>3, PlaceIsFree
  <2>5. \A p : HasReported(p)' <=> HasReported(p) \/ p = r.at
    BY <2>3, <2>4, ResultPlaces, OneMore
  <2>6. task'[0] = [t EXCEPT !.pc = "notify", !.out = out] /\ \A k \in Slots \ {0} : task'[k] = task[k]
    BY <1>0, <1>1, <1>12 DEF ListRunReturns
  <2>7. task'[0].cb = 0 /\ task'[0].pc = "notify" /\ task'[0].out \in Reported
    BY <1>1, <1>12, <2>1, <2>6 DEF Task, Reported
  <2>8. Open = {0} /\ Open' = {0}
    <3>1. pc = "exec"
      BY <1>2, <1>12, SlotInUse
    <3>2. \A k \in Slots \ {0} : task[k].pc = "none"
      BY <3>1 DEF IInv, TasksOK, StructuredConcurrency, Busy
    <3>3. 0 \in Open /\ Open \subseteq {0}
      BY <1>2, <1>12, <3>2 DEF Open
    <3>4. \A k \in Slots \ {0} : task'[k].pc = "none"
      BY <2>6, <3>2
    <3>5. 0 \in Open' /\ Open' \subseteq {0}
      BY <1>0, <2>7, <3>4 DEF Open
    <3> QED
      BY <3>3, <3>5
  <2>9. Place(0)' = r.at
    BY <1>3, <2>3 DEF Place
  <2>10. CalledBack(task[0])' /\ fired'[Place(0)'] = task'[0].cb
    BY <1>1, <1>3, <2>1, <2>3, <2>7, <2>9 DEF CalledBack
  <2>11. HasReported(Place(0))'
    <3>1. HasReported(r.at)'
      BY <2>5
    <3> QED
      BY <2>9, <3>1 DEF HasReported
  <2>12. \A p \in Places : p # Place(0)' => fired'[p] = IF HasReported(p)' THEN callbacks' ELSE 0
    BY <1>3, <2>1, <2>3, <2>5, <2>8, <2>9 DEF FiredOK
  <2> QED
    BY <1>4, <2>8, <2>10, <2>11, <2>12 DEF FiredOK
<1>13. CASE RunSucceeds(s) \/ RunFails(s)
  <2>1. PICK u \in Task : TaskStep(s, u) /\ u.cb = t.cb /\ u.pc \in {"check", "notify"}
                           /\ (u.pc = "notify" => u.out \in {"ok", "fail"})
    <3>1. [t EXCEPT !.pc = "check", !.attempt = @ + 1] \in Task
          /\ [t EXCEPT !.pc = "notify", !.out = "ok"] \in Task
          /\ [t EXCEPT !.pc = "notify", !.out = "fail"] \in Task
      BY <1>1, <1>5, <1>6, TaskRetried_Typed, TaskOut_Typed
    <3>2. CASE RunSucceeds(s)
      BY <1>1, <3>1, <3>2 DEF RunSucceeds, Task
    <3>3. CASE RunFails(s)
      BY <1>1, <3>1, <3>3 DEF RunFails, Task
    <3> QED
      BY <1>13, <3>2, <3>3
  <2>2. t.cb = 0 /\ s # 0
    BY <1>4, <1>13 DEF RunSucceeds, RunFails, CalledBack
  <2> QED
    BY <1>1, <1>8, <2>1, <2>2 DEF CalledBack, Reported
<1>14. CASE Notify(s)
  <2>1. t.pc = "notify" /\ t.cb < callbacks /\ results' = results
        /\ fired' = [fired EXCEPT ![Place(s)] = @ + 1]
    BY <1>14 DEF Notify
  <2>2. PICK u \in Task : u = [t EXCEPT !.cb = @ + 1]
    BY <1>1, TaskCalled_Typed
  <2>3. u.pc = "notify" /\ u.cb = t.cb + 1 /\ u.out = t.out /\ t.cb \in Nat
    BY <1>1, <2>1, <2>2 DEF Task
  <2>4. \A k \in Slots : task'[k] = IF k = s THEN u ELSE task[k]
    BY <1>1, <1>14, <2>2 DEF Notify
  <2>5. Open' = Open /\ \A k : Place(k)' = Place(k)
    BY <1>2, <1>3, <2>3, <2>4 DEF Open, Place
  <2>6. \A p \in Places : fired'[p] = IF p = Place(s) THEN fired[p] + 1 ELSE fired[p]
    BY <1>1, <2>1
  <2>7. \A p : HasReported(p)' <=> HasReported(p)
    BY <2>1 DEF HasReported
  <2>8. ASSUME NEW k \in Open
        PROVE  CalledBack(task[k])' /\ fired'[Place(k)'] = task'[k].cb
    <3>1. k \in Slots /\ Place(k) \in Places /\ CalledBack(task[k]) /\ fired[Place(k)] = task[k].cb
      BY SlotInUse DEF Open, FiredOK
    <3>2. CASE k = s
      <4>1. fired'[Place(k)'] = task'[k].cb
        BY <1>4, <2>3, <2>4, <2>5, <2>6, <3>1, <3>2
      <4>2. CalledBack(task[k])'
        BY <1>1, <1>3, <1>4, <2>1, <2>3, <2>4, <3>1, <3>2 DEF CalledBack
      <4> QED
        BY <4>1, <4>2
    <3>3. CASE k # s
      <4>1. Place(k) # Place(s)
        BY <1>2, <3>3, PlacesDiffer
      <4> QED
        BY <1>3, <2>4, <2>5, <2>6, <3>1, <3>3, <4>1 DEF CalledBack
    <3> QED
      BY <3>2, <3>3
  <2>9. task'[0].pc = "notify" => HasReported(Place(0))'
    <3>1. task'[0].pc = "notify" => HasReported(Place(0))
      BY <1>0, <2>1, <2>4 DEF FiredOK
    <3> QED
      BY <2>1, <2>5, <3>1 DEF HasReported
  <2>10. \A p \in Places : (\A k \in Open' : p # Place(k)') =>
           fired'[p] = IF HasReported(p)' THEN callbacks' ELSE 0
    BY <1>2, <1>3, <2>5, <2>6, <2>7 DEF FiredOK
  <2> QED
    BY <1>4, <2>5, <2>8, <2>9, <2>10 DEF FiredOK
<1>15. CASE Notified(s)
  <2>1. t.pc = "notify" /\ t.cb = callbacks /\ s # 0 /\ t.out \in Reported
    BY <1>4, <1>15 DEF Notified, CalledBack
  <2>2. PICK u \in Task : TaskStep(s, u) /\ u.cb = t.cb /\ u.pc = "return" /\ u.out = t.out
    <3>1. [t EXCEPT !.pc = "return"] \in Task
      BY <1>1, <1>6, TaskPC_Typed
    <3> QED
      BY <1>1, <1>15, <3>1 DEF Notified, Task
  <2>3. CalledBack(u)
    BY <1>1, <2>1, <2>2 DEF CalledBack
  <2> QED
    BY <1>8, <2>2, <2>3
<1>16. CASE StoreResult(s)
  <2>1. t.pc = "return" /\ s # 0 /\ fired' = fired
    BY <1>7, <1>16 DEF StoreResult
  <2>2. PICK r \in Result : r = ResultAt(s, t, t.out)
    BY <1>1, <1>4, ResultTyped DEF Task
  <2>3. r.at = Place(s) /\ r.out = t.out /\ results' = Append(results, r)
    BY <1>16, <2>2 DEF StoreResult, ResultAt
  <2>4. \A i \in DOMAIN results : results[i].at # r.at
    BY <1>2, <2>1, <2>3, PlaceIsFree
  <2>5. task'[s].pc = "done" /\ \A k \in Slots \ {s} : task'[k] = task[k]
    BY <1>1, <1>16 DEF StoreResult, Task
  <2>6. s \notin Open' /\ Open' \subseteq Open /\ \A k \in Open \ {s} : k \in Open' /\ task'[k] = task[k]
    BY <2>5 DEF Open
  <2>7. task'[0].pc # "notify"
    <3>1. pc = "wait"
      BY <1>16 DEF StoreResult
    <3>2. task[0].pc = "none"
      BY <1>0, <3>1, SlotInUse
    <3> QED
      BY <1>0, <2>1, <2>5, <3>2
  <2> QED
    BY <1>2, <1>3, <1>4, <2>1, <2>3, <2>4, <2>6, <2>7, FiredStored
<1> QED
  BY <1>9, <1>10, <1>11, <1>12, <1>13, <1>14, <1>15, <1>16 DEF SlotStep

\* The places of the results and the callbacks made, in every state.
THEOREM PlacesInvariance == SafeEngine => []PInv
<1>1. Init => PInv
  <2> SUFFICES ASSUME Init
               PROVE  PInv
    OBVIOUS
  <2>1. Open = {} /\ task[0].pc # "notify"
    BY BoundsAssumption DEF Init, Open, NoTask, Slots
  <2> QED
    BY <2>1 DEF Init, PInv, PastOK, Distinct, FiredOK, HasReported
<1>2. IInv /\ AInv /\ PInv /\ [Next]_vars => PInv'
  <2> SUFFICES ASSUME IInv, AInv, PInv, [Next]_vars
               PROVE  PInv'
    OBVIOUS
  <2>1. PastOK' /\ Distinct'
    BY PlacesPreserved DEF PInv
  <2>2. FiredOK'
    BY CallerFires, SlotFires DEF PInv, Next
  <2> QED
    BY <2>1, <2>2 DEF PInv
<1> QED
  BY <1>1, <1>2, Invariance, ReturnedInvariance, PTL DEF SafeEngine

\* With nobody at work, who was to report has.
LEMMA CallbacksFollow == IInv /\ PInv => CallbacksMatchResults
<1> SUFFICES ASSUME IInv, PInv, pc = "idle"
             PROVE  CallbacksMatchResults
  BY DEF CallbacksMatchResults
<1>1. Open = {}
  BY NoneBusy DEF Open
<1>2. \A p \in Places : fired[p] = IF HasReported(p) THEN callbacks ELSE 0
  BY <1>1 DEF PInv, FiredOK
<1>3. \A i \in DOMAIN results : results[i].at \in Places
  <2>1. results \in Seq(Result)
    BY DEF IInv, TypeOK
  <2>2. \A i \in DOMAIN results : results[i] \in Result
    BY <2>1
  <2> QED
    BY <2>2 DEF Result
<1>4. ASSUME NEW i \in DOMAIN results, results[i].out \in Reported
      PROVE  fired[results[i].at] = callbacks
  BY <1>2, <1>3, <1>4 DEF HasReported
<1>5. ASSUME NEW p \in Places, fired[p] > 0
      PROVE  fired[p] = callbacks /\ HasReported(p)
  BY <1>2, <1>5
<1> QED
  BY <1>4, <1>5 DEF HasReported, CallbacksMatchResults

\* When no RunAll is on, the callbacks were called once each for the results
\* that are a success, a failure or a dry run, and for nothing that did not run.
THEOREM CallbacksAreExact == Spec => []CallbacksMatchResults
<1>1. IInv /\ PInv => CallbacksMatchResults
  BY CallbacksFollow
<1> QED
  BY <1>1, Invariance, PlacesInvariance, PTL DEF Spec, SafeEngine

-----------------------------------------------------------------------------
(* Least and greatest elements, and the recursive definition of Passed.    *)

\* Among subsets of a finite set there is one that includes no other.
LEMMA SmallestSet ==
  ASSUME NEW N, IsFiniteSet(N), NEW T, T \subseteq SUBSET N, T # {}
  PROVE  \E U \in T : \A V \in T : V \subseteq U => V = U
<1>1. IsWellFoundedOn(StrictSubsetOrdering(N), FiniteSubsetsOf(N))
  BY FS_StrictSubsetOrderingWellFounded
<1>2. FiniteSubsetsOf(N) = SUBSET N
  BY FS_FiniteSubsetsOfFinite
<1>3. \E U \in T : \A V \in T : ~(<<V, U>> \in StrictSubsetOrdering(N))
  BY <1>1, <1>2, WFMin
<1> QED
  BY <1>3 DEF StrictSubsetOrdering

\* A bounded set of numbers has a least and a greatest element.
LEMMA LeastOf ==
  ASSUME NEW n \in Nat, NEW S, S \subseteq 0 .. n, S # {}
  PROVE  \E m \in S : \A i \in S : m <= i
<1> DEFINE N == 0 .. n
           T == {0 .. m : m \in S}
<1>1. IsFiniteSet(N)
  BY FS_Interval
<1>2. T \subseteq SUBSET N /\ T # {}
  <2>1. ASSUME NEW m \in S
        PROVE  0 .. m \in SUBSET (0 .. n)
    <3>1. m \in 0 .. n /\ m <= n
      OBVIOUS
    <3> QED
      BY <3>1
  <2>2. S # {}
    OBVIOUS
  <2> QED
    BY <2>1, <2>2
<1>3. PICK U \in T : \A V \in T : V \subseteq U => V = U
  <2> HIDE DEF T, N
  <2> QED
    BY <1>1, <1>2, SmallestSet
<1>4. PICK m \in S : U = 0 .. m
  OBVIOUS
<1>5. ASSUME NEW i \in S, i < m
      PROVE  FALSE
  <2>1. 0 .. i \in T /\ 0 .. i \subseteq U /\ m \in U /\ m \notin 0 .. i
    BY <1>4, <1>5
  <2> QED
    BY <1>3, <2>1
<1> QED
  BY <1>5

LEMMA GreatestOf ==
  ASSUME NEW n \in Nat, NEW S, S \subseteq 0 .. n, S # {}
  PROVE  \E m \in S : \A i \in S : i <= m
<1> DEFINE T == {n - i : i \in S}
<1>1. T \subseteq 0 .. n /\ T # {}
  <2>1. \A i \in S : n - i \in 0 .. n
    OBVIOUS
  <2> QED
    BY <2>1
<1>2. PICK t \in T : \A u \in T : t <= u
  <2> HIDE DEF T
  <2> QED
    BY <1>1, LeastOf
<1>3. PICK m \in S : t = n - m
  OBVIOUS
<1>4. \A i \in S : n - m <= n - i
  BY <1>2, <1>3
<1> QED
  BY <1>4

\* Gates that open if a condition holds and the gates they name are open are
\* well defined: the greatest set of gates that may be open together is open.
LEMMA GatesExist ==
  ASSUME NEW D, NEW A \in [D -> BOOLEAN], NEW B \in [D -> SUBSET D]
  PROVE  \E f : f = [k \in D |-> A[k] /\ \A j \in B[k] : f[j]]
<1> DEFINE Closed(W) == \A k \in W : A[k] /\ B[k] \subseteq W
           W == UNION {V \in SUBSET D : Closed(V)}
           f == [k \in D |-> k \in W]
<1>1. W \subseteq D /\ Closed(W)
  OBVIOUS
<1>2. ASSUME NEW k \in D, A[k], B[k] \subseteq W
      PROVE  k \in W
  <2>1. W \cup {k} \in SUBSET D /\ Closed(W \cup {k})
    <3> HIDE DEF W
    <3> QED
      BY <1>1, <1>2
  <2> QED
    BY <2>1
<1>3. \A k \in D : (k \in W) <=> (A[k] /\ \A j \in B[k] : j \in W)
  <2> HIDE DEF W
  <2> QED
    BY <1>1, <1>2
<1>4. \A k \in D : f[k] = (A[k] /\ \A j \in B[k] : f[j])
  <2>1. \A k \in D : f[k] = (k \in W)
    OBVIOUS
  <2>2. \A k \in D : \A j \in B[k] : j \in D
    OBVIOUS
  <2> HIDE DEF W, f
  <2> TAKE k \in D
  <2>3. (\A j \in B[k] : f[j]) <=> (\A j \in B[k] : j \in W)
    BY <2>1, <2>2
  <2>4. (k \in W) = (A[k] /\ \A j \in B[k] : j \in W)
    BY <1>3
  <2> QED
    BY <2>1, <2>3, <2>4
<1>5. f = [k \in D |-> A[k] /\ \A j \in B[k] : f[j]]
  BY <1>4
<1> QED
  BY <1>5


\* The latest scenario of a name is one that came before.
LEMMA LatestIsBefore ==
  ASSUME NEW p, NEW k \in Nat \ {0}
  PROVE  /\ LatestNamed(p, k) \in 0 .. k - 1
         /\ \A j \in 1 .. k - 1 : ScAt(j).enabled /\ ScAt(j).name = p =>
              /\ j <= LatestNamed(p, k)
              /\ ScAt(LatestNamed(p, k)).enabled /\ ScAt(LatestNamed(p, k)).name = p
         /\ LatestNamed(p, k) # 0 =>
              ScAt(LatestNamed(p, k)).enabled /\ ScAt(LatestNamed(p, k)).name = p
<1> DEFINE before == {j \in 1 .. k - 1 : ScAt(j).enabled /\ ScAt(j).name = p}
           L == LatestNamed(p, k)
<1>1. CASE before = {}
  <2>1. L = 0
    BY <1>1 DEF LatestNamed
  <2> QED
    BY <1>1, <2>1
<1>2. CASE before # {}
  <2>1. L = CHOOSE j \in before : \A i \in before : i <= j
    BY <1>2 DEF LatestNamed
  <2>2. \E j \in before : \A i \in before : i <= j
    <3>1. before \subseteq 0 .. k
      OBVIOUS
    <3> HIDE DEF before
    <3> QED
      BY <1>2, <3>1, GreatestOf
  <2>3. L \in before /\ \A i \in before : i <= L
    <3> HIDE DEF before
    <3> QED
      BY <2>1, <2>2
  <2>4. L \in 1 .. k - 1 /\ ScAt(L).enabled /\ ScAt(L).name = p
    <3> HIDE DEF L
    <3> QED
      BY <2>3
  <2>5. \A j \in 1 .. k - 1 : ScAt(j).enabled /\ ScAt(j).name = p => j <= L
    <3> HIDE DEF L
    <3> QED
      BY <2>3
  <2> HIDE DEF before
  <2> QED
    BY <2>4, <2>5
<1> QED
  BY <1>1, <1>2

LEMMA LatestNext ==
  ASSUME NEW p, NEW k \in Nat \ {0}
  PROVE  LatestNamed(p, k + 1) = IF ScAt(k).enabled /\ ScAt(k).name = p THEN k
                                 ELSE LatestNamed(p, k)
<1> DEFINE L == LatestNamed(p, k)
           M == LatestNamed(p, k + 1)
           Is(j) == ScAt(j).enabled /\ ScAt(j).name = p
<1>1. L \in 0 .. k - 1 /\ (\A j \in 1 .. k - 1 : Is(j) => j <= L /\ Is(L)) /\ (L # 0 => Is(L))
  BY LatestIsBefore
<1>2. M \in 0 .. k /\ (\A j \in 1 .. k : Is(j) => j <= M /\ Is(M)) /\ (M # 0 => Is(M))
  <2>1. k + 1 \in Nat \ {0} /\ (k + 1) - 1 = k
    OBVIOUS
  <2> QED
    BY <2>1, LatestIsBefore
<1> HIDE DEF L, M, Is
<1>3. k \in 1 .. k /\ 1 .. k - 1 \subseteq 1 .. k
  OBVIOUS
<1>4. CASE Is(k)
  <2>1. k <= M
    BY <1>2, <1>3, <1>4
  <2> QED
    BY <1>2, <1>4, <2>1 DEF L, M, Is
<1>5. CASE ~Is(k)
  <2>1. M = L
    <3>1. M # k
      BY <1>2, <1>5
    <3>2. M # 0 => M \in 1 .. k - 1 /\ M <= L
      BY <1>1, <1>2, <3>1
    <3>3. L # 0 => L <= M
      BY <1>1, <1>2
    <3> QED
      BY <1>1, <1>2, <3>2, <3>3
  <2> QED
    BY <1>5, <2>1 DEF L, M, Is
<1> QED
  BY <1>4, <1>5

\* Passed is what its recursive definition says, at every position.
Unfolds == \A k \in 0 .. pos : Passed[k] = (k > 0 /\ MayStart(k) /\ AllOk(k))

LEMMA PassedUnfolds ==
  ASSUME pos \in Nat
  PROVE  Unfolds
<1> DEFINE D == 0 .. pos
           Needs(k) == {LatestNamed(p, k) : p \in ScAt(k).prerequisites}
           Own(k) == ScAt(k).enabled /\ AllOk(k)
           A == [k \in D |-> k > 0 /\ Own(k)]
           B == [k \in D |-> {j \in D : k > 0 /\ j \in Needs(k)}]
           Body(f) == [k \in D |-> /\ k > 0
                                   /\ ScAt(k).enabled
                                   /\ \A p \in ScAt(k).prerequisites : f[LatestNamed(p, k)]
                                   /\ \A s \in StepsRun(k) : Success(ResultOf(k, s))]
<1>1. A \in [D -> BOOLEAN] /\ B \in [D -> SUBSET D]
  OBVIOUS
<1>2. PICK f : f = [k \in D |-> A[k] /\ \A j \in B[k] : f[j]]
  <2> HIDE DEF A, B, D
  <2> QED
    BY <1>1, GatesExist
<1>3. \A k \in D \ {0} : (\A j \in B[k] : f[j]) <=> (\A p \in ScAt(k).prerequisites : f[LatestNamed(p, k)])
  <2> TAKE k \in D \ {0}
  <2>1. B[k] = Needs(k)
    <3>1. k \in 1 .. pos /\ 0 .. k - 1 \subseteq D
      OBVIOUS
    <3>2. Needs(k) \subseteq 0 .. k - 1
      BY <3>1, LatestIsBefore
    <3> HIDE DEF Needs
    <3> QED
      BY <3>1, <3>2
  <2> QED
    BY <2>1
<1>4. f = Body(f)
  <2>1. \A k \in D : (A[k] /\ \A j \in B[k] : f[j])
                       = (/\ k > 0
                          /\ ScAt(k).enabled
                          /\ \A p \in ScAt(k).prerequisites : f[LatestNamed(p, k)]
                          /\ \A s \in StepsRun(k) : Success(ResultOf(k, s)))
    <3> TAKE k \in D
    <3>0. A[k] = (k > 0 /\ Own(k)) /\ k \in Nat /\ ~(0 > 0)
      OBVIOUS
    <3>3. k # 0 => ((\A j \in B[k] : f[j]) <=> (\A p \in ScAt(k).prerequisites : f[LatestNamed(p, k)]))
      BY <1>3
    <3> HIDE DEF A, B, D
    <3>1. CASE k = 0
      BY <3>0, <3>1
    <3>2. CASE k # 0
      <4>1. k > 0
        BY <3>0, <3>2
      <4> QED
        BY <3>0, <3>3, <3>2, <4>1 DEF AllOk
    <3> QED
      BY <3>1, <3>2
  <2> QED
    BY <1>2, <2>1
<1>5. Passed = Body(Passed)
  BY <1>4 DEF Passed
<1>6. \A k \in D : Passed[k] = (/\ k > 0
                                /\ ScAt(k).enabled
                                /\ \A p \in ScAt(k).prerequisites : Passed[LatestNamed(p, k)]
                                /\ \A s \in StepsRun(k) : Success(ResultOf(k, s)))
  BY <1>5
<1> QED
  BY <1>6 DEF Unfolds, MayStart, AllOk

\* The gates f of 0 .. n, each open if its own condition holds and the gates
\* it depends on are open.
Gates(f, n, A, B) == \A k \in 0 .. n : f[k] = (A[k] /\ \A j \in B[k] : f[j])

\* Gates that depend on earlier ones only, and on the same conditions, agree.
LEMMA GatesAgree ==
  ASSUME NEW n \in Nat, NEW A, NEW B,
         \A k \in 0 .. n : B[k] \subseteq 0 .. k - 1,
         NEW f, NEW g, Gates(f, n, A, B), Gates(g, n, A, B)
  PROVE  \A k \in 0 .. n : f[k] = g[k]
<1> DEFINE D == {k \in 0 .. n : f[k] # g[k]}
<1>1. SUFFICES ASSUME D # {} PROVE FALSE
  OBVIOUS
<1>2. PICK m \in D : \A i \in D : m <= i
  <2>1. D \subseteq 0 .. n
    OBVIOUS
  <2> HIDE DEF D
  <2> QED
    BY <1>1, <2>1, LeastOf
<1>3. \A j \in 0 .. m - 1 : f[j] = g[j]
  <2> SUFFICES ASSUME NEW j \in 0 .. m - 1, f[j] # g[j] PROVE FALSE
    OBVIOUS
  <2>1. j \in D /\ ~(m <= j)
    OBVIOUS
  <2> QED
    BY <1>2, <2>1
<1>4. \A j \in B[m] : f[j] = g[j]
  BY <1>3
<1>5. (\A j \in B[m] : f[j]) <=> (\A j \in B[m] : g[j])
  BY <1>4
<1>6. f[m] = (A[m] /\ \A j \in B[m] : f[j]) /\ g[m] = (A[m] /\ \A j \in B[m] : g[j])
  BY DEF Gates
<1>7. f[m] = g[m]
  BY <1>5, <1>6
<1> QED
  BY <1>7

\* What the results alone say, in a step that leaves them.
LEMMA LatestFrame ==
  ASSUME UNCHANGED <<cfg, order>>
  PROVE  /\ \A k : ScAt(k)' = ScAt(k)
         /\ \A p, k : LatestNamed(p, k)' = LatestNamed(p, k)
BY DEF LatestNamed, ScAt, Scenarios

LEMMA ResultsFrame ==
  ASSUME UNCHANGED <<cfg, order, results>>
  PROVE  /\ \A k : StepsRun(k)' = StepsRun(k)
         /\ \A k, s : ResultOf(k, s)' = ResultOf(k, s)
         /\ \A k : AllOk(k)' = AllOk(k)
         /\ \A k, s : PrevOk(k, s)' = PrevOk(k, s)
         /\ \A k, s : Due(k, s)' = Due(k, s)
<1>1. \A k : StepsRun(k)' = StepsRun(k)
  BY DEF StepsRun
<1>2. \A k, s : ResultOf(k, s)' = ResultOf(k, s)
  BY DEF ResultOf
<1>3. \A k : AllOk(k)' = AllOk(k)
  BY <1>1, <1>2 DEF AllOk
<1>4. \A k, s : PrevOk(k, s)' = PrevOk(k, s)
  BY <1>1, <1>2 DEF PrevOk
<1>5. \A k, s : Due(k, s)' = Due(k, s)
  BY <1>4, LatestFrame DEF Due
<1> QED
  BY <1>1, <1>2, <1>3, <1>4, <1>5

\* A scenario's gate depends on what is behind it only.
LEMMA GatesStay ==
  ASSUME Unfolds, Unfolds', UNCHANGED <<cfg, order>>, pos \in Nat, pos' \in Nat,
         NEW m \in Nat, m <= pos, m <= pos',
         \A k \in 1 .. m : AllOk(k)' = AllOk(k)
  PROVE  /\ \A k \in 0 .. m : Passed'[k] = Passed[k]
         /\ \A k \in 1 .. m + 1 : MayStart(k)' = MayStart(k)
<1> DEFINE Needs(k) == {LatestNamed(p, k) : p \in ScAt(k).prerequisites}
           A == [k \in 0 .. m |-> k > 0 /\ ScAt(k).enabled /\ AllOk(k)]
           B == [k \in 0 .. m |-> IF k > 0 THEN Needs(k) ELSE {}]
<1>1. \A k \in 0 .. m : B[k] \subseteq 0 .. k - 1
  <2> TAKE k \in 0 .. m
  <2>1. k > 0 => k \in Nat \ {0}
    OBVIOUS
  <2>2. k > 0 => Needs(k) \subseteq 0 .. k - 1
    BY <2>1, LatestIsBefore
  <2> HIDE DEF Needs
  <2> QED
    BY <2>2
<1>2. \A k \in 0 .. m : Passed[k] = (A[k] /\ \A j \in B[k] : Passed[j])
  <2> TAKE k \in 0 .. m
  <2>1. k \in 0 .. pos
    OBVIOUS
  <2>2. Passed[k] = (k > 0 /\ MayStart(k) /\ AllOk(k))
    BY <2>1 DEF Unfolds
  <2>3. A[k] = (k > 0 /\ ScAt(k).enabled /\ AllOk(k)) /\ B[k] = IF k > 0 THEN Needs(k) ELSE {}
    OBVIOUS
  <2> HIDE DEF A, B
  <2>4. CASE k > 0
    <3>1. B[k] = Needs(k)
      BY <2>3, <2>4
    <3>2. (\A j \in B[k] : Passed[j]) <=> (\A p \in ScAt(k).prerequisites : Passed[LatestNamed(p, k)])
      BY <3>1
    <3> QED
      BY <2>2, <2>3, <2>4, <3>2 DEF MayStart
  <2>5. CASE ~(k > 0)
    BY <2>2, <2>3, <2>5
  <2> QED
    BY <2>4, <2>5
<1>3. \A k \in 0 .. m : Passed'[k] = (A[k] /\ \A j \in B[k] : Passed'[j])
  <2> TAKE k \in 0 .. m
  <2>1. k \in 0 .. pos'
    OBVIOUS
  <2>2. Passed'[k] = (k > 0 /\ MayStart(k)' /\ AllOk(k)')
    BY <2>1 DEF Unfolds
  <2>3. A[k] = (k > 0 /\ ScAt(k).enabled /\ AllOk(k)) /\ B[k] = IF k > 0 THEN Needs(k) ELSE {}
    OBVIOUS
  <2> HIDE DEF A, B
  <2>4. CASE k > 0
    <3>1. B[k] = Needs(k)
      BY <2>3, <2>4
    <3>2. (\A j \in B[k] : Passed'[j]) <=> (\A p \in ScAt(k).prerequisites : Passed'[LatestNamed(p, k)])
      BY <3>1
    <3>3. MayStart(k)' = (ScAt(k)'.enabled /\ \A p \in ScAt(k)'.prerequisites : Passed'[LatestNamed(p, k)'])
      BY DEF MayStart
    <3>4. AllOk(k)' = AllOk(k) /\ ScAt(k)' = ScAt(k)
      <4>1. k \in 1 .. m
        BY <2>4
      <4> QED
        BY <4>1, LatestFrame
    <3>5. \A p : LatestNamed(p, k)' = LatestNamed(p, k)
      BY LatestFrame
    <3>6. MayStart(k)' = (ScAt(k).enabled /\ \A p \in ScAt(k).prerequisites : Passed'[LatestNamed(p, k)])
      BY <3>3, <3>4, <3>5
    <3> QED
      BY <2>2, <2>3, <2>4, <3>2, <3>4, <3>6
  <2>5. CASE ~(k > 0)
    BY <2>2, <2>3, <2>5
  <2> QED
    BY <2>4, <2>5
<1>4. \A k \in 0 .. m : Passed'[k] = Passed[k]
  <2> HIDE DEF A, B
  <2>1. PICK f : f = Passed
    OBVIOUS
  <2>2. PICK g : g = Passed'
    OBVIOUS
  <2>3. Gates(f, m, A, B)
    BY <1>2, <2>1 DEF Gates
  <2>4. Gates(g, m, A, B)
    BY <1>3, <2>2 DEF Gates
  <2>5. \A k \in 0 .. m : f[k] = g[k]
    BY <1>1, <2>3, <2>4, GatesAgree
  <2> QED
    BY <2>1, <2>2, <2>5
<1>5. ASSUME NEW k \in 1 .. m + 1
      PROVE  MayStart(k)' = MayStart(k)
  <2>1. \A p : LatestNamed(p, k) \in 0 .. m
    <3>1. k \in Nat \ {0} /\ 0 .. k - 1 \subseteq 0 .. m
      OBVIOUS
    <3> QED
      BY <3>1, LatestIsBefore
  <2>2. \A p : Passed'[LatestNamed(p, k)'] = Passed[LatestNamed(p, k)]
    BY <1>4, <2>1, LatestFrame
  <2>3. ScAt(k)' = ScAt(k)
    BY LatestFrame
  <2> QED
    BY <2>2, <2>3 DEF MayStart
<1> QED
  BY <1>4, <1>5

-----------------------------------------------------------------------------
(* A result is added at the scenario in progress.                          *)

LEMMA UniqueResult ==
  ASSUME NEW R, \A i, j \in DOMAIN R : R[i].at = R[j].at => i = j,
         NEW i \in DOMAIN R
  PROVE  R[CHOOSE j \in DOMAIN R : R[j].at = R[i].at] = R[i]
<1> DEFINE c == CHOOSE j \in DOMAIN R : R[j].at = R[i].at
<1>1. c \in DOMAIN R /\ R[c].at = R[i].at
  OBVIOUS
<1>2. c = i
  BY <1>1
<1> QED
  BY <1>2

\* A step that ran has a result, which ResultOf returns.
LEMMA StepHasResult ==
  ASSUME IInv, Distinct, NEW k, NEW s
  PROVE  /\ s \in StepsRun(k) <=> \E i \in DOMAIN results : results[i].at = <<order[k], s>>
         /\ \A i \in DOMAIN results : results[i].at = <<order[k], s>> => ResultOf(k, s) = results[i]
<1>1. ASSUME NEW i \in DOMAIN results, results[i].at = <<order[k], s>>
      PROVE  ResultOf(k, s) = results[i] /\ s \in StepsRun(k)
  <2>1. ResultOf(k, s) = results[i]
    BY <1>1, UniqueResult DEF ResultOf, Distinct
  <2>2. results[i].at[1] = order[k] /\ results[i].at[2] = s
    BY <1>1
  <2> QED
    BY <2>1, <2>2 DEF StepsRun
<1>2. ASSUME s \in StepsRun(k)
      PROVE  \E i \in DOMAIN results : results[i].at = <<order[k], s>>
  <2>1. PICK i \in DOMAIN results : results[i].at[1] = order[k] /\ results[i].at[2] = s
    BY <1>2 DEF StepsRun
  <2>2. results[i] \in Result
    BY DEF IInv, TypeOK
  <2>3. results[i].at = <<order[k], s>>
    BY <2>1, <2>2 DEF Result, Places
  <2> QED
    BY <2>3
<1> QED
  BY <1>1, <1>2

LEMMA ResultAdded ==
  ASSUME IInv, Distinct, Distinct', order' = order,
         NEW r \in Result, results' = Append(results, r)
  PROVE  /\ \A k : order[k] # r.at[1] => StepsRun(k)' = StepsRun(k)
         /\ \A k : order[k] = r.at[1] => /\ StepsRun(k)' = StepsRun(k) \cup {r.at[2]}
                                         /\ r.at[2] \notin StepsRun(k)
                                         /\ ResultOf(k, r.at[2])' = r
         /\ \A k : \A s \in StepsRun(k) : ResultOf(k, s)' = ResultOf(k, s)
<1> DEFINE n == Len(results)
<1>1. /\ n \in Nat /\ DOMAIN results = 1 .. n /\ DOMAIN results' = 1 .. n + 1
      /\ \A i \in 1 .. n : results'[i] = results[i]
      /\ results'[n + 1] = r
  BY AppendFacts DEF IInv, TypeOK
<1> HIDE DEF n
<1>2. \A k, s : s \in StepsRun(k)' <=> \E i \in 1 .. n + 1 : results'[i].at[1] = order[k] /\ results'[i].at[2] = s
  BY <1>1 DEF StepsRun
<1>3. \A k, s : s \in StepsRun(k) <=> \E i \in 1 .. n : results[i].at[1] = order[k] /\ results[i].at[2] = s
  BY <1>1 DEF StepsRun
<1>4. \A i : i \in 1 .. n + 1 <=> (i \in 1 .. n \/ i = n + 1)
  BY <1>1
<1>5. \A k, s : s \in StepsRun(k)' <=> (s \in StepsRun(k) \/ (r.at[1] = order[k] /\ r.at[2] = s))
  BY <1>1, <1>2, <1>3, <1>4
<1>6. ASSUME NEW k, NEW i \in DOMAIN results', NEW s, results'[i].at = <<order[k], s>>
      PROVE  ResultOf(k, s)' = results'[i]
  <2>1. \A i1, j \in DOMAIN results' : results'[i1].at = results'[j].at => i1 = j
    BY DEF Distinct
  <2>2. results'[CHOOSE j \in DOMAIN results' : results'[j].at = results'[i].at] = results'[i]
    <3> DEFINE R == results'
    <3>1. \A i1, j \in DOMAIN R : R[i1].at = R[j].at => i1 = j
      BY <2>1
    <3>2. i \in DOMAIN R
      OBVIOUS
    <3> HIDE DEF R
    <3>3. R[CHOOSE j \in DOMAIN R : R[j].at = R[i].at] = R[i]
      BY <3>1, <3>2, UniqueResult
    <3> QED
      BY <3>3 DEF R
  <2> QED
    BY <1>6, <2>2 DEF ResultOf
<1>7. ASSUME NEW k, NEW s \in StepsRun(k)
      PROVE  ResultOf(k, s)' = ResultOf(k, s)
  <2>1. PICK i \in DOMAIN results : results[i].at = <<order[k], s>>
    BY StepHasResult
  <2>2. i \in DOMAIN results' /\ results'[i] = results[i]
    BY <1>1, <1>4
  <2> QED
    BY <1>6, <2>1, <2>2, StepHasResult
<1>8. ASSUME NEW k, order[k] = r.at[1]
      PROVE  r.at[2] \notin StepsRun(k) /\ ResultOf(k, r.at[2])' = r
  <2>1. r.at = <<order[k], r.at[2]>>
    BY <1>8 DEF Result, Places
  <2>2. n + 1 \in DOMAIN results' /\ n + 1 \notin DOMAIN results
    BY <1>1
  <2>3. ResultOf(k, r.at[2])' = r
    BY <1>1, <1>6, <2>1, <2>2
  <2>4. ASSUME r.at[2] \in StepsRun(k)
        PROVE  FALSE
    <3>1. PICK i \in DOMAIN results : results[i].at = <<order[k], r.at[2]>>
      BY <2>4, StepHasResult
    <3>2. i \in DOMAIN results' /\ results'[i].at = results'[n + 1].at
      BY <1>1, <1>4, <2>1, <3>1
    <3> QED
      BY <2>2, <3>2 DEF Distinct
  <2> QED
    BY <2>3, <2>4
<1> QED
  BY <1>5, <1>7, <1>8

\* What is added to a scenario leaves the others, and the earlier steps.
LEMMA OthersStay ==
  ASSUME IInv, Distinct, Distinct', UNCHANGED <<cfg, order>>,
         NEW r \in Result, results' = Append(results, r)
  PROVE  /\ \A k : order[k] # r.at[1] =>
              /\ AllOk(k)' = AllOk(k)
              /\ \A s : PrevOk(k, s)' = PrevOk(k, s) /\ Due(k, s)' = Due(k, s)
         /\ \A k : order[k] = r.at[1] => AllOk(k)' = (AllOk(k) /\ Success(r))
<1>1. ASSUME NEW k, order[k] # r.at[1]
      PROVE  /\ AllOk(k)' = AllOk(k)
             /\ \A s : PrevOk(k, s)' = PrevOk(k, s) /\ Due(k, s)' = Due(k, s)
  <2>1. StepsRun(k)' = StepsRun(k) /\ \A s \in StepsRun(k) : ResultOf(k, s)' = ResultOf(k, s)
    BY <1>1, ResultAdded
  <2>2. AllOk(k)' = AllOk(k)
    BY <2>1 DEF AllOk, Success
  <2>3. \A s : PrevOk(k, s)' = PrevOk(k, s)
    BY <2>1 DEF PrevOk, Success
  <2>4. \A s : Due(k, s)' = Due(k, s)
    <3> TAKE s
    <3>1. ScAt(k)' = ScAt(k) /\ PrevOk(k, s)' = PrevOk(k, s)
      BY <2>3, LatestFrame
    <3> QED
      BY <3>1 DEF Due
  <2> QED
    BY <2>2, <2>3, <2>4
<1>2. ASSUME NEW k, order[k] = r.at[1]
      PROVE  AllOk(k)' = (AllOk(k) /\ Success(r))
  <2>1. /\ StepsRun(k)' = StepsRun(k) \cup {r.at[2]}
        /\ r.at[2] \notin StepsRun(k)
        /\ ResultOf(k, r.at[2])' = r
        /\ \A s \in StepsRun(k) : ResultOf(k, s)' = ResultOf(k, s)
    BY <1>2, ResultAdded
  <2>2. AllOk(k)' <=> \A s \in StepsRun(k) \cup {r.at[2]} : Success(ResultOf(k, s)')
    BY <2>1 DEF AllOk, Success
  <2>3. AllOk(k)' <=> (AllOk(k) /\ Success(r))
    BY <2>1, <2>2 DEF AllOk
  <2> QED
    BY <2>3 DEF AllOk
<1> QED
  BY <1>1, <1>2

\* The result of the step of a sequential scenario that is in progress.
LEMMA NextStepKnows ==
  ASSUME IInv, Distinct, Distinct', UNCHANGED <<cfg, order>>,
         NEW r \in Result, results' = Append(results, r), NEW k, order[k] = r.at[1],
         r.at[2] \in Nat, StepsRun(k) \subseteq {s \in Nat : s < r.at[2]}
  PROVE  /\ \A s \in Nat : s <= r.at[2] => PrevOk(k, s)' = PrevOk(k, s) /\ Due(k, s)' = Due(k, s)
         /\ PrevOk(k, r.at[2] + 1)' = Success(r)
<1> DEFINE m == r.at[2]
<1>1. /\ StepsRun(k)' = StepsRun(k) \cup {m}
      /\ m \notin StepsRun(k)
      /\ ResultOf(k, m)' = r
      /\ \A s \in StepsRun(k) : ResultOf(k, s)' = ResultOf(k, s)
  BY ResultAdded
<1>2. m \in Nat /\ StepsRun(k) \subseteq {s \in Nat : s < m}
  OBVIOUS
<1> HIDE DEF m
<1>3. ASSUME NEW s \in Nat, s <= m
      PROVE  PrevOk(k, s)' = PrevOk(k, s) /\ Due(k, s)' = Due(k, s)
  <2>1. {t \in StepsRun(k)' : t < s} = {t \in StepsRun(k) : t < s}
    BY <1>1, <1>2, <1>3
  <2>2. \A t \in {t \in StepsRun(k) : t < s} : Success(ResultOf(k, t)') <=> Success(ResultOf(k, t))
    BY <1>1
  <2>3. PrevOk(k, s)' = PrevOk(k, s)
    BY <2>1, <2>2 DEF PrevOk, Success
  <2> QED
    BY <2>3, LatestFrame DEF Due
<1>4. PrevOk(k, m + 1)' = Success(r)
  <2>1. {t \in StepsRun(k)' : t < m + 1} = StepsRun(k) \cup {m}
    BY <1>1, <1>2
  <2>2. \A u \in StepsRun(k) \cup {m} : u <= m
    BY <1>2
  <2>3. \A t \in StepsRun(k) \cup {m} : (\A u \in StepsRun(k) \cup {m} : u <= t) => t = m
    <3> TAKE t \in StepsRun(k) \cup {m}
    <3>1. HAVE \A u \in StepsRun(k) \cup {m} : u <= t
    <3>2. m <= t /\ t <= m /\ t \in Nat
      BY <1>2, <2>2, <3>1
    <3> QED
      BY <1>2, <3>2
  <2>4. PrevOk(k, m + 1)' <=> Success(ResultOf(k, m)')
    BY <2>1, <2>2, <2>3 DEF PrevOk, Success
  <2> QED
    BY <1>1, <2>4 DEF PrevOk, Success
<1> QED
  BY <1>3, <1>4 DEF m

-----------------------------------------------------------------------------
(* The invariant of the scenarios is preserved.                            *)

\* The sort put each scenario at one position, and a scenario that has not
\* begun has no results.
LEMMA NothingYet ==
  ASSUME IInv, AInv, PInv, pc = "scenario", pos \in DOMAIN Scenarios
  PROVE  StepsRun(pos) = {}
<1> SUFFICES ASSUME NEW s \in StepsRun(pos) PROVE FALSE
  OBVIOUS
<1>1. InScenarios /\ order \in [DOMAIN Scenarios -> DOMAIN Scenarios]
  BY DEF InScenarios, IInv, LoopOK
<1>2. PICK i \in DOMAIN results : results[i].at = <<order[pos], s>>
  BY StepHasResult DEF PInv
<1>3. results[i] \in Result
  BY DEF IInv, TypeOK
<1>4. PICK p \in Places : p = results[i].at
  BY <1>3 DEF Result
<1>5. Past(p)
  BY <1>4 DEF PInv, PastOK
<1>6. PICK k \in 1 .. pos : /\ k \in DOMAIN Scenarios
                            /\ p[1] = order[k]
                            /\ ~(k = pos)
  BY <1>1, <1>5 DEF Past
<1>7. order[k] = order[pos]
  BY <1>2, <1>4, <1>6
<1>8. k = pos
  BY <1>1, <1>6, <1>7 DEF AInv, ModeOK
<1> QED
  BY <1>6, <1>8

LEMMA PrerequisitesArePassed ==
  ASSUME IInv, SInv, pc = "scenario", pos \in DOMAIN Scenarios
  PROVE  /\ Sc = ScAt(pos) /\ Sc.name \in Names
         /\ MayStart(pos) <=> Sc.enabled /\ PrerequisitesMet
<1>1. InScenarios /\ cfg \in Configs /\ order \in [DOMAIN Scenarios -> DOMAIN Scenarios]
  BY DEF InScenarios, IInv, LoopOK, TypeOK
<1>2. Sc \in Scenario
  BY <1>1, ConfigTyped DEF Sc
<1>3. Sc.name \in Names /\ Sc.prerequisites \subseteq Names
  BY <1>2 DEF Scenario
<1>4. \A n \in Names : scenarioSuccess[n] = Passed[LatestNamed(n, pos)]
  BY <1>1 DEF SInv
<1>5. Sc = ScAt(pos)
  BY DEF Sc, ScAt
<1>6. PrerequisitesMet <=> \A p \in Sc.prerequisites : Passed[LatestNamed(p, pos)]
  BY <1>3, <1>4 DEF PrerequisitesMet
<1> QED
  BY <1>3, <1>5, <1>6 DEF MayStart

\* What is behind stays as it is.
LEMMA BehindKept ==
  ASSUME UNCHANGED <<cfg, order>>, NEW k, Behind(k), MayStart(k)' = MayStart(k),
         StepsRun(k)' = StepsRun(k), \A s : Due(k, s)' = Due(k, s)
  PROVE  Behind(k)'
<1>1. ScAt(k)' = ScAt(k)
  BY LatestFrame
<1>2. {s \in DOMAIN ScAt(k).steps : Due(k, s)'} = {s \in DOMAIN ScAt(k).steps : Due(k, s)}
  OBVIOUS
<1> QED
  BY <1>1, <1>2 DEF Behind

\* The loop goes on to the next scenario.
LEMMA ScenarioPassed ==
  ASSUME IInv, IInv', SInv, Unfolds, Unfolds', InScenarios,
         UNCHANGED <<cfg, order, results>>, pos' = pos + 1, pc' = "scenario",
         Behind(pos), Sc = ScAt(pos),
         \A n \in Names : scenarioSuccess'[n] =
           IF Sc.enabled /\ Sc.name = n THEN MayStart(pos) /\ AllOk(pos) ELSE scenarioSuccess[n]
  PROVE  SInv'
<1>1. pos \in Nat \ {0} /\ pos \in Nat /\ pos' \in Nat /\ pos <= pos /\ pos <= pos'
  BY DEF IInv, TypeOK, LoopOK
<1>2. /\ \A k \in 0 .. pos : Passed'[k] = Passed[k]
      /\ \A k \in 1 .. pos + 1 : MayStart(k)' = MayStart(k)
  BY <1>1, GatesStay, ResultsFrame
<1>3. ASSUME NEW k \in 1 .. pos' - 1
      PROVE  Behind(k)'
  <2>1. k \in 1 .. pos + 1 /\ (k \in 1 .. pos - 1 \/ k = pos)
    BY <1>1
  <2>2. Behind(k)
    BY <2>1 DEF SInv
  <2> QED
    BY <1>2, <2>1, <2>2, BehindKept, ResultsFrame
<1>4. ASSUME NEW n \in Names
      PROVE  scenarioSuccess'[n] = Passed'[LatestNamed(n, pos)']
  <2>1. LatestNamed(n, pos)' = IF Sc.enabled /\ Sc.name = n THEN pos ELSE LatestNamed(n, pos)
    BY <1>1, LatestFrame, LatestNext
  <2>2. pos \in 0 .. pos /\ pos > 0
    BY <1>1
  <2>3. Passed'[pos] = (MayStart(pos) /\ AllOk(pos))
    BY <1>2, <2>2 DEF Unfolds
  <2>4. LatestNamed(n, pos) \in 0 .. pos
    <3>1. LatestNamed(n, pos) \in 0 .. pos - 1
      BY <1>1, LatestIsBefore
    <3> QED
      BY <1>1, <3>1
  <2>5. Passed'[LatestNamed(n, pos)] = scenarioSuccess[n]
    BY <1>2, <2>4 DEF SInv
  <2>6. CASE Sc.enabled /\ Sc.name = n
    BY <2>1, <2>3, <2>6
  <2>7. CASE ~(Sc.enabled /\ Sc.name = n)
    BY <2>1, <2>5, <2>7
  <2> QED
    BY <2>6, <2>7
<1> QED
  BY <1>3, <1>4 DEF SInv, InScenarios

\* The loop stays at its scenario, and what it has recorded stays as it is.
LEMMA ScenarioKept ==
  ASSUME IInv, IInv', SInv, Unfolds, Unfolds', InScenarios, InScenarios',
         UNCHANGED <<cfg, order, results, pos, scenarioSuccess>>
  PROVE  /\ \A k \in 1 .. pos - 1 : Behind(k)'
         /\ \A n \in Names : scenarioSuccess'[n] = Passed'[LatestNamed(n, pos)']
         /\ MayStart(pos)' = MayStart(pos)
<1>1. pos \in Nat \ {0} /\ pos \in Nat /\ pos' \in Nat /\ pos <= pos /\ pos <= pos'
  BY DEF IInv, TypeOK, LoopOK
<1>2. /\ \A k \in 0 .. pos : Passed'[k] = Passed[k]
      /\ \A k \in 1 .. pos + 1 : MayStart(k)' = MayStart(k)
  BY <1>1, GatesStay, ResultsFrame
<1>3. ASSUME NEW k \in 1 .. pos - 1
      PROVE  Behind(k)'
  <2>1. k \in 1 .. pos + 1 /\ Behind(k)
    BY <1>1 DEF SInv
  <2> QED
    BY <1>2, <2>1, BehindKept, ResultsFrame
<1>4. ASSUME NEW n \in Names
      PROVE  scenarioSuccess'[n] = Passed'[LatestNamed(n, pos)']
  <2>1. LatestNamed(n, pos)' = LatestNamed(n, pos)
    BY LatestFrame
  <2>2. LatestNamed(n, pos) \in 0 .. pos
    <3>1. LatestNamed(n, pos) \in 0 .. pos - 1
      BY <1>1, LatestIsBefore
    <3> QED
      BY <1>1, <3>1
  <2> QED
    BY <1>2, <2>1, <2>2 DEF SInv
<1>5. pos \in 1 .. pos + 1
  BY <1>1
<1> QED
  BY <1>2, <1>3, <1>4, <1>5

\* A result is added at the scenario in progress.
LEMMA ScenarioGrows ==
  ASSUME IInv, IInv', AInv, PInv, PInv', SInv, Unfolds, Unfolds', InScenarios, InScenarios',
         pos \in DOMAIN Scenarios,
         UNCHANGED <<cfg, order, pos, scenarioSuccess>>,
         NEW r \in Result, r.at[1] = order[pos], results' = Append(results, r)
  PROVE  /\ \A k \in 1 .. pos - 1 : Behind(k)'
         /\ \A n \in Names : scenarioSuccess'[n] = Passed'[LatestNamed(n, pos)']
         /\ MayStart(pos)' = MayStart(pos)
<1>1. pos \in Nat \ {0} /\ pos' \in Nat /\ pos - 1 \in Nat /\ pos - 1 <= pos /\ pos - 1 <= pos'
  BY DEF IInv, TypeOK, LoopOK
<1>2. \A k \in 1 .. pos - 1 : order[k] # r.at[1]
  <2> TAKE k \in 1 .. pos - 1
  <2>1. order \in [DOMAIN Scenarios -> DOMAIN Scenarios] /\ Scenarios \in Seq(Scenario)
    BY ConfigTyped DEF IInv, LoopOK, TypeOK
  <2>2. k \in DOMAIN Scenarios /\ k # pos
    BY <1>1, <2>1
  <2> QED
    BY <2>1, <2>2 DEF AInv, ModeOK
<1>3. Distinct /\ Distinct'
  BY DEF PInv
<1>4. \A k \in 1 .. pos - 1 : /\ AllOk(k)' = AllOk(k)
                              /\ StepsRun(k)' = StepsRun(k)
                              /\ \A s : Due(k, s)' = Due(k, s)
  BY <1>2, <1>3, OthersStay, ResultAdded
<1>5. /\ \A k \in 0 .. pos - 1 : Passed'[k] = Passed[k]
      /\ \A k \in 1 .. (pos - 1) + 1 : MayStart(k)' = MayStart(k)
  BY <1>1, <1>4, GatesStay
<1>6. ASSUME NEW k \in 1 .. pos - 1
      PROVE  Behind(k)'
  <2>1. k \in 1 .. (pos - 1) + 1 /\ Behind(k)
    BY <1>1 DEF SInv
  <2> QED
    BY <1>4, <1>5, <2>1, BehindKept
<1>7. ASSUME NEW n \in Names
      PROVE  scenarioSuccess'[n] = Passed'[LatestNamed(n, pos)']
  <2>1. LatestNamed(n, pos)' = LatestNamed(n, pos) /\ LatestNamed(n, pos) \in 0 .. pos - 1
    BY <1>1, LatestFrame, LatestIsBefore
  <2> QED
    BY <1>5, <2>1 DEF SInv
<1>8. pos \in 1 .. (pos - 1) + 1
  BY <1>1
<1> QED
  BY <1>5, <1>6, <1>7, <1>8

\* A step that does not run is no step that ran before the next.
LEMMA PrevSkips ==
  ASSUME NEW k, NEW m \in Nat, StepsRun(k) \subseteq {s \in Nat : s < m}
  PROVE  PrevOk(k, m + 1) = PrevOk(k, m)
<1>1. {t \in StepsRun(k) : t < m + 1} = {t \in StepsRun(k) : t < m}
  OBVIOUS
<1> QED
  BY <1>1 DEF PrevOk

\* What the loop's condition says of a step is what its results say.
LEMMA ConditionIsDue ==
  ASSUME IInv, SInv, pc = "steps", step \in DOMAIN Sc.steps
  PROVE  ConditionMet(StepOf(step)) <=> Due(pos, step)
<1>1. prevSuccess = PrevOk(pos, step)
  BY DEF SInv, InScenarios
<1>2. StepOf(step) = ScAt(pos).steps[step]
  BY DEF StepOf, Sc, ScAt
<1> QED
  BY <1>1, <1>2 DEF ConditionMet, Due

LEMMA ForkKeeps ==
  ASSUME IInv, IInv', AInv, PInv, SInv, Unfolds, Unfolds', ForkSteps
  PROVE  SInv'
<1>1. InScenarios /\ InScenarios' /\ pc = "scenario" /\ pc' = "wait" /\ pos \in DOMAIN Scenarios
      /\ UNCHANGED <<cfg, order, results, pos, scenarioSuccess>>
  BY ConfigTyped DEF ForkSteps, InScenarios, IInv, TypeOK, LoopOK, registry, ledger
<1>2. StepsRun(pos) = {} /\ MayStart(pos)
  BY <1>1, NothingYet, PrerequisitesArePassed DEF ForkSteps
<1>3. /\ \A k \in 1 .. pos - 1 : Behind(k)'
      /\ \A n \in Names : scenarioSuccess'[n] = Passed'[LatestNamed(n, pos)']
      /\ MayStart(pos)' = MayStart(pos)
  BY <1>1, ScenarioKept
<1>4. StepsRun(pos)' = {} /\ AllOk(pos)' = AllOk(pos) /\ ScAt(pos)' = ScAt(pos)
  BY <1>1, <1>2, ResultsFrame, LatestFrame
<1>5. allSucceeded' = TRUE /\ AllOk(pos) = TRUE
  BY <1>2 DEF ForkSteps, AllOk
<1>6. \A s \in DOMAIN ScAt(pos).steps : task'[s].pc # "done"
  <2>1. Sc.steps \in Seq(Step) /\ Len(Sc.steps) \in Nat /\ Len(Sc.steps) <= MaxSteps
    BY <1>1, ConfigTyped DEF IInv, TypeOK, LoopOK, Sc, InScenarios
  <2>2. ScAt(pos) = Sc
    BY DEF ScAt, Sc
  <2>3. DOMAIN Sc.steps \subseteq Slots
    BY <2>1, BoundsAssumption DEF Slots
  <2> QED
    BY <2>2, <2>3 DEF ForkSteps, NoTask
<1> QED
  BY <1>1, <1>2, <1>3, <1>4, <1>5, <1>6 DEF SInv

LEMMA BeginKeeps ==
  ASSUME IInv, IInv', AInv, PInv, SInv, Unfolds, Unfolds', BeginSteps
  PROVE  SInv'
<1>1. InScenarios /\ InScenarios' /\ pc = "scenario" /\ pc' = "steps" /\ pos \in DOMAIN Scenarios
      /\ UNCHANGED <<cfg, order, results, pos, scenarioSuccess>>
  BY ConfigTyped DEF BeginSteps, InScenarios, IInv, TypeOK, LoopOK, registry, ledger
<1>2. StepsRun(pos) = {} /\ MayStart(pos)
  BY <1>1, NothingYet, PrerequisitesArePassed DEF BeginSteps
<1>3. /\ \A k \in 1 .. pos - 1 : Behind(k)'
      /\ \A n \in Names : scenarioSuccess'[n] = Passed'[LatestNamed(n, pos)']
      /\ MayStart(pos)' = MayStart(pos)
  BY <1>1, ScenarioKept
<1>4. StepsRun(pos)' = {} /\ AllOk(pos)' = AllOk(pos) /\ ScAt(pos)' = ScAt(pos)
  BY <1>1, <1>2, ResultsFrame, LatestFrame
<1>5. allSucceeded' = TRUE /\ AllOk(pos) = TRUE /\ prevSuccess' = TRUE /\ step' = 1
  BY <1>2 DEF BeginSteps, AllOk
<1>6. PrevOk(pos, step)' = TRUE
  BY <1>4 DEF PrevOk
<1>7. \A s \in DOMAIN ScAt(pos).steps : ~(s < step')
  <2>1. Sc.steps \in Seq(Step)
    BY <1>1, ConfigTyped DEF IInv, TypeOK, LoopOK, Sc, InScenarios
  <2>2. ScAt(pos) = Sc
    BY DEF ScAt, Sc
  <2> QED
    BY <1>5, <2>1, <2>2
<1>8. StepsRun(pos)' = {s \in DOMAIN ScAt(pos)'.steps : s < step' /\ Due(pos, s)'}
  BY <1>4, <1>7
<1> QED
  BY <1>1, <1>2, <1>3, <1>4, <1>5, <1>6, <1>8 DEF SInv

LEMMA SkipKeeps ==
  ASSUME IInv, IInv', SInv, Unfolds, Unfolds', StepSkipped
  PROVE  SInv'
<1>1. InScenarios /\ InScenarios' /\ pc = "steps" /\ pc' = "steps" /\ step' = step + 1
      /\ UNCHANGED <<cfg, order, results, pos, scenarioSuccess, allSucceeded, prevSuccess>>
  BY DEF StepSkipped, InScenarios, registry, ledger
<1>2. step \in DOMAIN Sc.steps /\ step \in Nat /\ Sc.steps \in Seq(Step) /\ ScAt(pos) = Sc
  BY <1>1, StepInSlots, ScenarioInProgress DEF StepSkipped, IInv, TypeOK, ScAt, Sc
<1>3. ~Due(pos, step)
  BY <1>1, <1>2, ConditionIsDue DEF StepSkipped
<1>4. /\ \A k \in 1 .. pos - 1 : Behind(k)'
      /\ \A n \in Names : scenarioSuccess'[n] = Passed'[LatestNamed(n, pos)']
      /\ MayStart(pos)' = MayStart(pos)
  BY <1>1, ScenarioKept
<1>5. /\ MayStart(pos) /\ allSucceeded = AllOk(pos) /\ prevSuccess = PrevOk(pos, step)
      /\ StepsRun(pos) = {s \in DOMAIN ScAt(pos).steps : s < step /\ Due(pos, s)}
  BY <1>1 DEF SInv
<1>6. PrevOk(pos, step)' = PrevOk(pos, step)
  <2>1. StepsRun(pos) \subseteq {s \in Nat : s < step}
    BY <1>2, <1>5
  <2>2. PrevOk(pos, step + 1) = PrevOk(pos, step)
    BY <1>2, <2>1, PrevSkips
  <2>3. PrevOk(pos, step)' = PrevOk(pos, step + 1)
    BY <1>1, ResultsFrame
  <2> QED
    BY <2>2, <2>3
<1>7. {s \in DOMAIN ScAt(pos).steps : s < step /\ Due(pos, s)}
        = {s \in DOMAIN ScAt(pos).steps : s < step + 1 /\ Due(pos, s)}
  <2>1. \A s \in DOMAIN ScAt(pos).steps : s < step + 1 <=> s < step \/ s = step
    BY <1>2
  <2> QED
    BY <1>2, <1>3, <2>1
<1>8. /\ StepsRun(pos)' = StepsRun(pos) /\ AllOk(pos)' = AllOk(pos) /\ ScAt(pos)' = ScAt(pos)
      /\ \A s : Due(pos, s)' = Due(pos, s)
  BY <1>1, ResultsFrame, LatestFrame
<1>9. StepsRun(pos)' = {s \in DOMAIN ScAt(pos)'.steps : s < step' /\ Due(pos, s)'}
  BY <1>1, <1>5, <1>7, <1>8
<1> QED
  BY <1>1, <1>4, <1>5, <1>6, <1>8, <1>9 DEF SInv

\* A step that leaves the loop where it is.
LEMMA PassingKeeps ==
  ASSUME IInv, IInv', SInv, Unfolds, Unfolds', InScenarios,
         UNCHANGED <<cfg, order, results, pos, step, prevSuccess, allSucceeded, scenarioSuccess>>,
         pc' = pc \/ (pc = "steps" /\ pc' = "step" /\ Due(pos, step)),
         pc = "wait" => \A s \in DOMAIN Sc.steps : task'[s].pc = "done" <=> task[s].pc = "done"
  PROVE  SInv'
<1>1. InScenarios'
  BY DEF InScenarios
<1>2. /\ \A k \in 1 .. pos - 1 : Behind(k)'
      /\ \A n \in Names : scenarioSuccess'[n] = Passed'[LatestNamed(n, pos)']
      /\ MayStart(pos)' = MayStart(pos)
  BY <1>1, ScenarioKept
<1>3. /\ StepsRun(pos)' = StepsRun(pos) /\ AllOk(pos)' = AllOk(pos) /\ ScAt(pos)' = ScAt(pos)
      /\ \A s : Due(pos, s)' = Due(pos, s)
      /\ PrevOk(pos, step)' = PrevOk(pos, step)
      /\ Due(pos, step)' = Due(pos, step)
  BY ResultsFrame, LatestFrame
<1>4. pc' # "scenario" => MayStart(pos)' /\ allSucceeded' = AllOk(pos)'
  BY <1>2, <1>3 DEF SInv
<1>5. pc' \in {"steps", "step"} =>
        /\ prevSuccess' = PrevOk(pos, step)'
        /\ StepsRun(pos)' = {s \in DOMAIN ScAt(pos)'.steps : s < step' /\ Due(pos, s)'}
  <2>1. {s \in DOMAIN ScAt(pos).steps : s < step /\ Due(pos, s)}
          = {s \in DOMAIN ScAt(pos)'.steps : s < step' /\ Due(pos, s)'}
    BY <1>3
  <2> QED
    BY <1>3, <2>1 DEF SInv
<1>6. pc' = "step" => Due(pos, step)'
  BY <1>3 DEF SInv
<1>7. pc' = "wait" => StepsRun(pos)' = {s \in DOMAIN ScAt(pos)'.steps : task'[s].pc = "done"}
  <2> SUFFICES ASSUME pc' = "wait"
               PROVE  StepsRun(pos)' = {s \in DOMAIN ScAt(pos)'.steps : task'[s].pc = "done"}
    OBVIOUS
  <2>1. pc = "wait" /\ ScAt(pos) = Sc
    BY DEF ScAt, Sc
  <2>2. {s \in DOMAIN ScAt(pos).steps : task[s].pc = "done"}
          = {s \in DOMAIN ScAt(pos)'.steps : task'[s].pc = "done"}
    BY <1>3, <2>1
  <2> QED
    BY <1>3, <2>1, <2>2 DEF SInv
<1> QED
  BY <1>2, <1>4, <1>5, <1>6, <1>7 DEF SInv

\* A scenario's name has its success, or the lack of it, written down.
LEMMA NameWritten ==
  ASSUME IInv, NEW b \in BOOLEAN, NEW m \in Names,
         scenarioSuccess' = [scenarioSuccess EXCEPT ![m] = b]
  PROVE  \A n \in Names : scenarioSuccess'[n] = IF m = n THEN b ELSE scenarioSuccess[n]
BY DEF IInv, TypeOK

LEMMA DisabledKeeps ==
  ASSUME IInv, IInv', AInv, PInv, SInv, Unfolds, Unfolds', ScenarioDisabled \/ ScenarioSkipped
  PROVE  SInv'
<1>1. InScenarios /\ pc = "scenario" /\ pc' = "scenario" /\ pos \in DOMAIN Scenarios
      /\ UNCHANGED <<cfg, order, results>> /\ pos' = pos + 1
  <2>1. pos \in Nat /\ pos >= 1 /\ Scenarios \in Seq(Scenario) /\ pc = "scenario" /\ pos <= Len(Scenarios)
    BY ConfigTyped DEF ScenarioDisabled, ScenarioSkipped, IInv, TypeOK, LoopOK, InScenarios
  <2>2. pos \in DOMAIN Scenarios
    BY <2>1
  <2> QED
    BY <2>1, <2>2 DEF ScenarioDisabled, ScenarioSkipped, InScenarios, registry, ledger
<1>2. StepsRun(pos) = {} /\ Sc = ScAt(pos) /\ Sc.name \in Names
      /\ (MayStart(pos) <=> Sc.enabled /\ PrerequisitesMet)
  BY <1>1, NothingYet, PrerequisitesArePassed
<1>3. ~MayStart(pos)
  BY <1>2 DEF ScenarioDisabled, ScenarioSkipped
<1>4. Behind(pos)
  BY <1>2, <1>3 DEF Behind
<1>5. CASE ScenarioDisabled
  <2>1. \A n \in Names : scenarioSuccess'[n] =
           IF Sc.enabled /\ Sc.name = n THEN MayStart(pos) /\ AllOk(pos) ELSE scenarioSuccess[n]
    BY <1>5 DEF ScenarioDisabled
  <2> QED
    BY <1>1, <1>2, <1>4, <2>1, ScenarioPassed
<1>6. CASE ScenarioSkipped
  <2>1. \A n \in Names : scenarioSuccess'[n] = IF Sc.name = n THEN FALSE ELSE scenarioSuccess[n]
    BY <1>2, <1>6, NameWritten DEF ScenarioSkipped
  <2>2. Sc.enabled /\ (MayStart(pos) /\ AllOk(pos)) = FALSE
    BY <1>3, <1>6 DEF ScenarioSkipped
  <2>3. \A n \in Names : scenarioSuccess'[n] =
           IF Sc.enabled /\ Sc.name = n THEN MayStart(pos) /\ AllOk(pos) ELSE scenarioSuccess[n]
    BY <2>1, <2>2
  <2> QED
    BY <1>1, <1>2, <1>4, <2>3, ScenarioPassed
<1> QED
  BY <1>5, <1>6

LEMMA CloseKeeps ==
  ASSUME IInv, IInv', SInv, Unfolds, Unfolds', AInv, StepsEnd \/ JoinSteps
  PROVE  SInv'
<1>1. InScenarios /\ pc \in {"steps", "wait"} /\ pc' = "scenario"
      /\ UNCHANGED <<cfg, order, results>> /\ pos' = pos + 1
  BY DEF StepsEnd, JoinSteps, CloseScenario, InScenarios, registry, ledger
<1>2. Sc = ScAt(pos) /\ Sc.name \in Names /\ Sc.steps \in Seq(Step)
  BY <1>1, ScenarioInProgress DEF Sc, ScAt
<1>3. MayStart(pos) /\ allSucceeded = AllOk(pos) /\ Sc.enabled
  BY <1>1, <1>2 DEF SInv, MayStart
<1>4. Behind(pos)
  <2>1. CASE StepsEnd
    <3>1. pc = "steps" /\ ~ScAt(pos).parallel /\ step \in Nat /\ step > Len(ScAt(pos).steps)
      BY <1>2, <2>1 DEF StepsEnd, AInv, ModeOK, IInv, TypeOK
    <3>2. \A s \in DOMAIN ScAt(pos).steps : s < step
      BY <1>2, <3>1
    <3>3. StepsRun(pos) = {s \in DOMAIN ScAt(pos).steps : s < step /\ Due(pos, s)}
      BY <1>1, <3>1 DEF SInv
    <3>4. StepsRun(pos) = {s \in DOMAIN ScAt(pos).steps : Due(pos, s)}
      BY <3>2, <3>3
    <3> QED
      BY <1>3, <3>1, <3>4 DEF Behind
  <2>2. CASE JoinSteps
    <3>1. pc = "wait" /\ ScAt(pos).parallel /\ \A s \in DOMAIN ScAt(pos).steps : task[s].pc = "done"
      BY <1>2, <2>2 DEF JoinSteps, AInv, ModeOK
    <3>2. StepsRun(pos) = {s \in DOMAIN ScAt(pos).steps : task[s].pc = "done"}
      BY <1>1, <3>1 DEF SInv
    <3>3. StepsRun(pos) = DOMAIN ScAt(pos).steps
      BY <3>1, <3>2
    <3> QED
      BY <1>3, <3>1, <3>3 DEF Behind
  <2> QED
    BY <2>1, <2>2
<1>5. scenarioSuccess' = [scenarioSuccess EXCEPT ![Sc.name] = allSucceeded] /\ allSucceeded \in BOOLEAN
  BY DEF StepsEnd, JoinSteps, CloseScenario, IInv, TypeOK
<1>6. \A n \in Names : scenarioSuccess'[n] = IF Sc.name = n THEN allSucceeded ELSE scenarioSuccess[n]
  BY <1>2, <1>5, NameWritten
<1>7. \A n \in Names : scenarioSuccess'[n] =
           IF Sc.enabled /\ Sc.name = n THEN MayStart(pos) /\ AllOk(pos) ELSE scenarioSuccess[n]
  <2>1. allSucceeded = (MayStart(pos) /\ AllOk(pos))
    BY <1>3, <1>5
  <2> QED
    BY <1>3, <1>6, <2>1
<1> QED
  BY <1>1, <1>2, <1>4, <1>7, ScenarioPassed

LEMMA ReturnKeeps ==
  ASSUME IInv, IInv', AInv, PInv, PInv', SInv, Unfolds, Unfolds', StepReturns
  PROVE  SInv'
<1>1. InScenarios /\ InScenarios' /\ pc = "step" /\ pc' = "steps" /\ step' = step + 1
      /\ UNCHANGED <<cfg, order, pos, scenarioSuccess>>
  BY DEF StepReturns, InScenarios, registry
<1>2. /\ step \in Slots /\ step # 0 /\ step \in DOMAIN Sc.steps /\ step \in Nat
      /\ Sc.steps \in Seq(Step) /\ ScAt(pos) = Sc /\ pos \in DOMAIN Scenarios
  BY <1>1, StepInSlots, ScenarioInProgress DEF IInv, TypeOK, LoopOK, ScAt, Sc
<1>3. PICK r \in Result : r = ResultAt(step, task[step], task[step].out)
  <2>1. task[step].pc = "return" /\ task[step] \in Task /\ Place(step) \in Places
    BY <1>2, SlotInUse DEF StepReturns, IInv, TypeOK
  <2>2. task[step].out \in Outcomes
    BY <2>1 DEF Task
  <2> QED
    BY <1>2, <2>1, <2>2, ResultTyped
<1>4. r.at = <<order[pos], step>> /\ r.out = task[step].out /\ results' = Append(results, r)
  BY <1>2, <1>3 DEF ResultAt, Place, StepReturns
<1>5. r.at[1] = order[pos] /\ r.at[2] = step
  BY <1>4
<1>6. prevSuccess' = Success(r) /\ allSucceeded' = (allSucceeded /\ Success(r))
  BY <1>4 DEF StepReturns, Success
<1>7. /\ \A k \in 1 .. pos - 1 : Behind(k)'
      /\ \A n \in Names : scenarioSuccess'[n] = Passed'[LatestNamed(n, pos)']
      /\ MayStart(pos)' = MayStart(pos)
  BY <1>1, <1>2, <1>4, <1>5, ScenarioGrows
<1>8. /\ MayStart(pos) /\ allSucceeded = AllOk(pos) /\ prevSuccess = PrevOk(pos, step) /\ Due(pos, step)
      /\ StepsRun(pos) = {s \in DOMAIN ScAt(pos).steps : s < step /\ Due(pos, s)}
  BY <1>1 DEF SInv
<1>9. Distinct /\ Distinct'
  BY DEF PInv
<1>10. StepsRun(pos)' = StepsRun(pos) \cup {step}
  BY <1>1, <1>4, <1>5, <1>9, ResultAdded
<1>11. AllOk(pos)' = (AllOk(pos) /\ Success(r))
  BY <1>1, <1>4, <1>5, <1>9, OthersStay
<1>12. PICK k, m : k = pos /\ m = step
  OBVIOUS
<1>13. /\ \A s \in Nat : s <= m => Due(k, s)' = Due(k, s)
       /\ PrevOk(k, m + 1)' = Success(r)
  <2>1. StepsRun(k) \subseteq {s \in Nat : s < r.at[2]}
    BY <1>2, <1>5, <1>8, <1>12
  <2>2. order[k] = r.at[1] /\ r.at[2] \in Nat /\ r.at[2] = m
    BY <1>2, <1>5, <1>12
  <2>3. /\ \A s \in Nat : s <= r.at[2] => PrevOk(k, s)' = PrevOk(k, s) /\ Due(k, s)' = Due(k, s)
        /\ PrevOk(k, r.at[2] + 1)' = Success(r)
    BY <1>1, <1>4, <1>9, <2>1, <2>2, NextStepKnows
  <2> QED
    BY <2>2, <2>3
<1>14. \A s \in Nat : s <= step => Due(pos, s)' = Due(pos, s)
  BY <1>1, <1>12, <1>13
<1>15. PrevOk(pos, step)' = Success(r)
  <2>1. pos' = k /\ step' = m + 1
    BY <1>1, <1>12
  <2> QED
    BY <1>13, <2>1
<1>16. StepsRun(pos)' = {s \in DOMAIN ScAt(pos)'.steps : s < step' /\ Due(pos, s)'}
  <2>1. ScAt(pos)' = ScAt(pos)
    BY <1>1, LatestFrame
  <2>2. \A s \in DOMAIN ScAt(pos).steps :
          (s < step + 1 /\ Due(pos, s)') <=> ((s < step /\ Due(pos, s)) \/ s = step)
    <3> TAKE s \in DOMAIN ScAt(pos).steps
    <3>1. s \in Nat /\ (s < step + 1 <=> s <= step) /\ (s <= step <=> s < step \/ s = step)
      BY <1>2
    <3> QED
      BY <1>8, <1>14, <3>1
  <2>3. \A s : s \in StepsRun(pos)' <=> s \in DOMAIN ScAt(pos).steps /\ ((s < step /\ Due(pos, s)) \/ s = step)
    BY <1>2, <1>8, <1>10
  <2> QED
    BY <1>1, <2>1, <2>2, <2>3
<1> QED
  BY <1>1, <1>6, <1>7, <1>8, <1>11, <1>15, <1>16 DEF SInv

LEMMA StoreKeeps ==
  ASSUME IInv, IInv', AInv, PInv, PInv', SInv, Unfolds, Unfolds', NEW s \in Slots, StoreResult(s)
  PROVE  SInv'
<1>1. InScenarios /\ InScenarios' /\ pc = "wait" /\ pc' = "wait"
      /\ UNCHANGED <<cfg, order, pos, scenarioSuccess>>
  BY DEF StoreResult, InScenarios, registry
<1>2. /\ task[s].pc = "return" /\ task[s] \in Task /\ Place(s) \in Places /\ task \in [Slots -> Task]
  BY SlotInUse DEF StoreResult, IInv, TypeOK
<1>3. s # 0 /\ s \in DOMAIN Sc.steps /\ ScAt(pos) = Sc /\ pos \in DOMAIN Scenarios
  BY <1>1, <1>2, SlotInUse DEF IInv, TasksOK, LoopOK, ScAt, Sc
<1>4. PICK r \in Result : r = ResultAt(s, task[s], task[s].out)
  <2>1. task[s].out \in Outcomes
    BY <1>2 DEF Task
  <2> QED
    BY <1>2, <2>1, ResultTyped
<1>5. r.at = <<order[pos], s>> /\ r.out = task[s].out /\ results' = Append(results, r)
  BY <1>3, <1>4 DEF ResultAt, Place, StoreResult
<1>6. r.at[1] = order[pos] /\ r.at[2] = s
  BY <1>5
<1>7. allSucceeded' = (allSucceeded /\ Success(r))
  BY <1>5 DEF StoreResult, Success
<1>8. /\ \A k \in 1 .. pos - 1 : Behind(k)'
      /\ \A n \in Names : scenarioSuccess'[n] = Passed'[LatestNamed(n, pos)']
      /\ MayStart(pos)' = MayStart(pos)
  BY <1>1, <1>3, <1>5, <1>6, ScenarioGrows
<1>9. /\ MayStart(pos) /\ allSucceeded = AllOk(pos)
      /\ StepsRun(pos) = {u \in DOMAIN ScAt(pos).steps : task[u].pc = "done"}
  BY <1>1 DEF SInv
<1>10. StepsRun(pos)' = StepsRun(pos) \cup {s} /\ AllOk(pos)' = (AllOk(pos) /\ Success(r))
  BY <1>1, <1>5, <1>6, ResultAdded, OthersStay DEF PInv
<1>11. StepsRun(pos)' = {u \in DOMAIN ScAt(pos)'.steps : task'[u].pc = "done"}
  <2>1. ScAt(pos)' = ScAt(pos)
    BY <1>1, LatestFrame
  <2>2. DOMAIN Sc.steps \subseteq Slots
    <3>1. Sc.steps \in Seq(Step) /\ Len(Sc.steps) \in Nat /\ Len(Sc.steps) <= MaxSteps
      BY <1>1, ScenarioInProgress
    <3> QED
      BY <3>1, BoundsAssumption DEF Slots
  <2>3. \A u \in Slots : task'[u].pc = IF u = s THEN "done" ELSE task[u].pc
    <3>1. [task[s] EXCEPT !.pc = "done"].pc = "done"
      BY <1>2 DEF Task
    <3>2. task' = [task EXCEPT ![s] = [task[s] EXCEPT !.pc = "done"]]
      BY DEF StoreResult
    <3> QED
      BY <1>2, <3>1, <3>2
  <2>4. \A u \in DOMAIN Sc.steps : task'[u].pc = "done" <=> (u = s \/ task[u].pc = "done")
    BY <2>2, <2>3
  <2> QED
    BY <1>3, <1>9, <1>10, <2>1, <2>4
<1> QED
  BY <1>1, <1>7, <1>8, <1>9, <1>10, <1>11 DEF SInv

LEMMA CallKeeps ==
  ASSUME IInv, IInv', SInv, Unfolds, Unfolds', CallStep
  PROVE  SInv'
<1>1. InScenarios /\ pc = "steps" /\ pc' = "step"
      /\ UNCHANGED <<cfg, order, results, pos, step, prevSuccess, allSucceeded, scenarioSuccess>>
  BY DEF CallStep, InScenarios, registry, loop, ledger
<1>2. step \in DOMAIN Sc.steps
  BY <1>1, StepInSlots DEF CallStep
<1>3. Due(pos, step)
  BY <1>1, <1>2, ConditionIsDue DEF CallStep
<1> QED
  BY <1>1, <1>3, PassingKeeps

LEMMA TaskKeeps ==
  ASSUME IInv, IInv', SInv, Unfolds, Unfolds', NEW s \in Slots, SlotStep(s), ~StoreResult(s), InScenarios
  PROVE  SInv'
<1>1. s # 0
  <2>1. CASE s = 0
    <3>1. task[0].pc = "none"
      BY <2>1, SlotInUse DEF InScenarios
    <3> QED
      BY <2>1, <3>1 DEF SlotStep, Lookup, CheckContext, StartRun, ListRunReturns, RunSucceeds, RunFails,
                         Notify, Notified, StoreResult
  <2> QED
    BY <2>1
<1>2. UNCHANGED <<cfg, order, results, pos, step, prevSuccess, allSucceeded, scenarioSuccess, pc>>
  BY <1>1 DEF SlotStep, Lookup, CheckContext, StartRun, RunSucceeds, RunFails, Notify, Notified, TaskStep,
              registry, loop, ledger
<1>3. task[s].pc # "done" /\ task'[s].pc # "done" /\ \A u \in Slots \ {s} : task'[u] = task[u]
  <2>1. task \in [Slots -> Task] /\ task[s] \in Task
    BY DEF IInv, TypeOK
  <2>2. task[s].pc # "done"
    BY <1>1 DEF SlotStep, Lookup, CheckContext, StartRun, RunSucceeds, RunFails, Notify, Notified
  <2>3. \A u \in Slots \ {s} : task'[u] = task[u]
    BY <1>1, <2>1 DEF SlotStep, Lookup, CheckContext, StartRun, RunSucceeds, RunFails, Notify, Notified, TaskStep
  <2>4. ASSUME NEW t, TaskStep(s, t)
        PROVE  task'[s] = t
    BY <2>1, <2>4 DEF TaskStep
  <2>5. CASE Lookup(s) \/ CheckContext(s) \/ StartRun(s) \/ Notified(s) \/ RunSucceeds(s)
    <3>1. PICK p, o : /\ p # "done"
                      /\ TaskStep(s, [task[s] EXCEPT !.pc = p]) \/ TaskStep(s, [task[s] EXCEPT !.pc = p, !.out = o])
      BY <2>5 DEF Lookup, CheckContext, StartRun, Notified, RunSucceeds
    <3>2. [task[s] EXCEPT !.pc = p].pc = p /\ [task[s] EXCEPT !.pc = p, !.out = o].pc = p
      BY <2>1 DEF Task
    <3> QED
      BY <2>2, <2>3, <2>4, <3>1, <3>2
  <2>6. CASE RunFails(s)
    <3>1. TaskStep(s, [task[s] EXCEPT !.pc = "check", !.attempt = @ + 1])
          \/ TaskStep(s, [task[s] EXCEPT !.pc = "notify", !.out = "fail"])
      BY <2>6 DEF RunFails
    <3>2. /\ [task[s] EXCEPT !.pc = "check", !.attempt = @ + 1].pc = "check"
          /\ [task[s] EXCEPT !.pc = "notify", !.out = "fail"].pc = "notify"
      BY <2>1 DEF Task
    <3> QED
      BY <2>2, <2>3, <2>4, <3>1, <3>2
  <2>7. CASE Notify(s)
    <3>1. [task[s] EXCEPT !.cb = @ + 1].pc = task[s].pc
      BY <2>1 DEF Task
    <3>2. task'[s] = [task[s] EXCEPT !.cb = @ + 1]
      BY <2>1, <2>7 DEF Notify
    <3> QED
      BY <2>2, <2>3, <3>1, <3>2
  <2> QED
    BY <1>1, <2>5, <2>6, <2>7 DEF SlotStep
<1>4. \A u \in DOMAIN Sc.steps : task'[u].pc = "done" <=> task[u].pc = "done"
  <2>1. Sc.steps \in Seq(Step) /\ Len(Sc.steps) \in Nat /\ Len(Sc.steps) <= MaxSteps
    <3>1. pc \in {"step", "wait"}
      <4>1. task[s].pc # "none"
        BY <1>1 DEF SlotStep, Lookup, CheckContext, StartRun, RunSucceeds, RunFails, Notify, Notified
      <4> QED
        BY <1>1, <4>1, SlotInUse
    <3> QED
      BY <3>1, ScenarioInProgress
  <2>2. DOMAIN Sc.steps \subseteq Slots
    BY <2>1, BoundsAssumption DEF Slots
  <2> QED
    BY <1>3, <2>2
<1> QED
  BY <1>2, <1>4, PassingKeeps

LEMMA ScenariosPreserved ==
  ASSUME IInv, IInv', AInv, PInv, PInv', SInv, Unfolds, Unfolds', [Next]_vars
  PROVE  SInv'
<1>1. SUFFICES ASSUME InScenarios'
               PROVE  SInv'
  BY DEF SInv
<1>2. CASE Begin
  <2>1. BeginScenarios
    BY <1>1, <1>2 DEF Begin, RefuseRun, BeginList, BeginScenarios, BeginRollback, EnterRunAll, InScenarios
  <2>2. pc' = "scenario" /\ pos' = 1 /\ \A n \in Names : scenarioSuccess'[n] = FALSE
    BY <2>1 DEF BeginScenarios
  <2>3. ASSUME NEW n \in Names
        PROVE  scenarioSuccess'[n] = Passed'[LatestNamed(n, pos)']
    <3>1. LatestNamed(n, pos)' = 0
      <4>1. {j \in 1 .. pos' - 1 : ScAt(j)'.enabled /\ ScAt(j)'.name = n} = {}
        BY <2>2
      <4> QED
        BY <4>1 DEF LatestNamed
    <3>2. Passed'[0] = FALSE
      <4>1. 0 \in 0 .. pos' /\ ~(0 > 0)
        BY <2>2
      <4>2. Passed'[0] = (0 > 0 /\ MayStart(0)' /\ AllOk(0)')
        BY <4>1 DEF Unfolds
      <4> QED
        BY <4>1, <4>2
    <3> QED
      BY <2>2, <3>1, <3>2
  <2> QED
    BY <2>2, <2>3 DEF SInv
<1>3. CASE Setup \/ Cancel \/ Finished \/ UNCHANGED vars
  <2>1. /\ UNCHANGED <<cfg, order, results, pos, step, prevSuccess, allSucceeded, scenarioSuccess, pc, task>>
        /\ InScenarios
    BY <1>1, <1>3 DEF Setup, Register, RegisterNamed, OnResult, Cancel, Finished, vars, registry, loop,
                      ledger, InScenarios
  <2> QED
    BY <2>1, PassingKeeps
<1>4. CASE CallerStep
  <2>1. CASE ListCancelled \/ ListDryRun \/ ListRun \/ ListNext \/ ListEnd \/ ScenariosEnd \/ EndRollback
             \/ RollbackOne
    BY <1>1, <2>1 DEF ListCancelled, ListDryRun, ListRun, ListNext, ListEnd, ScenariosEnd, RollbackOne,
                      EndRollback, InScenarios
  <2> QED
    BY <1>4, <2>1, DisabledKeeps, ForkKeeps, BeginKeeps, SkipKeeps, CallKeeps, ReturnKeeps, CloseKeeps
    DEF CallerStep
<1>5. ASSUME NEW s \in Slots, SlotStep(s)
      PROVE  SInv'
  <2>1. InScenarios
    BY <1>1, <1>5 DEF SlotStep, Lookup, CheckContext, StartRun, ListRunReturns, RunSucceeds, RunFails,
                      Notify, Notified, StoreResult, TaskStep, InScenarios
  <2> QED
    BY <1>5, <2>1, StoreKeeps, TaskKeeps
<1> QED
  BY <1>2, <1>3, <1>4, <1>5 DEF Next

\* Where the scenarios stand, in every reachable state.
THEOREM ScenarioInvariance == SafeEngine => [](SInv /\ Unfolds)
<1>1. IInv => Unfolds
  BY PassedUnfolds DEF IInv, TypeOK
<1>2. Init => SInv
  BY DEF Init, SInv, InScenarios
<1>3. /\ IInv /\ AInv /\ PInv /\ SInv /\ Unfolds
      /\ IInv' /\ PInv' /\ Unfolds' /\ [Next]_vars
      => SInv'
  BY ScenariosPreserved
<1> QED
  BY <1>1, <1>2, <1>3, Invariance, ReturnedInvariance, PlacesInvariance, PTL DEF SafeEngine

\* An experiment of a scenario that the loop has passed ran only if what the
\* scenario depends on had passed (engine.go:197-209).
THEOREM PrerequisitesGate == Spec => []PrerequisiteGate
<1>1. SInv => PrerequisiteGate
  BY DEF SInv, Behind, PrerequisiteGate
<1> QED
  BY <1>1, ScenarioInvariance, PTL DEF Spec, SafeEngine

\* No result is doubled or lost (engine.go:215-230).
THEOREM ResultsAreExact == Spec => []OneResultEach
<1>1. SInv /\ PInv => OneResultEach
  BY DEF SInv, Behind, PInv, Distinct, OneResultEach
<1> QED
  BY <1>1, ScenarioInvariance, PlacesInvariance, PTL DEF Spec, SafeEngine

\* What is behind the loop satisfies the conditions.
LEMMA ConditionsFollow == SInv => ConditionalSteps
<1> SUFFICES ASSUME SInv, InScenarios, NEW k \in 1 .. pos - 1, ~ScAt(k).parallel, MayStart(k)
             PROVE  StepsRun(k) = {s \in DOMAIN ScAt(k).steps : Due(k, s)}
  BY DEF ConditionalSteps, Due, PrevOk
<1> QED
  BY DEF SInv, Behind

\* The conditions of a sequential scenario's steps decide, by the results,
\* which of them run (engine.go:232-256).
THEOREM ConditionsDecide == Spec => []ConditionalSteps
<1>1. SInv => ConditionalSteps
  BY ConditionsFollow
<1> QED
  BY <1>1, ScenarioInvariance, PTL DEF Spec, SafeEngine

-----------------------------------------------------------------------------
(* A sum of natural numbers is the size of a set that has as many elements *)
(* for each summand as the summand says.                                   *)

Units(f, I) == {u \in I \X Nat : u[2] < f[u[1]]}

\* One summand has as many units as it says.
LEMMA UnitsOfOne ==
  ASSUME NEW f, NEW x, f[x] \in Nat
  PROVE  IsFiniteSet(Units(f, {x})) /\ Cardinality(Units(f, {x})) = f[x]
<1> DEFINE n == f[x]
           b == [i \in 1 .. n |-> <<x, i - 1>>]
<1>1. IsFiniteSet(1 .. n) /\ Cardinality(1 .. n) = n
  BY FS_Interval
<1>2. b \in Bijection(1 .. n, Units(f, {x}))
  <2>1. \A i \in 1 .. n : b[i] \in Units(f, {x})
    BY DEF Units
  <2>2. \A i, j \in 1 .. n : b[i] = b[j] => i = j
    OBVIOUS
  <2>3. ASSUME NEW u \in Units(f, {x})
        PROVE  \E i \in 1 .. n : b[i] = u
    <3>1. u = <<x, u[2]>> /\ u[2] \in Nat /\ u[2] < n
      BY DEF Units
    <3>2. u[2] + 1 \in 1 .. n /\ b[u[2] + 1] = u
      BY <3>1
    <3> QED
      BY <3>2
  <2> HIDE DEF n
  <2> QED
    BY <2>1, <2>2, <2>3 DEF Bijection, Injection, Surjection, IsInjective
<1> HIDE DEF n, b
<1>3. ExistsBijection(1 .. n, Units(f, {x}))
  BY <1>2 DEF ExistsBijection
<1> QED
  BY <1>1, <1>3, FS_Bijection DEF n

\* Taking a summand out of a finite sum takes its units out.
LEMMA UnitsWithout ==
  ASSUME NEW f, NEW I, NEW x \in I, f[x] \in Nat, IsFiniteSet(Units(f, I \ {x}))
  PROVE  /\ IsFiniteSet(Units(f, I))
         /\ Cardinality(Units(f, I)) = f[x] + Cardinality(Units(f, I \ {x}))
<1> DEFINE U == Units(f, I \ {x})
           V == Units(f, {x})
<1>1. Units(f, I) = U \cup V /\ U \cap V = {}
  BY DEF Units
<1>2. IsFiniteSet(V) /\ Cardinality(V) = f[x]
  BY UnitsOfOne
<1>3. Cardinality(U \cap V) = 0
  BY <1>1, FS_EmptySet
<1> HIDE DEF U, V
<1>4. IsFiniteSet(U \cup V) /\ Cardinality(U \cup V) = Cardinality(U) + Cardinality(V) - Cardinality(U \cap V)
  BY <1>2, FS_Union DEF U
<1>5. Cardinality(U) \in Nat
  BY FS_CardinalityType DEF U
<1> QED
  BY <1>1, <1>2, <1>3, <1>4, <1>5 DEF U

\* Finitely many summands have finitely many units.
LEMMA UnitsFinite ==
  ASSUME NEW I, IsFiniteSet(I), NEW f \in [I -> Nat], NEW S \in SUBSET I
  PROVE  IsFiniteSet(Units(f, S))
<1> DEFINE T == {W \in SUBSET I : ~IsFiniteSet(Units(f, W))}
<1> SUFFICES ASSUME T # {}
             PROVE  FALSE
  OBVIOUS
<1>1. PICK W \in T : \A V \in T : V \subseteq W => V = W
  <2>1. T \subseteq SUBSET I
    OBVIOUS
  <2> HIDE DEF T
  <2> QED
    BY <2>1, SmallestSet
<1>2. W # {}
  <2>1. Units(f, {}) = {}
    BY DEF Units
  <2> QED
    BY <2>1, FS_EmptySet
<1>3. PICK x \in W : TRUE
  BY <1>2
<1>4. IsFiniteSet(Units(f, W \ {x}))
  BY <1>1, <1>3
<1>5. f[x] \in Nat
  BY <1>3
<1> QED
  BY <1>3, <1>4, <1>5, UnitsWithout

\* The recursive definition of a sum has one solution, and it counts the units.
SumsUp(f, I, g) ==
  g = [S \in SUBSET I |->
         IF S = {} THEN 0 ELSE LET x == CHOOSE y \in S : TRUE IN f[x] + g[S \ {x}]]

\* SumFunction is the number of the units.
LEMMA SumIsCount ==
  ASSUME NEW I, IsFiniteSet(I), NEW f \in [I -> Nat]
  PROVE  Sums!SumFunction(f) = Cardinality(Units(f, I))
<1> DEFINE count == [S \in SUBSET I |-> Cardinality(Units(f, S))]
           sum == CHOOSE g : SumsUp(f, I, g)
<1>1. ASSUME NEW S \in SUBSET I, S # {}
      PROVE  LET x == CHOOSE y \in S : TRUE
             IN  x \in S /\ count[S] = f[x] + count[S \ {x}]
  <2> DEFINE x == CHOOSE y \in S : TRUE
  <2>1. x \in S
    BY <1>1
  <2> HIDE DEF x
  <2>2. f[x] \in Nat /\ IsFiniteSet(Units(f, S \ {x}))
    BY <2>1, UnitsFinite
  <2>3. Cardinality(Units(f, S)) = f[x] + Cardinality(Units(f, S \ {x}))
    BY <2>1, <2>2, UnitsWithout
  <2> QED
    BY <2>1, <2>3 DEF x
<1>2. count[{}] = 0
  <2>1. Units(f, {}) = {}
    BY DEF Units
  <2> QED
    BY <2>1, FS_EmptySet
<1>3. SumsUp(f, I, count)
  <2> HIDE DEF count
  <2>1. count = [S \in SUBSET I |-> count[S]]
    BY DEF count
  <2> QED
    BY <1>1, <1>2, <2>1 DEF SumsUp
<1>4. SumsUp(f, I, sum)
  BY <1>3
<1>5. sum = count
  <2> DEFINE T == {S \in SUBSET I : sum[S] # count[S]}
  <2> HIDE DEF sum
  <2>1. sum = [S \in SUBSET I |-> sum[S]] /\ sum[{}] = 0
        /\ \A S \in SUBSET I : S # {} =>
             LET x == CHOOSE y \in S : TRUE IN sum[S] = f[x] + sum[S \ {x}]
    BY <1>4 DEF SumsUp
  <2>2. ASSUME T # {}
        PROVE  FALSE
    <3>1. PICK W \in T : \A V \in T : V \subseteq W => V = W
      <4>1. T \subseteq SUBSET I
        OBVIOUS
      <4> HIDE DEF T
      <4> QED
        BY <2>2, <4>1, SmallestSet
    <3>2. W # {}
      BY <1>2, <2>1
    <3> DEFINE x == CHOOSE y \in W : TRUE
    <3>3. x \in W /\ count[W] = f[x] + count[W \ {x}] /\ sum[W] = f[x] + sum[W \ {x}]
      BY <1>1, <2>1, <3>2
    <3> HIDE DEF x, count
    <3>4. sum[W \ {x}] = count[W \ {x}]
      BY <3>1, <3>3
    <3> QED
      BY <3>3, <3>4
  <2>3. \A S \in SUBSET I : sum[S] = count[S]
    BY <2>2
  <2>4. count = [S \in SUBSET I |-> count[S]]
    OBVIOUS
  <2> HIDE DEF count
  <2> QED
    BY <2>1, <2>3, <2>4
<1>6. Sums!SumFunctionOnSet(f, I) = sum[I]
  BY DEF Sums!SumFunctionOnSet, Sums!FoldFunctionOnSet, Sums!MapThenFoldSet, SumsUp
<1>7. Sums!SumFunction(f) = sum[I]
  BY <1>6 DEF Sums!SumFunction
<1> HIDE DEF sum
<1> QED
  BY <1>5, <1>7

\* A finite sum of natural numbers is one.
LEMMA SumTyped ==
  ASSUME NEW I, IsFiniteSet(I), NEW f \in [I -> Nat]
  PROVE  Sums!SumFunction(f) \in Nat
<1>1. IsFiniteSet(Units(f, I))
  BY UnitsFinite
<1> QED
  BY <1>1, SumIsCount, FS_CardinalityType

\* A sum is no larger than another one if each of its summands is within one
\* of the other's, and no two within the same.
LEMMA SumWithin ==
  ASSUME NEW I, IsFiniteSet(I), NEW f \in [I -> Nat],
         NEW J, IsFiniteSet(J), NEW h \in [J -> Nat], NEW to,
         \A i \in I : f[i] # 0 => to[i] \in J /\ f[i] <= h[to[i]],
         \A i, j \in I : f[i] # 0 /\ f[j] # 0 /\ to[i] = to[j] => i = j
  PROVE  Sums!SumFunction(f) <= Sums!SumFunction(h)
<1> DEFINE into == [u \in Units(f, I) |-> <<to[u[1]], u[2]>>]
<1>1. \A u \in Units(f, I) : u[1] \in I /\ u[2] \in Nat /\ f[u[1]] # 0 /\ u[2] < f[u[1]] /\ u = <<u[1], u[2]>>
  BY DEF Units
<1>2. \A u \in Units(f, I) : into[u] \in Units(h, J)
  <2> SUFFICES ASSUME NEW u \in Units(f, I)
               PROVE  <<to[u[1]], u[2]>> \in Units(h, J)
    OBVIOUS
  <2>1. to[u[1]] \in J /\ f[u[1]] <= h[to[u[1]]] /\ h[to[u[1]]] \in Nat /\ f[u[1]] \in Nat
    BY <1>1
  <2> QED
    BY <1>1, <2>1 DEF Units
<1>3. \A u, v \in Units(f, I) : into[u] = into[v] => u = v
  <2> SUFFICES ASSUME NEW u \in Units(f, I), NEW v \in Units(f, I), to[u[1]] = to[v[1]], u[2] = v[2]
               PROVE  u = v
    OBVIOUS
  <2>1. u[1] = v[1]
    BY <1>1
  <2> QED
    BY <1>1, <2>1
<1>4. into \in Injection(Units(f, I), Units(h, J))
  BY <1>2, <1>3 DEF Injection, IsInjective
<1>5. IsFiniteSet(Units(h, J))
  BY UnitsFinite
<1> HIDE DEF into
<1>6. Cardinality(Units(f, I)) <= Cardinality(Units(h, J))
  BY <1>4, <1>5, FS_Injection
<1> QED
  BY <1>6, SumIsCount

\* A sum falls when one of its summands does and none rises.
LEMMA SumFalls ==
  ASSUME NEW I, IsFiniteSet(I), NEW f \in [I -> Nat], NEW h \in [I -> Nat],
         \A i \in I : f[i] <= h[i], \E i \in I : f[i] < h[i]
  PROVE  Sums!SumFunction(f) < Sums!SumFunction(h)
<1>1. Units(f, I) \subseteq Units(h, I)
  BY DEF Units
<1>2. Units(f, I) # Units(h, I)
  <2>1. PICK i \in I : f[i] < h[i]
    OBVIOUS
  <2>2. <<i, f[i]>> \in Units(h, I) /\ <<i, f[i]>> \notin Units(f, I)
    BY <2>1 DEF Units
  <2> QED
    BY <2>2
<1>3. IsFiniteSet(Units(f, I)) /\ IsFiniteSet(Units(h, I))
  BY UnitsFinite
<1>4. Cardinality(Units(f, I)) <= Cardinality(Units(h, I))
      /\ Cardinality(Units(f, I)) # Cardinality(Units(h, I))
  BY <1>1, <1>2, <1>3, FS_Subset
<1>5. Cardinality(Units(f, I)) \in Nat /\ Cardinality(Units(h, I)) \in Nat
  BY <1>3, FS_CardinalityType
<1> QED
  BY <1>4, <1>5, SumIsCount

-----------------------------------------------------------------------------
(* The cap on destructive actions.                                         *)

\* Each name has a registration of its own that its experiment came with.
NamesPlaced ==
  \E at \in [Ids -> 0 .. Len(experiments)] :
     \A id \in Ids : namedExperiments[id] # NoExp =>
        /\ at[id] \in DOMAIN experiments
        /\ experiments[at[id]] = namedExperiments[id]
        /\ \A k \in Ids : namedExperiments[k] # NoExp /\ at[k] = at[id] => k = id

\* A result leads to a registered experiment.
Registered(r) ==
  IF r.at[1] = 0 THEN Scenarios = <<>> /\ r.at[2] \in DOMAIN experiments
  ELSE /\ r.at[1] \in DOMAIN Scenarios
       /\ r.at[2] \in DOMAIN Scenarios[r.at[1]].steps
       /\ namedExperiments[Scenarios[r.at[1]].steps[r.at[2]].name] # NoExp

TasksRegistered ==
  \A s \in Slots \ {0} : task[s].pc \in {"notify", "return"} /\ task[s].out # "unknown" =>
    namedExperiments[StepOf(s).name] # NoExp

ResultsRegistered == \A i \in DOMAIN results : results[i].out # "unknown" => Registered(results[i])

\* The cap was respected by what is registered when the RunAll with these
\* results began, and nothing is registered any more.
CapOK == results # <<>> \/ pc \notin {"idle", "rollback"} => ~CapExceeded

\* What each result costs is counted by the cap that was compared.
BInv == NamesPlaced /\ TasksRegistered /\ ResultsRegistered /\ CapOK

\* A registration leaves the earlier ones where they are.
LEMMA NamesStay ==
  ASSUME IInv, NamesPlaced, [Next]_vars
  PROVE  NamesPlaced'
<1>1. CASE UNCHANGED registry
  BY <1>1 DEF NamesPlaced, registry
<1>2. PICK at \in [Ids -> 0 .. Len(experiments)] :
        \A id \in Ids : namedExperiments[id] # NoExp =>
          /\ at[id] \in DOMAIN experiments
          /\ experiments[at[id]] = namedExperiments[id]
          /\ \A k \in Ids : namedExperiments[k] # NoExp /\ at[k] = at[id] => k = id
  BY DEF NamesPlaced
<1>3. experiments \in Seq(Exps) /\ Len(experiments) \in Nat /\ namedExperiments \in [Ids -> Exps \cup {NoExp}]
  BY DEF IInv, TypeOK
<1>4. ASSUME NEW e \in Exps, Register(e)
      PROVE  NamesPlaced'
  <2>1. /\ experiments' \in Seq(Exps) /\ Len(experiments') = Len(experiments) + 1
        /\ \A i \in DOMAIN experiments : i \in DOMAIN experiments' /\ experiments'[i] = experiments[i]
        /\ namedExperiments' = namedExperiments
    BY <1>3, <1>4, AppendFacts DEF Register
  <2>2. at \in [Ids -> 0 .. Len(experiments')]
    BY <1>3, <2>1
  <2> QED
    BY <1>2, <2>1, <2>2 DEF NamesPlaced
<1>5. ASSUME NEW n \in Ids, NEW e \in Exps, RegisterNamed(n, e)
      PROVE  NamesPlaced'
  <2> DEFINE last == Len(experiments) + 1
             to   == [id \in Ids |-> IF id = n THEN last ELSE at[id]]
  <2>1. /\ experiments' \in Seq(Exps) /\ Len(experiments') = Len(experiments) + 1
        /\ \A i \in DOMAIN experiments : i \in DOMAIN experiments' /\ experiments'[i] = experiments[i]
        /\ last \in DOMAIN experiments' /\ experiments'[last] = e
    BY <1>3, <1>5, AppendFacts DEF RegisterNamed
  <2>2. \A id \in Ids : namedExperiments'[id] = IF id = n THEN e ELSE namedExperiments[id]
    BY <1>3, <1>5 DEF RegisterNamed
  <2>3. to \in [Ids -> 0 .. Len(experiments')]
    BY <1>3, <2>1
  <2>4. last \notin DOMAIN experiments
    BY <1>3
  <2> HIDE DEF last
  <2>5. ASSUME NEW id \in Ids, namedExperiments'[id] # NoExp
        PROVE  /\ to[id] \in DOMAIN experiments'
               /\ experiments'[to[id]] = namedExperiments'[id]
               /\ \A k \in Ids : namedExperiments'[k] # NoExp /\ to[k] = to[id] => k = id
    <3>1. \A k \in Ids : k # n /\ namedExperiments'[k] # NoExp =>
            to[k] = at[k] /\ at[k] \in DOMAIN experiments /\ experiments[at[k]] = namedExperiments'[k]
      BY <1>2, <2>2
    <3>2. to[n] = last
      OBVIOUS
    <3>3. CASE id = n
      BY <2>1, <2>2, <2>4, <3>1, <3>2, <3>3
    <3>4. CASE id # n
      BY <1>2, <2>1, <2>2, <2>4, <2>5, <3>1, <3>2, <3>4
    <3> QED
      BY <3>3, <3>4
  <2> HIDE DEF to
  <2> QED
    BY <2>3, <2>5 DEF NamesPlaced
<1>6. CASE OnResult
  BY <1>6 DEF OnResult, NamesPlaced
<1>7. CASE Begin \/ Cancel \/ Finished \/ UNCHANGED vars
  BY <1>1, <1>7 DEF Begin, RefuseRun, BeginList, BeginScenarios, BeginRollback, EnterRunAll, Cancel, Finished, vars
<1>8. CASE CallerStep
  BY <1>1, <1>8
  DEF CallerStep, ListCancelled, ListDryRun, ListRun, ListNext, ListEnd, ScenarioDisabled, ScenarioSkipped,
      ForkSteps, BeginSteps, StepSkipped, CallStep, StepReturns, StepsEnd, JoinSteps, CloseScenario,
      ScenariosEnd, RollbackOne, EndRollback
<1>9. CASE \E s \in Slots : SlotStep(s)
  BY <1>1, <1>9
  DEF SlotStep, Lookup, CheckContext, StartRun, ListRunReturns, RunSucceeds, RunFails, Notify, Notified,
      StoreResult, TaskStep
<1> QED
  BY <1>4, <1>5, <1>6, <1>7, <1>8, <1>9 DEF Next, Setup

\* Nothing is registered while there are results, and the cap is only
\* compared when a RunAll begins.
LEMMA CapStays ==
  ASSUME IInv, PInv, CapOK, [Next]_vars
  PROVE  CapOK'
<1>1. CASE Setup
  <2>1. results' = <<>> /\ pc' = "idle"
    BY <1>1 DEF Setup, Register, RegisterNamed, OnResult, ledger, PInv, FiredOK
  <2> QED
    BY <2>1 DEF CapOK
<1>2. CASE Begin
  <2>1. CapExceeded' = CapExceeded
    BY <1>2 DEF Begin, RefuseRun, BeginList, BeginScenarios, BeginRollback, EnterRunAll, registry,
       CapExceeded, Destructive
  <2>2. \/ results' = <<>> /\ pc' = pc /\ pc = "idle"
        \/ ~CapExceeded
        \/ results' = results /\ pc' = "rollback"
    BY <1>2 DEF Begin, RefuseRun, BeginList, BeginScenarios, BeginRollback, EnterRunAll, ledger
  <2> QED
    BY <2>1, <2>2 DEF CapOK
<1>3. CASE Cancel \/ Finished \/ UNCHANGED vars
  BY <1>3 DEF Cancel, Finished, vars, registry, ledger, CapOK, CapExceeded, Destructive
<1>4. CASE CallerStep
  <2>1. CapExceeded' = CapExceeded
    BY <1>4
    DEF CallerStep, ListCancelled, ListDryRun, ListRun, ListNext, ListEnd, ScenarioDisabled, ScenarioSkipped,
        ForkSteps, BeginSteps, StepSkipped, CallStep, StepReturns, StepsEnd, JoinSteps, CloseScenario,
        ScenariosEnd, RollbackOne, EndRollback, registry, CapExceeded, Destructive
  <2>2. \/ pc \notin {"idle", "rollback"}
        \/ results' = results /\ pc' \in {"idle", "rollback"}
    BY <1>4
    DEF CallerStep, ListCancelled, ListDryRun, ListRun, ListNext, ListEnd, ScenarioDisabled, ScenarioSkipped,
        ForkSteps, BeginSteps, StepSkipped, CallStep, StepReturns, StepsEnd, JoinSteps, CloseScenario,
        ScenariosEnd, RollbackOne, EndRollback, ledger
  <2> QED
    BY <2>1, <2>2 DEF CapOK
<1>5. ASSUME NEW s \in Slots, SlotStep(s)
      PROVE  CapOK'
  <2>1. task[s].pc # "none" /\ UNCHANGED registry
    BY <1>5
    DEF SlotStep, Lookup, CheckContext, StartRun, ListRunReturns, RunSucceeds, RunFails, Notify, Notified,
        StoreResult, TaskStep
  <2>2. pc \notin {"idle", "rollback"}
    BY <2>1, SlotInUse
  <2> QED
    BY <2>1, <2>2 DEF CapOK, CapExceeded, Destructive, registry
<1> QED
  BY <1>1, <1>2, <1>3, <1>4, <1>5 DEF Next

\* Only the call in a slot moves its task to a result.
LEMMA CallersTasks ==
  ASSUME IInv, Setup \/ Cancel \/ Begin \/ CallerStep \/ Finished \/ UNCHANGED vars
  PROVE  \/ UNCHANGED <<task, cfg, namedExperiments, order, pos>>
         \/ \A s \in Slots \ {0} : task'[s].pc \notin {"notify", "return"}
<1>0. task \in [Slots -> Task] /\ NoTask.pc = "none" /\ [NoTask EXCEPT !.pc = "lookup"].pc = "lookup"
  BY DEF IInv, TypeOK, NoTask
<1>1. CASE Setup \/ Begin
  BY <1>1, NoneBusy
  DEF Setup, Register, RegisterNamed, OnResult, Begin, RefuseRun, BeginList, BeginScenarios, BeginRollback,
      EnterRunAll
<1>2. CASE Cancel \/ Finished \/ UNCHANGED vars
  BY <1>2 DEF Cancel, Finished, vars, registry, loop
<1>3. CASE ListCancelled \/ ListEnd \/ ScenarioDisabled \/ ScenarioSkipped \/ BeginSteps \/ StepSkipped
           \/ StepsEnd \/ ScenariosEnd \/ RollbackOne \/ EndRollback
  BY <1>3, NoneBusy
  DEF ListCancelled, ListEnd, ScenarioDisabled, ScenarioSkipped, BeginSteps, StepSkipped, StepsEnd,
      CloseScenario, ScenariosEnd, RollbackOne, EndRollback
<1>4. CASE ListDryRun \/ ListRun
  <2>1. \A s \in Slots \ {0} : task'[s] = task[s] /\ task[s].pc = "none"
    BY <1>0, <1>4, NoneBusy DEF ListDryRun, ListRun
  <2> QED
    BY <2>1
<1>5. CASE ListNext \/ StepReturns
  <2>1. \A s \in Slots : task[s].pc # "none" =>
          (ListNext /\ s = 0) \/ (StepReturns /\ s = step)
    BY <1>5 DEF ListNext, StepReturns, IInv, TasksOK, StructuredConcurrency, Busy
  <2>2. \A s \in Slots \ {0} : task'[s].pc = "none"
    BY <1>0, <1>5, <2>1 DEF ListNext, StepReturns
  <2> QED
    BY <2>2
<1>6. CASE CallStep
  <2>1. \A s \in Slots : task[s].pc = "none"
    BY <1>6, NoneBusy DEF CallStep
  <2>2. \A s \in Slots : task'[s].pc \in {"none", "lookup"}
    BY <1>0, <1>6, <2>1 DEF CallStep
  <2> QED
    BY <2>2
<1>7. CASE ForkSteps \/ JoinSteps
  <2>1. \A s \in Slots : task'[s].pc \in {"none", "lookup"}
    BY <1>0, <1>7 DEF ForkSteps, JoinSteps
  <2> QED
    BY <2>1
<1> QED
  BY <1>1, <1>2, <1>3, <1>4, <1>5, <1>6, <1>7 DEF CallerStep

\* A call that ended with a result of its experiment had found it.
LEMMA TasksStay ==
  ASSUME IInv, TasksRegistered, [Next]_vars
  PROVE  TasksRegistered'
<1>1. CASE Setup \/ Cancel \/ Begin \/ CallerStep \/ Finished \/ UNCHANGED vars
  BY <1>1, CallersTasks DEF TasksRegistered, StepOf, Sc, Scenarios
<1>2. ASSUME NEW s \in Slots, SlotStep(s)
      PROVE  TasksRegistered'
  <2>0. task \in [Slots -> Task] /\ UNCHANGED <<cfg, namedExperiments, order, pos>>
    BY <1>2
    DEF IInv, TypeOK, SlotStep, Lookup, CheckContext, StartRun, ListRunReturns, RunSucceeds, RunFails,
        Notify, Notified, StoreResult, TaskStep, registry, loop
  <2>1. \A u \in Slots \ {s} : task'[u] = task[u]
    BY <1>2, <2>0
    DEF SlotStep, Lookup, CheckContext, StartRun, ListRunReturns, RunSucceeds, RunFails, Notify, Notified,
        StoreResult, TaskStep
  <2>2. ASSUME s # 0, task'[s].pc \in {"notify", "return"}, task'[s].out # "unknown"
        PROVE  namedExperiments[StepOf(s).name] # NoExp
    <3>1. task[s] \in Task
      BY <2>0
    <3>2. CASE task[s].pc \in {"notify", "return"} /\ task[s].out = task'[s].out
      BY <2>2, <3>2 DEF TasksRegistered
    <3>3. CASE task[s].pc \in {"check", "running"}
      BY <2>2, <3>3 DEF IInv, TasksOK
    <3>4. CASE Lookup(s) \/ StartRun(s) \/ StoreResult(s)
      BY <2>0, <2>2, <3>1, <3>4 DEF Lookup, StartRun, StoreResult, TaskStep, Task
    <3>5. CASE Notify(s) \/ Notified(s)
      <4>1. task[s].pc = "notify" /\ task'[s].out = task[s].out
        BY <2>0, <3>1, <3>5 DEF Notify, Notified, TaskStep, Task
      <4> QED
        BY <3>2, <4>1
    <3>6. CASE CheckContext(s) \/ RunSucceeds(s) \/ RunFails(s)
      BY <3>3, <3>6 DEF CheckContext, RunSucceeds, RunFails
    <3> QED
      BY <1>2, <2>2, <3>4, <3>5, <3>6 DEF SlotStep
  <2> QED
    BY <2>0, <2>1, <2>2 DEF TasksRegistered, StepOf, Sc, Scenarios
<1> QED
  BY <1>1, <1>2 DEF Next

\* A result that is stored comes from a registered experiment, if from any.
LEMMA ResultRegistered ==
  ASSUME IInv, AInv, TasksRegistered, NEW s \in Slots, NEW out,
         \/ s = 0 /\ pc \in {"list", "exec"} /\ pos \in DOMAIN experiments
         \/ s # 0 /\ task[s].pc = "return" /\ out = task[s].out,
         out # "unknown"
  PROVE  Registered(ResultAt(s, task[s], out))
<1>1. ResultAt(s, task[s], out).at = Place(s)
  BY DEF ResultAt
<1>2. CASE s = 0
  <2>1. pc \in {"list", "exec"} /\ pos \in DOMAIN experiments
    BY <1>2
  <2> QED
    BY <1>1, <1>2, <2>1 DEF Registered, Place, AInv, ModeOK
<1>3. CASE s # 0
  <2>1. pc \in {"step", "wait"} /\ s \in DOMAIN Sc.steps /\ task[s].pc = "return" /\ out = task[s].out
    BY <1>3, SlotInUse
  <2>2. order[pos] \in DOMAIN Scenarios /\ order[pos] # 0
    <3>1. pos \in DOMAIN Scenarios /\ order \in [DOMAIN Scenarios -> DOMAIN Scenarios]
      BY <2>1 DEF IInv, LoopOK, InScenarios
    <3>2. order[pos] \in 1 .. MaxScenarios
      BY <2>1, ScenarioInProgress
    <3> QED
      BY <3>1, <3>2
  <2>3. namedExperiments[StepOf(s).name] # NoExp
    BY <1>3, <2>1 DEF TasksRegistered
  <2> QED
    BY <1>1, <1>3, <2>1, <2>2, <2>3 DEF Registered, Place, StepOf, Sc
<1> QED
  BY <1>2, <1>3

\* What is registered when a result is stored stays so.
LEMMA ResultsStay ==
  ASSUME IInv, AInv, PInv, TasksRegistered, ResultsRegistered, [Next]_vars
  PROVE  ResultsRegistered'
<1>0. results \in Seq(Result)
  BY DEF IInv, TypeOK
<1>1. ASSUME NEW s \in Slots, NEW out \in Outcomes, UNCHANGED registry,
             results' = Append(results, ResultAt(s, task[s], out)), task[s] \in Task,
             Place(s) \in Places,
             out # "unknown" => Registered(ResultAt(s, task[s], out))
      PROVE  ResultsRegistered'
  <2> DEFINE r == ResultAt(s, task[s], out)
  <2>1. r \in Result /\ r.out = out
    BY <1>1, ResultTyped DEF ResultAt
  <2> HIDE DEF r
  <2>2. \A i \in DOMAIN results' : results'[i] = r \/ \E j \in DOMAIN results : results'[i] = results[j]
    BY <1>0, <1>1, <2>1 DEF r
  <2>3. \A i \in DOMAIN results' : results'[i].out # "unknown" => Registered(results'[i])
    BY <1>1, <2>1, <2>2 DEF ResultsRegistered, r
  <2>4. UNCHANGED <<cfg, experiments, namedExperiments>>
    BY <1>1 DEF registry
  <2> QED
    BY <2>3, <2>4 DEF ResultsRegistered, Registered, Scenarios
<1>2. CASE Setup
  BY <1>2 DEF Setup, Register, RegisterNamed, OnResult, ledger, PInv, FiredOK, ResultsRegistered
<1>3. ASSUME UNCHANGED registry, results' \in {results, <<>>}
      PROVE  ResultsRegistered'
  BY <1>3 DEF registry, ResultsRegistered, Registered, Scenarios
<1>4. CASE Begin \/ Cancel \/ Finished \/ UNCHANGED vars
  BY <1>3, <1>4
  DEF Begin, RefuseRun, BeginList, BeginScenarios, BeginRollback, EnterRunAll, Cancel, Finished, vars, ledger
<1>5. CASE ListDryRun
  <2>1. 0 \in Slots /\ pc = "list" /\ pos \in DOMAIN experiments
    BY <1>5, BoundsAssumption DEF ListDryRun, Slots, IInv, LoopOK, TypeOK
  <2>2. Place(0) \in Places /\ task[0] \in Task
    BY <2>1, BoundsAssumption DEF Place, Places, IInv, RegistryOK, TypeOK
  <2>3. Registered(ResultAt(0, task[0], "dry"))
    BY <2>1, ResultRegistered
  <2> QED
    BY <1>1, <1>5, <2>1, <2>2, <2>3 DEF ListDryRun, Outcomes
<1>6. CASE StepReturns
  <2>1. step \in Slots /\ step # 0 /\ task[step].pc = "return"
    BY <1>6, StepInSlots DEF StepReturns
  <2>2. task[step] \in Task /\ task[step].out \in Outcomes /\ Place(step) \in Places
    BY <2>1, SlotInUse DEF IInv, TypeOK, Task
  <2>3. task[step].out # "unknown" => Registered(ResultAt(step, task[step], task[step].out))
    BY <2>1, ResultRegistered
  <2> QED
    BY <1>1, <1>6, <2>1, <2>2, <2>3 DEF StepReturns
<1>7. CASE CallerStep /\ ~ListDryRun /\ ~StepReturns
  BY <1>3, <1>7
  DEF CallerStep, ListCancelled, ListRun, ListNext, ListEnd, ScenarioDisabled, ScenarioSkipped, ForkSteps,
      BeginSteps, StepSkipped, CallStep, StepsEnd, JoinSteps, CloseScenario, ScenariosEnd, RollbackOne,
      EndRollback, ledger
<1>8. ASSUME NEW s \in Slots, SlotStep(s)
      PROVE  ResultsRegistered'
  <2>1. CASE StoreResult(s)
    <3>1. s # 0 /\ task[s].pc = "return"
      BY <2>1, BoundsAssumption DEF StoreResult, IInv, TasksOK
    <3>2. task[s] \in Task /\ task[s].out \in Outcomes /\ Place(s) \in Places
      BY <3>1, SlotInUse DEF IInv, TypeOK, Task
    <3>3. task[s].out # "unknown" => Registered(ResultAt(s, task[s], task[s].out))
      BY <3>1, ResultRegistered
    <3> QED
      BY <1>1, <2>1, <3>2, <3>3 DEF StoreResult
  <2>2. ASSUME s = 0, NEW out \in {"ok", "fail"}, ListRunReturns(out)
        PROVE  ResultsRegistered'
    <3>1. task[0] \in Task /\ out \in Outcomes /\ task[0].pc = "running" /\ Place(0) \in Places
      BY <2>2, SlotInUse DEF ListRunReturns, IInv, TypeOK, Outcomes
    <3>2. Registered(ResultAt(0, task[0], out))
      BY <2>2, <3>1, SlotInUse, ResultRegistered
    <3> QED
      BY <1>1, <2>2, <3>1, <3>2 DEF ListRunReturns
  <2>3. CASE Lookup(s) \/ CheckContext(s) \/ StartRun(s) \/ RunSucceeds(s) \/ RunFails(s)
             \/ Notify(s) \/ Notified(s)
    BY <1>3, <2>3 DEF Lookup, CheckContext, StartRun, RunSucceeds, RunFails, Notify, Notified, TaskStep, ledger
  <2> QED
    BY <1>8, <2>1, <2>2, <2>3 DEF SlotStep
<1> QED
  BY <1>2, <1>4, <1>5, <1>6, <1>7, <1>8 DEF Next

\* What the results cost was counted, in every state.
THEOREM BudgetInvariance == SafeEngine => []BInv
<1>1. Init => BInv
  <2> SUFFICES ASSUME Init
               PROVE  BInv
    OBVIOUS
  <2>1. NamesPlaced
    <3>1. [id \in Ids |-> 0] \in [Ids -> 0 .. Len(experiments)]
      BY DEF Init
    <3>2. \A id \in Ids : namedExperiments[id] = NoExp
      BY DEF Init
    <3> QED
      BY <3>1, <3>2 DEF NamesPlaced
  <2> QED
    BY <2>1 DEF Init, BInv, TasksRegistered, ResultsRegistered, CapOK, NoTask
<1>2. IInv /\ AInv /\ PInv /\ BInv /\ [Next]_vars => BInv'
  BY NamesStay, TasksStay, ResultsStay, CapStays DEF BInv
<1> QED
  BY <1>1, <1>2, Invariance, ReturnedInvariance, PlacesInvariance, PTL DEF SafeEngine

\* what one result costs: the experiment it is of, and its actions as often as
\* it was run
ExpOfResult(r) ==
  IF r.at[1] = 0 THEN experiments[r.at[2]]
  ELSE namedExperiments[Scenarios[r.at[1]].steps[r.at[2]].name]

Cost(r) == IF r.ran = 0 THEN 0 ELSE r.ran * DestructiveActionCount[ExpOfResult(r)]


\* Results of a scenario without repetition are within its bounds of retries.
LEMMA NoRetries ==
  ASSUME cfg \in Configs, NothingRepeated,
         NEW k \in DOMAIN Scenarios, NEW s \in DOMAIN Scenarios[k].steps
  PROVE  Scenarios[k].retries = 0 /\ Scenarios[k].steps[s].retries = 0
<1>1. Scenarios[k].retries \in Nat /\ Scenarios[k].steps[s].retries \in Nat
  <2>1. Scenarios[k] \in Scenario /\ Scenarios[k].steps[s] \in Step
    BY ConfigTyped
  <2> QED
    BY <2>1 DEF Scenario, Step
<1>2. Attempts(Scenarios[k], Scenarios[k].steps[s]) = 1
  BY DEF NothingRepeated
<1> QED
  BY <1>1, <1>2 DEF Attempts

\* A result costs nothing, or is of one call of a registered experiment.
LEMMA CostOfOne ==
  ASSUME IInv, RInv, BInv, NothingRepeated, NEW i \in DOMAIN results, results[i].ran # 0
  PROVE  /\ Registered(results[i]) /\ ExpOfResult(results[i]) \in Exps
         /\ Cost(results[i]) = DestructiveActionCount[ExpOfResult(results[i])]
<1> DEFINE r == results[i]
<1>1. r.out \in Outcomes /\ r.ran \in Nat
  <2>1. r \in Result
    BY DEF IInv, TypeOK
  <2> QED
    BY <2>1 DEF Result
<1>2. ResultFits(r)
  BY DEF RInv, RetryDiscipline, ResultFits
<1>3. r.out # "unknown" => Registered(r)
  BY DEF BInv, ResultsRegistered
<1>4. r.ran # 0
  OBVIOUS
<1> HIDE DEF r
<1>5. Registered(r)
  BY <1>2, <1>3, <1>4 DEF ResultFits
<1>6. r.ran = 1
  <2>1. CASE r.at[1] = 0
    BY <1>1, <1>2, <1>4, <2>1 DEF ResultFits, Outcomes
  <2>2. CASE r.at[1] # 0
    <3>1. Scenarios[r.at[1]].retries = 0 /\ Scenarios[r.at[1]].steps[r.at[2]].retries = 0
      BY <1>5, <2>2, NoRetries DEF Registered, IInv, TypeOK
    <3> QED
      BY <1>1, <1>2, <1>4, <2>2, <3>1 DEF ResultFits, Outcomes
  <2> QED
    BY <2>1, <2>2
<1>7. ExpOfResult(r) \in Exps
  <2>1. CASE r.at[1] = 0
    BY <1>5, <2>1 DEF Registered, ExpOfResult, IInv, TypeOK
  <2>2. CASE r.at[1] # 0
    <3>1. Scenarios[r.at[1]].steps[r.at[2]] \in Step
      BY <1>5, <2>2, ConfigTyped DEF Registered, IInv, TypeOK
    <3> QED
      BY <1>5, <2>2, <3>1 DEF Registered, ExpOfResult, IInv, TypeOK, Step
  <2> QED
    BY <2>1, <2>2
<1>8. DestructiveActionCount[ExpOfResult(r)] \in Nat
  BY <1>7, ExpsAssumption
<1> QED
  BY <1>5, <1>6, <1>7, <1>8 DEF Cost, r

\* The results cost no more than what is registered counts.
LEMMA SpentWithinDestructive ==
  ASSUME IInv, RInv, PInv, BInv, NothingRepeated
  PROVE  ActionsRun \in Nat /\ ActionsRun <= Destructive /\ Destructive \in Nat /\ (results = <<>> => ActionsRun = 0)
<1> DEFINE I == DOMAIN results
           J == DOMAIN experiments
           f == [i \in I |-> Cost(results[i])]
           h == [i \in J |-> DestructiveActionCount[experiments[i]]]
<1>1. IsFiniteSet(I) /\ IsFiniteSet(J)
  <2>1. Len(results) \in Nat /\ Len(experiments) \in Nat
        /\ I = 1 .. Len(results) /\ J = 1 .. Len(experiments)
    BY DEF IInv, TypeOK
  <2> QED
    BY <2>1, FS_Interval
<1>2. f \in [I -> Nat]
  <2>1. \A i \in I : results[i].ran # 0 => DestructiveActionCount[ExpOfResult(results[i])] \in Nat
    BY CostOfOne, ExpsAssumption
  <2>2. \A i \in I : Cost(results[i]) \in Nat
    BY <2>1, CostOfOne DEF Cost
  <2> QED
    BY <2>2
<1>3. h \in [J -> Nat]
  BY ExpsAssumption DEF IInv, TypeOK
<1>4. PICK at \in [Ids -> 0 .. Len(experiments)] :
        \A id \in Ids : namedExperiments[id] # NoExp =>
          /\ at[id] \in J
          /\ experiments[at[id]] = namedExperiments[id]
          /\ \A k \in Ids : namedExperiments[k] # NoExp /\ at[k] = at[id] => k = id
  BY DEF BInv, NamesPlaced
<1> DEFINE name(r) == Scenarios[r.at[1]].steps[r.at[2]].name
           to == [i \in I |-> IF results[i].at[1] = 0 THEN results[i].at[2] ELSE at[name(results[i])]]
<1>5. ASSUME NEW i \in I, f[i] # 0
      PROVE  /\ results[i].ran # 0 /\ Registered(results[i])
             /\ results[i].at[1] # 0 => name(results[i]) \in Ids
             /\ to[i] \in J /\ f[i] <= h[to[i]]
  <2>1. results[i].ran # 0
    BY <1>5 DEF Cost
  <2>2. Registered(results[i]) /\ f[i] = DestructiveActionCount[ExpOfResult(results[i])]
    BY <2>1, CostOfOne
  <2>3. CASE results[i].at[1] = 0
    <3>1. to[i] = results[i].at[2] /\ to[i] \in J /\ ExpOfResult(results[i]) = experiments[to[i]]
      BY <2>2, <2>3 DEF Registered, ExpOfResult
    <3>2. f[i] = h[to[i]] /\ f[i] \in Nat
      BY <1>2, <2>2, <3>1
    <3> HIDE DEF f, h, to
    <3> QED
      BY <2>1, <2>2, <2>3, <3>1, <3>2
  <2>4. CASE results[i].at[1] # 0
    <3>1. Scenarios[results[i].at[1]].steps[results[i].at[2]] \in Step
      BY <2>2, <2>4, ConfigTyped DEF Registered, IInv, TypeOK
    <3>2. name(results[i]) \in Ids /\ namedExperiments[name(results[i])] # NoExp
      BY <2>2, <2>4, <3>1 DEF Registered, Step
    <3>3. to[i] = at[name(results[i])] /\ to[i] \in J /\ ExpOfResult(results[i]) = experiments[to[i]]
      BY <1>4, <2>4, <3>2 DEF ExpOfResult
    <3>4. f[i] = h[to[i]] /\ f[i] \in Nat
      BY <1>2, <2>2, <3>3
    <3>5. f[i] <= h[to[i]]
      <4> HIDE DEF f, h, to
      <4> QED
        BY <3>4
    <3> QED
      BY <2>1, <2>2, <3>2, <3>3, <3>5
  <2> QED
    BY <2>3, <2>4
<1>6. ASSUME NEW i \in I, NEW j \in I, f[i] # 0, f[j] # 0, to[i] = to[j]
      PROVE  i = j
  <2>1. Registered(results[i]) /\ Registered(results[j])
    BY <1>5, <1>6
  <2>2. results[i].at \in Places /\ results[j].at \in Places
    BY ResultPlaces
  <2>3. results[i].at = results[j].at
    <3>1. CASE results[i].at[1] = 0
      <4>1. results[j].at[1] = 0
        BY <2>1, <3>1 DEF Registered
      <4> QED
        BY <1>6, <2>2, <3>1, <4>1 DEF Places
    <3>2. CASE results[i].at[1] # 0
      <4>1. results[j].at[1] # 0
        BY <2>1, <3>2 DEF Registered
      <4>2. name(results[i]) \in Ids /\ name(results[j]) \in Ids
        BY <1>5, <1>6, <3>2, <4>1
      <4>3. name(results[i]) = name(results[j])
        BY <1>4, <1>6, <2>1, <3>2, <4>1, <4>2 DEF Registered
      <4>4. results[i].at[1] = results[j].at[1] /\ results[i].at[2] = results[j].at[2]
        BY <2>1, <3>2, <4>1, <4>3 DEF NothingRepeated, Registered
      <4> QED
        BY <2>2, <4>4 DEF Places
    <3> QED
      BY <3>1, <3>2
  <2> QED
    BY <2>3 DEF PInv, Distinct
<1>7. ActionsRun = Sums!SumFunction(f)
  BY DEF ActionsRun, Cost, ExpOfResult
<1>8. Destructive = Sums!SumFunction(h)
  BY DEF Destructive
<1> HIDE DEF f, h, to, I, J
<1>9. Sums!SumFunction(f) <= Sums!SumFunction(h)
  <2>1. \A i \in I : f[i] # 0 => to[i] \in J /\ f[i] <= h[to[i]]
    BY <1>5
  <2>2. \A i, j \in I : f[i] # 0 /\ f[j] # 0 /\ to[i] = to[j] => i = j
    BY <1>6
  <2> QED
    BY <1>1, <1>2, <1>3, <2>1, <2>2, SumWithin, SMTT(60)
<1>10. Sums!SumFunction(f) \in Nat /\ Sums!SumFunction(h) \in Nat
  BY <1>1, <1>2, <1>3, SumTyped
<1>11. results = <<>> => Sums!SumFunction(f) = 0
  <2>1. results = <<>> => Units(f, I) = {}
    BY DEF Units, I
  <2> QED
    BY <1>1, <1>2, <2>1, SumIsCount, FS_EmptySet
<1> QED
  BY <1>7, <1>8, <1>9, <1>10, <1>11

\* What was run is no more than what the cap was compared with.
LEMMA BudgetFollows == IInv /\ RInv /\ PInv /\ BInv => DestructiveBudget
<1> SUFFICES ASSUME IInv, RInv, PInv, BInv,
                    cfg.safety, ~cfg.dryRun, cfg.maxDestructive > 0, NothingRepeated
             PROVE  ActionsRun <= cfg.maxDestructive
  BY DEF DestructiveBudget
<1>1. cfg.maxDestructive \in Nat
  BY ConfigsAssumption DEF IInv, TypeOK, Config
<1>2. ActionsRun \in Nat /\ ActionsRun <= Destructive /\ Destructive \in Nat /\ (results = <<>> => ActionsRun = 0)
  BY SpentWithinDestructive
<1>3. CASE results = <<>>
  BY <1>1, <1>2, <1>3
<1>4. CASE results # <<>>
  <2>1. Destructive <= cfg.maxDestructive
    BY <1>1, <1>2, <1>4 DEF BInv, CapOK, CapExceeded
  <2> QED
    BY <1>1, <1>2, <2>1
<1> QED
  BY <1>3, <1>4

\* The Runs of a RunAll that repeats nothing carry out no more configured
\* destructive actions than the maximum.
THEOREM BudgetIsKept == Spec => []DestructiveBudget
<1>1. IInv /\ RInv /\ PInv /\ BInv => DestructiveBudget
  BY BudgetFollows
<1> QED
  BY <1>1, Invariance, RetryInvariance, PlacesInvariance, BudgetInvariance, PTL DEF Spec, SafeEngine
-----------------------------------------------------------------------------
(* Why a call of RunAll or RollbackAll ends: a measure of what is left of  *)
(* it, that every step of it makes smaller.                                *)

Left(i, n) == IF i > n THEN 0 ELSE n + 1 - i   \* how many are in i .. n

\* iterations of the outer loop, the one that is on included
RoundsLeft ==
  CASE pc = "idle"              -> 0
    [] pc = "rollback"          -> 1 + pos
    [] pc \in {"list", "exec"}  -> 1 + Left(pos, Len(experiments))
    [] OTHER                    -> 1 + Left(pos, Len(Scenarios))

\* what is left of an iteration for the caller to do
StagesLeft ==
  CASE pc = "list"     -> 1
    [] pc = "scenario" -> 2 * MaxSteps + 2
    [] pc = "steps"    -> 1 + 2 * Left(step, Len(Sc.steps))
    [] pc = "step"     -> 2 * Left(step, Len(Sc.steps))
    [] OTHER           -> 0

\* actions of the call in slot s, if every attempt fails, and of all of them
Ahead(s) ==
  LET retries == 3 * Left(task[s].attempt + 1, Limit(s))
  IN  CASE task[s].pc = "lookup"  -> retries + callbacks + 6
        [] task[s].pc = "check"   -> retries + callbacks + 5
        [] task[s].pc = "call"    -> retries + callbacks + 4
        [] task[s].pc = "running" -> retries + callbacks + 3
        [] task[s].pc = "notify"  -> Left(task[s].cb + 1, callbacks) + 2
        [] task[s].pc = "return"  -> 1
        [] OTHER                  -> 0

Work    == Sums!SumFunction([s \in Slots |-> Ahead(s)])
Measure == <<RoundsLeft, StagesLeft, Work>>

\* the lexicographic order
Before(u, v) ==
  \/ u[1] < v[1]
  \/ u[1] = v[1] /\ u[2] < v[2]
  \/ u[1] = v[1] /\ u[2] = v[2] /\ u[3] < v[3]

\* A set of numbers has a least element.
LEMMA LeastNumber ==
  ASSUME NEW S, S \subseteq Nat, S # {}
  PROVE  \E m \in S : \A k \in S : m <= k
<1>1. PICK n \in S : TRUE
  OBVIOUS
<1>2. n \in Nat /\ S \cap (0 .. n) \subseteq 0 .. n /\ S \cap (0 .. n) # {}
  BY <1>1
<1>3. PICK m \in S \cap (0 .. n) : \A k \in S \cap (0 .. n) : m <= k
  BY <1>2, LeastOf
<1>4. \A k \in S : k \in Nat /\ (k > n \/ k \in S \cap (0 .. n))
  BY <1>1
<1>5. \A k \in S : m <= k
  BY <1>2, <1>3, <1>4
<1> QED
  BY <1>3, <1>5

\* What is before in the order is not above in any component that decides.
LEMMA BeforeIsStrict ==
  ASSUME NEW u, NEW v, u[1] \in Nat, u[2] \in Nat, u[3] \in Nat, v[1] \in Nat, v[2] \in Nat, v[3] \in Nat,
         v[1] <= u[1], u[1] = v[1] => v[2] <= u[2], u[1] = v[1] /\ u[2] = v[2] => v[3] <= u[3]
  PROVE  ~Before(u, v)
<1> DEFINE Lt(x, y) == x < y
<1>1. ~Lt(u[1], v[1])
  OBVIOUS
<1>2. u[1] = v[1] => ~Lt(u[2], v[2])
  OBVIOUS
<1>3. u[1] = v[1] /\ u[2] = v[2] => ~Lt(u[3], v[3])
  OBVIOUS
<1>4. Before(u, v) <=> (\/ Lt(u[1], v[1])
                       \/ (u[1] = v[1] /\ Lt(u[2], v[2]))
                       \/ (u[1] = v[1] /\ u[2] = v[2] /\ Lt(u[3], v[3])))
  BY DEF Before
<1> HIDE DEF Lt
<1> QED
  BY <1>1, <1>2, <1>3, <1>4

\* No measure gets smaller for ever.
THEOREM NoEndlessDescent ==
  ASSUME NEW f \in [Nat -> Nat \X Nat \X Nat]
  PROVE  \E n \in Nat : ~Before(f[n + 1], f[n])
<1> SUFFICES ASSUME \A n \in Nat : Before(f[n + 1], f[n])
             PROVE  FALSE
  OBVIOUS
<1>0. ASSUME NEW n \in Nat
      PROVE  f[n][1] \in Nat /\ f[n][2] \in Nat /\ f[n][3] \in Nat /\ n + 1 \in Nat
  <2>1. f[n] \in Nat \X Nat \X Nat
    OBVIOUS
  <2> QED
    BY <2>1
<1> DEFINE A == {f[n][1] : n \in Nat}
<1>1. PICK i \in Nat : \A n \in Nat : f[i][1] <= f[n][1]
  <2>1. A \subseteq Nat /\ A # {}
    <3>1. \A n \in Nat : f[n][1] \in Nat
      BY <1>0
    <3>2. f[0][1] \in A
      OBVIOUS
    <3> QED
      BY <3>1, <3>2
  <2>2. PICK m \in A : \A k \in A : m <= k
    BY <2>1, LeastNumber
  <2> QED
    BY <2>2
<1> DEFINE B == {f[n][2] : n \in {k \in Nat : f[k][1] = f[i][1]}}
<1>2. PICK j \in Nat : f[j][1] = f[i][1] /\ \A n \in Nat : f[n][1] = f[i][1] => f[j][2] <= f[n][2]
  <2>1. B \subseteq Nat /\ B # {}
    BY <1>0, <1>1
  <2>2. PICK m \in B : \A k \in B : m <= k
    BY <2>1, LeastNumber
  <2> QED
    BY <2>2
<1> DEFINE C == {f[n][3] : n \in {k \in Nat : f[k][1] = f[j][1] /\ f[k][2] = f[j][2]}}
<1>3. PICK l \in Nat : /\ f[l][1] = f[j][1] /\ f[l][2] = f[j][2]
                       /\ \A n \in Nat : f[n][1] = f[j][1] /\ f[n][2] = f[j][2] => f[l][3] <= f[n][3]
  <2>1. C \subseteq Nat /\ C # {}
    BY <1>0, <1>2
  <2>2. PICK m \in C : \A k \in C : m <= k
    BY <2>1, LeastNumber
  <2> QED
    BY <2>2
<1>4. Before(f[l + 1], f[l]) /\ l + 1 \in Nat
  BY <1>3
<1> HIDE DEF A, B, C
<1>5. f[i][1] <= f[l + 1][1] /\ f[l][1] = f[i][1]
  BY <1>1, <1>2, <1>3, <1>4
<1>6. f[l + 1][1] = f[l][1] => f[l][2] <= f[l + 1][2]
  BY <1>2, <1>3, <1>4
<1>7. f[l + 1][1] = f[l][1] /\ f[l + 1][2] = f[l][2] => f[l][3] <= f[l + 1][3]
  BY <1>3, <1>4
<1> QED
  BY <1>0, <1>3, <1>4, <1>5, <1>6, <1>7, BeforeIsStrict

\* One fewer is left from the next one on.
LEMMA LeftFacts ==
  ASSUME NEW i \in Nat, NEW n \in Nat
  PROVE  Left(i, n) \in Nat /\ (i <= n => Left(i, n) = Left(i + 1, n) + 1)
BY DEF Left

\* What is left of each call, and of all of them, is a number.
LEMMA AheadTyped ==
  ASSUME IInv, NEW s \in Slots
  PROVE  Ahead(s) \in Nat
<1>1. task[s] \in Task /\ callbacks \in Nat
  BY DEF IInv, TypeOK
<1>2. task[s].attempt \in Nat /\ task[s].cb \in Nat
  BY <1>1 DEF Task
<1>3. CASE task[s].pc = "none"
  BY <1>3 DEF Ahead
<1>4. CASE task[s].pc # "none"
  <2>1. Limit(s) \in Nat
    BY <1>4, LimitOfSlot
  <2>2. task[s].attempt + 1 \in Nat /\ task[s].cb + 1 \in Nat
    BY <1>2
  <2>3. Left(task[s].attempt + 1, Limit(s)) \in Nat /\ Left(task[s].cb + 1, callbacks) \in Nat
    BY <1>1, <2>1, <2>2, LeftFacts
  <2> QED
    BY <1>1, <2>3 DEF Ahead
<1> QED
  BY <1>3, <1>4

\* The sum over the slots, and with it the measure, is of numbers.
LEMMA SlotsFinite == IsFiniteSet(Slots)
BY BoundsAssumption, FS_Interval DEF Slots

LEMMA MeasureTyped ==
  ASSUME IInv
  PROVE  Measure \in Nat \X Nat \X Nat
<1>1. pos \in Nat /\ step \in Nat /\ MaxSteps \in Nat /\ Len(experiments) \in Nat /\ Len(Scenarios) \in Nat
  BY ConfigTyped, BoundsAssumption DEF IInv, TypeOK
<1>2. RoundsLeft \in Nat
  <2>1. Left(pos, Len(experiments)) \in Nat /\ Left(pos, Len(Scenarios)) \in Nat
    BY <1>1, LeftFacts
  <2> QED
    BY <1>1, <2>1 DEF RoundsLeft
<1>3. StagesLeft \in Nat
  <2>1. CASE pc \in {"steps", "step"}
    <3>1. Len(Sc.steps) \in Nat
      BY <2>1, ScenarioInProgress
    <3>2. Left(step, Len(Sc.steps)) \in Nat
      BY <1>1, <3>1, LeftFacts
    <3> QED
      BY <2>1, <3>2 DEF StagesLeft
  <2>2. CASE pc \notin {"steps", "step"}
    BY <1>1, <2>2 DEF StagesLeft
  <2> QED
    BY <2>1, <2>2
<1>4. Work \in Nat
  <2>1. [s \in Slots |-> Ahead(s)] \in [Slots -> Nat]
    BY AheadTyped
  <2> QED
    BY <2>1, SlotsFinite, SumTyped DEF Work
<1> QED
  BY <1>2, <1>3, <1>4 DEF Measure

\* A step of the call in slot s leaves less for it to do.
LEMMA SlotAdvances ==
  ASSUME IInv, RInv, NEW s \in Slots, SlotStep(s)
  PROVE  /\ Ahead(s)' \in Nat /\ Ahead(s)' < Ahead(s)
         /\ \A u \in Slots \ {s} : Ahead(u)' = Ahead(u)
<1>1. task \in [Slots -> Task] /\ task[s] \in Task /\ task[s].pc # "none"
      /\ UNCHANGED <<cfg, callbacks, order, pos>>
  BY DEF IInv, TypeOK, SlotStep, Lookup, CheckContext, StartRun, ListRunReturns, RunSucceeds, RunFails, Notify,
      Notified, StoreResult, TaskStep, registry, loop
<1>2. \A u \in Slots \ {s} : task'[u] = task[u]
  BY <1>1
  DEF SlotStep, Lookup, CheckContext, StartRun, ListRunReturns, RunSucceeds, RunFails, Notify, Notified,
      StoreResult, TaskStep
<1>3. \A u \in Slots : Limit(u)' = Limit(u)
  BY <1>1 DEF Limit, Sc, Scenarios, StepOf
<1>4. \A u \in Slots \ {s} : Ahead(u)' = Ahead(u)
  BY <1>1, <1>2, <1>3 DEF Ahead
<1> DEFINE t == task[s]
           a == Left(t.attempt + 1, Limit(s))
           c == Left(t.cb + 1, callbacks)
<1>5. /\ t.attempt \in Nat /\ t.cb \in Nat /\ callbacks \in Nat /\ Limit(s) \in Nat
      /\ a \in Nat /\ c \in Nat /\ c <= callbacks
      /\ t.attempt < Limit(s) => a = Left(t.attempt + 2, Limit(s)) + 1
      /\ t.cb < callbacks => c = Left(t.cb + 2, callbacks) + 1
      /\ Left(t.attempt + 2, Limit(s)) \in Nat /\ Left(t.cb + 2, callbacks) \in Nat
  <2>1. t.attempt \in Nat /\ t.cb \in Nat /\ callbacks \in Nat /\ Limit(s) \in Nat
    BY <1>1, LimitOfSlot DEF Task, IInv, TypeOK
  <2> QED
    BY <2>1 DEF Left
<1> HIDE DEF t, a, c
<1>6. task[s] = t /\ t \in Task
  BY <1>1 DEF t
\* the task as each kind of action leaves it
<1>7. ASSUME NEW u \in Task, task' = [task EXCEPT ![s] = u]
      PROVE  Ahead(s)' = LET retries == 3 * Left(u.attempt + 1, Limit(s))
                         IN  CASE u.pc = "lookup"  -> retries + callbacks + 6
                               [] u.pc = "check"   -> retries + callbacks + 5
                               [] u.pc = "call"    -> retries + callbacks + 4
                               [] u.pc = "running" -> retries + callbacks + 3
                               [] u.pc = "notify"  -> Left(u.cb + 1, callbacks) + 2
                               [] u.pc = "return"  -> 1
                               [] OTHER            -> 0
  BY <1>1, <1>3, <1>7 DEF Ahead
<1>8. CASE Lookup(s)
  <2> DEFINE u == [t EXCEPT !.pc = "return", !.out = "unknown"]
             v == [t EXCEPT !.pc = "check"]
  <2>1. t.pc = "lookup" /\ (task' = [task EXCEPT ![s] = u] \/ task' = [task EXCEPT ![s] = v])
    BY <1>6, <1>8 DEF Lookup, TaskStep
  <2>2. u \in Task /\ u.pc = "return" /\ v \in Task /\ v.pc = "check" /\ v.attempt = t.attempt
    BY <1>6 DEF Task, TaskPC, Outcomes
  <2>3. Ahead(s) = 3 * a + callbacks + 6
    BY <1>6, <2>1 DEF Ahead, a
  <2>4. Ahead(s)' \in {1, 3 * a + callbacks + 5}
    <3> HIDE DEF u, v
    <3> QED
      BY <1>7, <2>1, <2>2 DEF a
  <2> QED
    BY <1>4, <1>5, <2>3, <2>4
<1>9. CASE CheckContext(s)
  <2> DEFINE u == [t EXCEPT !.pc = "return", !.out = "cancelled"]
             v == [t EXCEPT !.pc = "notify", !.out = "dry"]
             w == [t EXCEPT !.pc = "call"]
  <2>1. /\ t.pc = "check"
        /\ \/ task' = [task EXCEPT ![s] = u]
           \/ task' = [task EXCEPT ![s] = v]
           \/ task' = [task EXCEPT ![s] = w]
    BY <1>6, <1>9 DEF CheckContext, TaskStep
  <2>2. u \in Task /\ u.pc = "return" /\ v \in Task /\ v.pc = "notify" /\ v.cb = t.cb
        /\ w \in Task /\ w.pc = "call" /\ w.attempt = t.attempt
    BY <1>6 DEF Task, TaskPC, Outcomes
  <2>3. Ahead(s) = 3 * a + callbacks + 5
    BY <1>6, <2>1 DEF Ahead, a
  <2>4. Ahead(s)' \in {1, c + 2, 3 * a + callbacks + 4}
    <3> HIDE DEF u, v, w
    <3> QED
      BY <1>7, <2>1, <2>2 DEF a, c
  <2> QED
    BY <1>4, <1>5, <2>3, <2>4
<1>10. CASE StartRun(s)
  <2> DEFINE u == [t EXCEPT !.pc = "running"]
  <2>1. t.pc = "call" /\ task' = [task EXCEPT ![s] = u]
    BY <1>6, <1>10 DEF StartRun, TaskStep
  <2>2. u \in Task /\ u.pc = "running" /\ u.attempt = t.attempt
    BY <1>6 DEF Task, TaskPC
  <2>3. Ahead(s) = 3 * a + callbacks + 4
    BY <1>6, <2>1 DEF Ahead, a
  <2>4. Ahead(s)' = 3 * a + callbacks + 3
    <3> HIDE DEF u
    <3> QED
      BY <1>7, <2>1, <2>2 DEF a
  <2> QED
    BY <1>4, <1>5, <2>3, <2>4
<1>11. ASSUME NEW out \in {"ok", "fail"}, t.pc = "running",
              task' = [task EXCEPT ![s] = [t EXCEPT !.pc = "notify", !.out = out]]
       PROVE  Ahead(s)' \in Nat /\ Ahead(s)' < Ahead(s)
  <2> DEFINE u == [t EXCEPT !.pc = "notify", !.out = out]
  <2>1. u \in Task /\ u.pc = "notify" /\ u.cb = t.cb
    BY <1>6 DEF Task, TaskPC, Outcomes
  <2>2. Ahead(s) = 3 * a + callbacks + 3
    BY <1>6, <1>11 DEF Ahead, a
  <2>3. task' = [task EXCEPT ![s] = u]
    BY <1>11
  <2>4. Ahead(s)' = c + 2
    <3> HIDE DEF u
    <3> QED
      BY <1>7, <2>1, <2>3 DEF c
  <2> QED
    BY <1>5, <2>2, <2>4
<1>12. CASE RunFails(s)
  <2>1. CASE t.attempt < Limit(s)
    <3> DEFINE u == [t EXCEPT !.pc = "check", !.attempt = @ + 1]
    <3>1. t.pc = "running" /\ task' = [task EXCEPT ![s] = u]
      BY <1>6, <1>12, <2>1 DEF RunFails, TaskStep, Limit
    <3>2. u \in Task /\ u.pc = "check" /\ u.attempt = t.attempt + 1
      <4>1. t.attempt + 1 \in Nat \ {0}
        BY <1>5
      <4> QED
        BY <1>6, <4>1 DEF Task, TaskPC
    <3>3. Ahead(s) = 3 * a + callbacks + 3
      BY <1>6, <3>1 DEF Ahead, a
    <3>4. Ahead(s)' = 3 * Left(t.attempt + 2, Limit(s)) + callbacks + 5
      <4>1. u.attempt + 1 = t.attempt + 2
        BY <1>5, <3>2
      <4> HIDE DEF u
      <4> QED
        BY <1>7, <3>1, <3>2, <4>1
    <3> QED
      BY <1>4, <1>5, <2>1, <3>3, <3>4
  <2>2. CASE ~(t.attempt < Limit(s))
    <3>1. t.pc = "running" /\ task' = [task EXCEPT ![s] = [t EXCEPT !.pc = "notify", !.out = "fail"]]
      BY <1>6, <1>12, <2>2 DEF RunFails, TaskStep, Limit
    <3> QED
      BY <1>4, <1>11, <3>1
  <2> QED
    BY <2>1, <2>2
<1>13. CASE Notify(s)
  <2> DEFINE u == [t EXCEPT !.cb = @ + 1]
  <2>1. t.pc = "notify" /\ t.cb < callbacks /\ task' = [task EXCEPT ![s] = u]
    BY <1>6, <1>13 DEF Notify
  <2>2. u \in Task /\ u.pc = "notify" /\ u.cb = t.cb + 1
    BY <1>5, <1>6, <2>1 DEF Task
  <2>3. Ahead(s) = c + 2
    BY <1>6, <2>1 DEF Ahead, c
  <2>4. Ahead(s)' = Left(t.cb + 2, callbacks) + 2
    <3>1. u.cb + 1 = t.cb + 2
      BY <1>5, <2>2
    <3> HIDE DEF u
    <3> QED
      BY <1>7, <2>1, <2>2, <3>1
  <2> QED
    BY <1>4, <1>5, <2>1, <2>3, <2>4
<1>14. CASE Notified(s) \/ StoreResult(s)
  <2> DEFINE u == [t EXCEPT !.pc = "return"]
             v == [t EXCEPT !.pc = "done"]
  <2>1. \/ t.pc = "notify" /\ task' = [task EXCEPT ![s] = u]
        \/ t.pc = "return" /\ task' = [task EXCEPT ![s] = v]
    BY <1>6, <1>14 DEF Notified, StoreResult, TaskStep
  <2>2. u \in Task /\ u.pc = "return" /\ v \in Task /\ v.pc = "done"
    BY <1>6 DEF Task, TaskPC
  <2>3. Ahead(s) = IF t.pc = "notify" THEN c + 2 ELSE 1
    BY <1>6, <2>1 DEF Ahead, c
  <2>4. Ahead(s)' = IF t.pc = "notify" THEN 1 ELSE 0
    <3> HIDE DEF u, v
    <3> QED
      BY <1>7, <2>1, <2>2
  <2> QED
    BY <1>4, <1>5, <2>3, <2>4
<1>15. CASE s = 0 /\ \E out \in {"ok", "fail"} : ListRunReturns(out)
  BY <1>4, <1>6, <1>11, <1>15 DEF ListRunReturns
<1>16. CASE RunSucceeds(s)
  BY <1>4, <1>6, <1>11, <1>16 DEF RunSucceeds, TaskStep
<1> QED
  BY <1>4, <1>8, <1>9, <1>10, <1>12, <1>13, <1>14, <1>15, <1>16 DEF SlotStep

\* With it the measure gets smaller.
LEMMA SlotShortens ==
  ASSUME IInv, RInv, NEW s \in Slots, SlotStep(s)
  PROVE  Before(Measure', Measure)
<1>1. UNCHANGED <<cfg, experiments, order, pc, pos, step>>
  BY DEF SlotStep, Lookup, CheckContext, StartRun, ListRunReturns, RunSucceeds, RunFails, Notify, Notified,
     StoreResult, TaskStep, registry, loop
<1>2. RoundsLeft' = RoundsLeft /\ StagesLeft' = StagesLeft
  BY <1>1 DEF RoundsLeft, StagesLeft, Scenarios, Sc
<1>3. Work' < Work
  <2> DEFINE f == [u \in Slots |-> Ahead(u)']
             h == [u \in Slots |-> Ahead(u)]
  <2>1. \A u \in Slots : Ahead(u) \in Nat
    BY AheadTyped
  <2>2. Ahead(s)' \in Nat /\ Ahead(s)' < Ahead(s) /\ \A u \in Slots \ {s} : Ahead(u)' = Ahead(u)
    BY SlotAdvances
  <2>3. \A u \in Slots : Ahead(u)' \in Nat
    BY <2>1, <2>2
  <2>4. f \in [Slots -> Nat] /\ h \in [Slots -> Nat]
    BY <2>1, <2>3
  <2>5. ASSUME NEW u \in Slots
        PROVE  f[u] <= h[u]
    <3>1. CASE u = s
      BY <2>1, <2>2, <3>1
    <3>2. CASE u # s
      BY <2>1, <2>2, <3>2
    <3> QED
      BY <3>1, <3>2
  <2>6. \E u \in Slots : f[u] < h[u]
    BY <2>2
  <2> HIDE DEF f, h
  <2>7. Sums!SumFunction(f) < Sums!SumFunction(h)
    BY <2>4, <2>5, <2>6, SlotsFinite, SumFalls
  <2> QED
    BY <2>7 DEF Work, f, h
<1> QED
  BY <1>2, <1>3 DEF Measure, Before

\* The same for the caller, which comes further in one of its loops.
LEMMA CallerShortens ==
  ASSUME IInv, CallerStep
  PROVE  Before(Measure', Measure)
<1>1. /\ pos \in Nat /\ step \in Nat /\ MaxSteps \in Nat /\ Len(experiments) \in Nat /\ Len(Scenarios) \in Nat
      /\ experiments \in Seq(Exps) /\ Scenarios \in Seq(Scenario)
  BY ConfigTyped, BoundsAssumption DEF IInv, TypeOK
<1>2. UNCHANGED <<cfg, experiments, order>> /\ Scenarios' = Scenarios
  BY DEF CallerStep, ListCancelled, ListDryRun, ListRun, ListNext, ListEnd, ScenarioDisabled, ScenarioSkipped,
      ForkSteps, BeginSteps, StepSkipped, CallStep, StepReturns, StepsEnd, JoinSteps, CloseScenario,
      ScenariosEnd, RollbackOne, EndRollback, registry, loop, Scenarios
<1>3. ASSUME NEW n \in Nat, pos <= n
      PROVE  Left(pos + 1, n) < Left(pos, n)
  BY <1>1, <1>3 DEF Left
<1>4. ASSUME RoundsLeft' < RoundsLeft
      PROVE  Before(Measure', Measure)
  BY <1>4 DEF Measure, Before
<1>5. ASSUME RoundsLeft' = RoundsLeft, StagesLeft' < StagesLeft
      PROVE  Before(Measure', Measure)
  BY <1>5 DEF Measure, Before
<1>6. CASE ListCancelled \/ ListEnd \/ ScenariosEnd \/ EndRollback
  <2>1. pc' = "idle" /\ pc # "idle"
    BY <1>6 DEF ListCancelled, ListEnd, ScenariosEnd, EndRollback
  <2>2. RoundsLeft' = 0
    BY <2>1 DEF RoundsLeft
  <2>3. RoundsLeft > 0
    <3>1. Left(pos, Len(experiments)) \in Nat /\ Left(pos, Len(Scenarios)) \in Nat
      BY <1>1, LeftFacts
    <3> QED
      BY <1>1, <2>1, <3>1 DEF RoundsLeft
  <2> QED
    BY <1>4, <2>2, <2>3
<1>7. CASE ListDryRun \/ ListRun
  <2>1. pc = "list" /\ pc' = "exec" /\ pos' = pos
    BY <1>7 DEF ListDryRun, ListRun, loop
  <2>2. RoundsLeft' = RoundsLeft /\ StagesLeft' = 0 /\ StagesLeft = 1
    BY <1>2, <2>1 DEF RoundsLeft, StagesLeft
  <2> QED
    BY <1>5, <2>2
<1>8. CASE ListNext
  <2>1. pc = "exec" /\ pc' = "list" /\ pos' = pos + 1 /\ pos <= Len(experiments)
    BY <1>1, <1>8 DEF ListNext, IInv, LoopOK
  <2>2. RoundsLeft' = 1 + Left(pos + 1, Len(experiments)) /\ RoundsLeft = 1 + Left(pos, Len(experiments))
    BY <1>2, <2>1 DEF RoundsLeft
  <2>3. Left(pos + 1, Len(experiments)) \in Nat /\ Left(pos, Len(experiments)) = Left(pos + 1, Len(experiments)) + 1
    BY <1>1, <2>1 DEF Left
  <2> QED
    BY <1>4, <2>2, <2>3
<1>9. CASE ScenarioDisabled \/ ScenarioSkipped \/ StepsEnd \/ JoinSteps
  <2>1. pc \in {"scenario", "steps", "wait"} /\ pc' = "scenario" /\ pos' = pos + 1 /\ pos <= Len(Scenarios)
    BY <1>1, <1>9 DEF ScenarioDisabled, ScenarioSkipped, StepsEnd, JoinSteps, CloseScenario, IInv, LoopOK
  <2>2. RoundsLeft' = 1 + Left(pos + 1, Len(Scenarios)) /\ RoundsLeft = 1 + Left(pos, Len(Scenarios))
    BY <1>2, <2>1 DEF RoundsLeft
  <2>3. Left(pos + 1, Len(Scenarios)) \in Nat /\ Left(pos, Len(Scenarios)) = Left(pos + 1, Len(Scenarios)) + 1
    BY <1>1, <2>1 DEF Left
  <2> QED
    BY <1>4, <2>2, <2>3
<1>10. CASE ForkSteps
  <2>1. pc = "scenario" /\ pc' = "wait" /\ pos' = pos
    BY <1>10 DEF ForkSteps
  <2>2. RoundsLeft' = RoundsLeft /\ StagesLeft' = 0 /\ StagesLeft = 2 * MaxSteps + 2
    BY <1>2, <2>1 DEF RoundsLeft, StagesLeft
  <2> QED
    BY <1>1, <1>5, <2>2
<1>11. CASE BeginSteps
  <2>1. pc = "scenario" /\ pc' = "steps" /\ pos' = pos /\ step' = 1 /\ pos \in DOMAIN Scenarios
    BY <1>1, <1>11 DEF BeginSteps, IInv, LoopOK, InScenarios
  <2>2. Len(Sc.steps) \in Nat /\ Len(Sc.steps) <= MaxSteps /\ Sc' = Sc
    <3>1. order[pos] \in DOMAIN Scenarios
      BY <2>1 DEF IInv, LoopOK, InScenarios
    <3> QED
      BY <1>2, <2>1, <3>1, ConfigTyped DEF Sc, IInv, TypeOK
  <2>3. RoundsLeft' = RoundsLeft /\ StagesLeft = 2 * MaxSteps + 2
        /\ StagesLeft' = 1 + 2 * Left(1, Len(Sc.steps))
    BY <1>2, <2>1, <2>2 DEF RoundsLeft, StagesLeft
  <2>4. Left(1, Len(Sc.steps)) = Len(Sc.steps)
    BY <2>2 DEF Left
  <2> QED
    BY <1>1, <1>5, <2>2, <2>3, <2>4
<1>12. CASE StepSkipped \/ CallStep \/ StepReturns
  <2>1. Len(Sc.steps) \in Nat /\ Sc' = Sc /\ pos' = pos /\ pc \in {"steps", "step"}
    <3>1. pc \in {"steps", "step"} /\ pos' = pos
      BY <1>12 DEF StepSkipped, CallStep, StepReturns, loop
    <3> QED
      BY <1>2, <3>1, ScenarioInProgress DEF Sc
  <2>2. step <= Len(Sc.steps)
    BY <1>1, <1>12, <2>1, ScenarioInProgress DEF StepSkipped, CallStep, StepReturns, IInv, LoopOK
  <2> DEFINE k == Left(step + 1, Len(Sc.steps))
  <2>3. k \in Nat /\ Left(step, Len(Sc.steps)) = k + 1
    <3>1. step + 1 \in Nat
      BY <1>1
    <3> QED
      BY <1>1, <2>1, <2>2, <3>1, LeftFacts
  <2>4. \/ pc = "steps" /\ pc' = "steps" /\ step' = step + 1
        \/ pc = "steps" /\ pc' = "step" /\ step' = step
        \/ pc = "step" /\ pc' = "steps" /\ step' = step + 1
    BY <1>12 DEF StepSkipped, CallStep, StepReturns, loop
  <2>5. RoundsLeft' = RoundsLeft
    BY <1>2, <2>1, <2>4 DEF RoundsLeft
  <2> HIDE DEF k
  <2>6. \/ StagesLeft = 1 + 2 * (k + 1) /\ StagesLeft' = 1 + 2 * k
        \/ StagesLeft = 1 + 2 * (k + 1) /\ StagesLeft' = 2 * (k + 1)
        \/ StagesLeft = 2 * (k + 1) /\ StagesLeft' = 1 + 2 * k
    BY <2>1, <2>3, <2>4 DEF StagesLeft, k
  <2> QED
    BY <1>5, <2>3, <2>5, <2>6
<1>13. CASE RollbackOne
  <2>1. pc = "rollback" /\ pc' = "rollback" /\ pos > 0 /\ pos' = pos - 1
    BY <1>13 DEF RollbackOne
  <2>2. RoundsLeft = 1 + pos /\ RoundsLeft' = 1 + (pos - 1)
    BY <2>1 DEF RoundsLeft
  <2> QED
    BY <1>1, <1>4, <2>1, <2>2
<1> QED
  BY <1>6, <1>7, <1>8, <1>9, <1>10, <1>11, <1>12, <1>13 DEF CallerStep

\* What a call in progress is waiting for is there: the body of the list has
\* begun, the step that was called has not returned, and each goroutine of a
\* parallel scenario was started.
ActiveOK ==
  /\ pc = "exec" => task[0].pc # "none"
  /\ pc = "step" => task[step].pc \notin {"none", "done"}
  /\ pc = "wait" => \A s \in DOMAIN Sc.steps : task[s].pc # "none"

\* Whoever moves leaves it so.
LEMMA ActiveStays ==
  ASSUME IInv, ActiveOK, [Next]_vars
  PROVE  ActiveOK'
<1>0. task \in [Slots -> Task] /\ 0 \in Slots
  BY BoundsAssumption DEF IInv, TypeOK, Slots
<1>1. CASE Setup \/ Begin
  BY <1>1 DEF Setup, Register, RegisterNamed, OnResult, Begin, RefuseRun, BeginList, BeginScenarios,
     BeginRollback, EnterRunAll, ActiveOK
<1>2. CASE Cancel \/ Finished \/ UNCHANGED vars
  BY <1>2 DEF Cancel, Finished, vars, registry, loop, ActiveOK, Sc, Scenarios
<1>3. CASE ListDryRun \/ ListRun
  <2>1. pc' = "exec" /\ task'[0].pc # "none"
    BY <1>0, <1>3 DEF ListDryRun, ListRun, NoTask
  <2> QED
    BY <2>1 DEF ActiveOK
<1>4. CASE ForkSteps
  <2>1. pc' = "wait" /\ Sc' = Sc /\ pos \in DOMAIN Scenarios
    BY <1>4, ConfigTyped DEF ForkSteps, Sc, Scenarios, registry, IInv, LoopOK, InScenarios, TypeOK
  <2>2. DOMAIN Sc.steps \subseteq Slots
    <3>1. order[pos] \in DOMAIN Scenarios
      BY <2>1, <1>4 DEF ForkSteps, IInv, LoopOK, InScenarios
    <3>2. DOMAIN Sc.steps \subseteq 1 .. MaxSteps
      BY <3>1, ConfigTyped DEF Sc, IInv, TypeOK
    <3> QED
      BY <3>2, BoundsAssumption DEF Slots
  <2>3. \A s \in DOMAIN Sc.steps : task'[s].pc = "lookup"
    BY <1>4, <2>2 DEF ForkSteps, NoTask
  <2> QED
    BY <2>1, <2>3 DEF ActiveOK
<1>5. CASE CallStep
  <2>1. pc' = "step" /\ step' = step /\ step \in Slots
    BY <1>5, StepInSlots DEF CallStep, loop
  <2>2. task'[step].pc = "lookup"
    BY <1>0, <1>5, <2>1 DEF CallStep, NoTask
  <2> QED
    BY <2>1, <2>2 DEF ActiveOK
<1>6. CASE CallerStep /\ ~ListDryRun /\ ~ListRun /\ ~ForkSteps /\ ~CallStep
  <2>1. pc' \notin {"exec", "step", "wait"}
    BY <1>6
    DEF CallerStep, ListCancelled, ListNext, ListEnd, ScenarioDisabled, ScenarioSkipped, BeginSteps,
        StepSkipped, StepReturns, StepsEnd, JoinSteps, CloseScenario, ScenariosEnd, RollbackOne, EndRollback
  <2> QED
    BY <2>1 DEF ActiveOK
<1>7. ASSUME NEW s \in Slots, SlotStep(s)
      PROVE  ActiveOK'
  <2>1. UNCHANGED <<cfg, order, pc, pos, step>> /\ Sc' = Sc
    BY <1>7
    DEF SlotStep, Lookup, CheckContext, StartRun, ListRunReturns, RunSucceeds, RunFails, Notify, Notified,
        StoreResult, TaskStep, registry, loop, Sc, Scenarios
  <2>2. \A u \in Slots \ {s} : task'[u] = task[u]
    BY <1>0, <1>7
    DEF SlotStep, Lookup, CheckContext, StartRun, ListRunReturns, RunSucceeds, RunFails, Notify, Notified,
        StoreResult, TaskStep
  <2>3. task'[s].pc # "none" /\ (task'[s].pc = "done" => pc = "wait")
    <3>1. task[s] \in Task
      BY <1>0
    <3> QED
      BY <1>0, <1>7, <3>1
      DEF SlotStep, Lookup, CheckContext, StartRun, ListRunReturns, RunSucceeds, RunFails, Notify, Notified,
          StoreResult, TaskStep, Task
  <2>4. pc = "step" => step \in Slots
    BY StepInSlots
  <2>5. pc = "wait" => DOMAIN Sc.steps \subseteq Slots
    BY ScenarioInProgress, BoundsAssumption DEF Slots
  <2> QED
    BY <1>0, <2>1, <2>2, <2>3, <2>4, <2>5 DEF ActiveOK
<1> QED
  BY <1>1, <1>2, <1>3, <1>4, <1>5, <1>6, <1>7 DEF Next

\* The guards of the actions: the caller can move, or the call in slot s.
CallerCan ==
  \/ pc \in {"list", "scenario", "steps", "rollback"}
  \/ pc = "exec" /\ task[0].pc = "notify" /\ task[0].cb = callbacks
  \/ pc = "step" /\ task[step].pc = "return"
  \/ pc = "wait" /\ \A s \in DOMAIN Sc.steps : task[s].pc = "done"

SlotCan(s) ==
  \/ task[s].pc \in {"lookup", "check", "call", "running"}
  \/ task[s].pc = "notify" /\ (task[s].cb < callbacks \/ (s # 0 /\ task[s].cb = callbacks))
  \/ task[s].pc = "return" /\ pc = "wait"

\* In every call somebody can move: nobody waits for a goroutine that is
\* stuck or was never started.
THEOREM SomebodyCanMove == SafeEngine => [](pc # "idle" => CallerCan \/ \E s \in Slots : SlotCan(s))
<1>1. Init => ActiveOK
  BY DEF Init, ActiveOK
<1>2. IInv /\ ActiveOK /\ [Next]_vars => ActiveOK'
  BY ActiveStays
<1>3. IInv /\ PInv /\ ActiveOK /\ pc # "idle" => CallerCan \/ \E s \in Slots : SlotCan(s)
  <2> SUFFICES ASSUME IInv, PInv, ActiveOK, pc # "idle", ~CallerCan
               PROVE  \E s \in Slots : SlotCan(s)
    OBVIOUS
  <2>1. pc \in {"exec", "step", "wait"} /\ task \in [Slots -> Task] /\ 0 \in Slots
    BY BoundsAssumption DEF CallerCan, IInv, TypeOK, Slots
  <2>2. ASSUME NEW s \in Slots, task[s].pc \notin {"none", "done", "return"}, s = 0 => pc = "exec"
        PROVE  SlotCan(s)
    <3>1. task[s].pc \in {"lookup", "check", "call", "running", "notify"}
      BY <2>1, <2>2 DEF Task, TaskPC
    <3>2. CalledBack(task[s])
      BY <2>2 DEF PInv, FiredOK, Open
    <3>3. task[s].cb <= callbacks /\ task[s].cb \in Nat /\ callbacks \in Nat
      BY <2>1, <3>2 DEF CalledBack, Task, IInv, TypeOK
    <3>4. s = 0 => ~(task[s].pc = "notify" /\ task[s].cb = callbacks)
      BY <2>2 DEF CallerCan
    <3> QED
      BY <3>1, <3>3, <3>4 DEF SlotCan
  <2>3. CASE pc = "exec"
    <3>1. task[0].pc \in {"call", "running", "notify"}
      BY <2>3 DEF ActiveOK, IInv, TasksOK
    <3> QED
      BY <2>1, <2>2, <2>3, <3>1
  <2>4. CASE pc = "step"
    <3>1. step \in Slots /\ step # 0
      BY <2>4, StepInSlots
    <3>2. task[step].pc \notin {"none", "done", "return"}
      BY <2>4 DEF ActiveOK, CallerCan
    <3> QED
      BY <2>2, <3>1, <3>2
  <2>5. CASE pc = "wait"
    <3>1. PICK s \in DOMAIN Sc.steps : task[s].pc # "done"
      BY <2>5 DEF CallerCan
    <3>2. s \in Slots /\ s # 0
      BY <2>5, ScenarioInProgress, BoundsAssumption DEF Slots
    <3>3. task[s].pc # "none"
      BY <2>5, <3>1 DEF ActiveOK
    <3>4. CASE task[s].pc = "return"
      BY <2>5, <3>2, <3>4 DEF SlotCan
    <3> QED
      BY <2>2, <3>1, <3>2, <3>3, <3>4
  <2> QED
    BY <2>1, <2>3, <2>4, <2>5
<1> QED
  BY <1>1, <1>2, <1>3, Invariance, PlacesInvariance, PTL DEF SafeEngine

\* Every step of a call makes what is left of it smaller; the user's
\* cancelling, the only other step there can be, leaves it as it is.
THEOREM CallsGetShorter ==
  SafeEngine =>
       /\ [](Measure \in Nat \X Nat \X Nat)
       /\ [][pc # "idle" => Before(Measure', Measure) \/ (Cancel /\ Measure' = Measure)]_vars
<1>1. IInv => Measure \in Nat \X Nat \X Nat
  BY MeasureTyped
<1>2. IInv /\ RInv /\ [Next]_vars =>
        [pc # "idle" => Before(Measure', Measure) \/ (Cancel /\ Measure' = Measure)]_vars
  <2> SUFFICES ASSUME IInv, RInv, Next, pc # "idle"
               PROVE  Before(Measure', Measure) \/ (Cancel /\ Measure' = Measure)
    OBVIOUS
  <2>1. CASE CallerStep \/ \E s \in Slots : SlotStep(s)
    BY <2>1, CallerShortens, SlotShortens
  <2>2. CASE Cancel
    <3>1. UNCHANGED <<registry, pc, loop, task>>
      BY <2>2 DEF Cancel
    <3>2. RoundsLeft' = RoundsLeft /\ StagesLeft' = StagesLeft
      BY <3>1 DEF RoundsLeft, StagesLeft, Scenarios, Sc, registry, loop
    <3>3. \A s \in Slots : Ahead(s)' = Ahead(s)
      BY <3>1 DEF Ahead, Limit, Sc, Scenarios, StepOf, registry, loop
    <3>4. Work' = Work
      BY <3>3 DEF Work
    <3> QED
      BY <2>2, <3>2, <3>4 DEF Measure
  <2>3. ~Setup /\ ~Begin /\ ~Finished
    BY DEF Setup, Register, RegisterNamed, OnResult, Begin, RefuseRun, BeginList, BeginScenarios,
       BeginRollback, EnterRunAll, Finished
  <2> QED
    BY <2>1, <2>2, <2>3 DEF Next
<1> QED
  BY <1>1, <1>2, Invariance, RetryInvariance, PTL DEF SafeEngine

-----------------------------------------------------------------------------
\* All that RunAll promises of its results.
ResultsRight ==
  /\ StructuredConcurrency /\ ResultsAccumulate /\ RetryDiscipline /\ CallbacksMatchResults
  /\ OneResultEach /\ PrerequisiteGate /\ ConditionalSteps /\ DestructiveBudget

\* Whoever calls the engine, and however its goroutines are scheduled, may rely
\* on what RunAll promises of its results (engine.go:90-366).
THEOREM PromisesAreKept == SafeEngine => []ResultsRight
<1>1. IInv => StructuredConcurrency
  BY DEF IInv, TasksOK
<1>2. IInv /\ AInv => ResultsAccumulate
  BY DEF IInv, TypeOK, AInv, BehindOK, ResultsAccumulate, SeqExt!IsPrefix
<1>3. RInv => RetryDiscipline
  BY DEF RInv
<1>4. SInv /\ PInv => OneResultEach
  BY DEF SInv, Behind, PInv, Distinct, OneResultEach
<1>5. SInv => PrerequisiteGate
  BY DEF SInv, Behind, PrerequisiteGate
<1>6. IInv /\ AInv /\ RInv /\ PInv /\ SInv /\ BInv => ResultsRight
  BY <1>1, <1>2, <1>3, <1>4, <1>5, CallbacksFollow, ConditionsFollow, BudgetFollows DEF ResultsRight
<1> QED
  BY <1>6, Invariance, ReturnedInvariance, RetryInvariance, PlacesInvariance, ScenarioInvariance,
     BudgetInvariance, PTL
=============================================================================
