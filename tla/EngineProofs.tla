---------------------------- MODULE EngineProofs ----------------------------
(***************************************************************************)
(* Machine-checked theorems about module Engine, for every configuration,  *)
(* any number of experiments, steps, callbacks and calls.                  *)
(***************************************************************************)
EXTENDS Engine, SequenceTheorems, TLAPS

\* A configured scenario, its steps and a step's place are of the right types.
LEMMA ConfigTyped ==
  ASSUME cfg \in Configs
  PROVE  /\ Scenarios \in Seq(Scenario)
         /\ Len(Scenarios) \in Nat /\ Len(Scenarios) <= MaxScenarios
         /\ \A i \in DOMAIN Scenarios :
              /\ Scenarios[i] \in Scenario
              /\ Scenarios[i].steps \in Seq(Step)
              /\ Len(Scenarios[i].steps) \in Nat
              /\ Len(Scenarios[i].steps) <= MaxSteps
              /\ DOMAIN Scenarios[i].steps \subseteq 1 .. MaxSteps
<1>1. cfg \in Config /\ Len(cfg.scenarios) <= MaxScenarios
      /\ \A i \in DOMAIN cfg.scenarios : Len(cfg.scenarios[i].steps) <= MaxSteps
  BY ConfigsAssumption
<1>2. cfg.scenarios \in Seq(Scenario)
  BY <1>1 DEF Config
<1>3. \A i \in DOMAIN cfg.scenarios : cfg.scenarios[i] \in Scenario
  BY <1>2
<1>4. \A i \in DOMAIN cfg.scenarios : cfg.scenarios[i].steps \in Seq(Step)
  BY <1>3 DEF Scenario
<1> QED
  BY <1>1, <1>2, <1>3, <1>4, BoundsAssumption DEF Scenarios

-----------------------------------------------------------------------------
(* The inductive invariant: the types, and what the loops' indices and the *)
(* tasks mean at each position of the caller.                              *)

RegistryOK ==
  /\ Len(experiments) <= MaxRegistrations
  /\ \A id \in Ids : namedExperiments[id] # NoExp =>
       \E i \in DOMAIN experiments : experiments[i] = namedExperiments[id]

LoopOK ==
  /\ pc = "list" => pos >= 1
  /\ pc = "exec" => pos \in DOMAIN experiments
  /\ pc = "rollback" => pos <= Len(experiments)
  /\ InScenarios => pos >= 1 /\ order \in [DOMAIN Scenarios -> DOMAIN Scenarios]
  /\ pc \in {"steps", "step", "wait"} => pos \in DOMAIN Scenarios
  /\ pc = "steps" => step >= 1
  /\ pc = "step" => step \in DOMAIN Sc.steps

\* slot 0 is only the body of the list's loop; a step of a scenario that came
\* past the lookup has its experiment
TasksOK ==
  /\ StructuredConcurrency
  /\ task[0].pc \in {"none", "call", "running", "notify"}
  /\ \A s \in Slots \ {0} : task[s].pc \in {"check", "call", "running"} =>
       namedExperiments[StepOf(s).name] # NoExp

\* what ran is registered, and a rollback still has it before it
DirtyOK ==
  \A e \in dirty : \E i \in DOMAIN experiments :
     experiments[i] = e /\ (pc = "rollback" => i <= pos)

IInv == TypeOK /\ RegistryOK /\ LoopOK /\ TasksOK /\ DirtyOK

\* What a slot that is in use stands for.
LEMMA ScenarioInProgress ==
  ASSUME IInv, pc \in {"steps", "step", "wait"}
  PROVE  /\ Sc \in Scenario /\ Sc.steps \in Seq(Step) /\ Sc.name \in Names
         /\ Len(Sc.steps) \in Nat /\ Len(Sc.steps) <= MaxSteps
         /\ order[pos] \in 1 .. MaxScenarios
<1>1. cfg \in Configs /\ pos \in DOMAIN Scenarios /\ order \in [DOMAIN Scenarios -> DOMAIN Scenarios]
  BY DEF IInv, TypeOK, LoopOK, InScenarios
<1>2. order[pos] \in DOMAIN Scenarios
  BY <1>1
<1>3. order[pos] \in 1 .. MaxScenarios
  BY <1>1, <1>2, ConfigTyped, BoundsAssumption
<1>4. Sc \in Scenario /\ Sc.steps \in Seq(Step) /\ Len(Sc.steps) \in Nat /\ Len(Sc.steps) <= MaxSteps
  BY <1>1, <1>2, ConfigTyped DEF Sc
<1>5. Sc.name \in Names
  BY <1>4 DEF Scenario
<1> QED
  BY <1>3, <1>4, <1>5

LEMMA SlotInUse ==
  ASSUME IInv, NEW s \in Slots, task[s].pc # "none"
  PROVE  /\ Place(s) \in Places
         /\ s # 0 => pc \in {"step", "wait"} /\ s \in DOMAIN Sc.steps
                     /\ StepOf(s) \in Step /\ StepOf(s).name \in Ids
         /\ s = 0 => pc = "exec" /\ pos \in DOMAIN experiments /\ experiments[pos] \in Exps
<1>1. CASE s = 0
  <2>1. pc = "exec" /\ pos \in 1 .. Len(experiments) /\ Len(experiments) <= MaxRegistrations
    BY <1>1, ScenarioInProgress DEF IInv, TasksOK, StructuredConcurrency, Busy, LoopOK, TypeOK, RegistryOK
  <2> QED
    BY <1>1, <2>1, BoundsAssumption DEF IInv, TypeOK, Place, Places
<1>2. CASE s # 0
  <2>1. pc \in {"step", "wait"} /\ s \in DOMAIN Sc.steps
    BY <1>2 DEF IInv, TasksOK, StructuredConcurrency, Busy, LoopOK
  <2>2. s \in 1 .. MaxSteps /\ order[pos] \in 1 .. MaxScenarios
    BY <1>2, <2>1, ScenarioInProgress, BoundsAssumption DEF Slots
  <2>3. StepOf(s) \in Step
    BY <2>1, ScenarioInProgress DEF StepOf
  <2>4. StepOf(s).name \in Ids
    BY <2>3 DEF Step
  <2> QED
    BY <1>2, <2>1, <2>2, <2>3, <2>4, BoundsAssumption DEF Place, Places
<1> QED BY <1>1, <1>2

LEMMA ResultTyped ==
  ASSUME NEW s \in Slots, Place(s) \in Places,
         NEW t \in Task, NEW out \in Outcomes
  PROVE  ResultAt(s, t, out) \in Result
<1>1. t.attempt \in Nat \ {0}
  BY DEF Task
<1> QED
  BY <1>1 DEF ResultAt, Result

LEMMA NoTaskTyped == NoTask \in Task /\ [NoTask EXCEPT !.pc = "lookup"] \in Task
                     /\ [NoTask EXCEPT !.pc = "call"] \in Task
                     /\ [NoTask EXCEPT !.pc = "notify", !.out = "dry"] \in Task
<1>1. NoTask \in Task
  BY DEF NoTask, Task, TaskPC, Outcomes
<1>2. \A p \in TaskPC, o \in Outcomes :
        [NoTask EXCEPT !.pc = p] \in Task /\ [NoTask EXCEPT !.pc = p, !.out = o] \in Task
  BY <1>1 DEF Task
<1> QED
  BY <1>1, <1>2 DEF TaskPC, Outcomes

LEMMA AppendFacts ==
  ASSUME NEW S, NEW q \in Seq(S), NEW e \in S
  PROVE  /\ Append(q, e) \in Seq(S)
         /\ Len(Append(q, e)) = Len(q) + 1
         /\ \A i \in DOMAIN q : i \in DOMAIN Append(q, e) /\ Append(q, e)[i] = q[i]
         /\ Len(q) + 1 \in DOMAIN Append(q, e) /\ Append(q, e)[Len(q) + 1] = e
OBVIOUS

LEMMA ConcatTyped ==
  ASSUME NEW S, NEW q \in Seq(S), NEW r \in Seq(S)
  PROVE  q \o r \in Seq(S)
OBVIOUS

LEMMA FunctionIsSeq ==
  ASSUME NEW S, NEW n \in Nat, NEW f \in [1 .. n -> S]
  PROVE  f \in Seq(S)
BY SeqDef

LEMMA RegistryFrame ==
  ASSUME RegistryOK, UNCHANGED registry
  PROVE  RegistryOK'
BY DEF RegistryOK, registry

\* DirtyOK holds on if neither registrations nor dirty change and no rollback
\* begins or moves on.
LEMMA DirtyFrame ==
  ASSUME DirtyOK, UNCHANGED <<experiments, dirty>>,
         pc' # "rollback" \/ (pc' = pc /\ pos' = pos)
  PROVE  DirtyOK'
BY DEF DirtyOK

\* A step of the call in slot s: no other slot and no loop moves.
LEMMA TasksFrame ==
  ASSUME IInv, NEW s \in Slots, NEW t \in Task, task[s].pc # "none",
         task' = [task EXCEPT ![s] = t],
         UNCHANGED <<registry, pc, pos, order, step>>,
         s = 0 => t.pc \in {"none", "call", "running", "notify"},
         s # 0 /\ t.pc \in {"check", "call", "running"} =>
           namedExperiments[StepOf(s).name] # NoExp
  PROVE  TasksOK' /\ LoopOK' /\ task' \in [Slots -> Task]
<1>1. task \in [Slots -> Task] /\ task' \in [Slots -> Task]
  BY DEF IInv, TypeOK
<1>2. \A u \in Slots : task'[u] = IF u = s THEN t ELSE task[u]
  BY <1>1
<1>3. Sc' = Sc /\ Scenarios' = Scenarios /\ \A u \in Slots : StepOf(u)' = StepOf(u)
  BY DEF Sc, Scenarios, StepOf, registry
<1>4. StructuredConcurrency'
  BY <1>2, <1>3 DEF IInv, TasksOK, StructuredConcurrency, Busy
<1>5. 0 \in Slots
  BY BoundsAssumption DEF Slots
<1>6. task'[0].pc \in {"none", "call", "running", "notify"}
  BY <1>2, <1>5 DEF IInv, TasksOK
<1>7. \A u \in Slots \ {0} : task'[u].pc \in {"check", "call", "running"} =>
        namedExperiments'[StepOf(u)'.name] # NoExp
  BY <1>2, <1>3 DEF IInv, TasksOK, registry
<1>8. LoopOK'
  BY <1>3 DEF IInv, LoopOK, InScenarios, registry
<1> QED
  BY <1>1, <1>4, <1>6, <1>7, <1>8 DEF TasksOK

\* When no slot is in use nothing is to be said about tasks.
LEMMA TasksIdle ==
  ASSUME \A s \in Slots : task'[s].pc = "none"
  PROVE  TasksOK'
BY BoundsAssumption DEF TasksOK, StructuredConcurrency, Busy, Slots

\* Outside "exec", "step" and "wait" no slot is in use.
LEMMA NoneBusy ==
  ASSUME IInv, pc \notin {"exec", "step", "wait"}
  PROVE  \A s \in Slots : task[s].pc = "none"
BY DEF IInv, TasksOK, StructuredConcurrency, Busy

-----------------------------------------------------------------------------
(* Every action preserves the invariant. *)

LEMMA SetupPreserves ==
  ASSUME IInv, Setup \/ Cancel
  PROVE  IInv'
<1>1. ASSUME NEW e \in Exps, Register(e)
      PROVE  IInv'
  <2>1. experiments' \in Seq(Exps) /\ Len(experiments') = Len(experiments) + 1
        /\ \A i \in DOMAIN experiments : i \in DOMAIN experiments' /\ experiments'[i] = experiments[i]
    BY <1>1, AppendFacts DEF Register, IInv, TypeOK
  <2>2. TypeOK'
    BY <1>1, <2>1 DEF Register, IInv, TypeOK, registry, loop, ledger
  <2>3. RegistryOK'
    BY <1>1, <2>1, BoundsAssumption DEF Register, IInv, TypeOK, RegistryOK
  <2>4. LoopOK' /\ TasksOK'
    BY <1>1, NoneBusy, TasksIdle DEF Register, IInv, LoopOK, InScenarios, loop
  <2>5. DirtyOK'
    BY <1>1, <2>1 DEF Register, IInv, DirtyOK
  <2> QED
    BY <2>2, <2>3, <2>4, <2>5 DEF IInv
<1>2. ASSUME NEW id \in Ids, NEW e \in Exps, RegisterNamed(id, e)
      PROVE  IInv'
  <2>1. experiments' \in Seq(Exps) /\ Len(experiments') = Len(experiments) + 1
        /\ (\A i \in DOMAIN experiments : i \in DOMAIN experiments' /\ experiments'[i] = experiments[i])
        /\ Len(experiments) + 1 \in DOMAIN experiments' /\ experiments'[Len(experiments) + 1] = e
    BY <1>2, AppendFacts DEF RegisterNamed, IInv, TypeOK
  <2>2. TypeOK'
    BY <1>2, <2>1 DEF RegisterNamed, IInv, TypeOK, registry, loop, ledger
  <2>3. \A k \in Ids : namedExperiments'[k] = IF k = id THEN e ELSE namedExperiments[k]
    BY <1>2 DEF RegisterNamed, IInv, TypeOK
  <2>4. RegistryOK'
    <3>1. Len(experiments') <= MaxRegistrations
      BY <1>2, <2>1, BoundsAssumption DEF RegisterNamed, IInv, TypeOK
    <3>2. ASSUME NEW k \in Ids, namedExperiments'[k] # NoExp
          PROVE  \E i \in DOMAIN experiments' : experiments'[i] = namedExperiments'[k]
      BY <2>1, <2>3, <3>2 DEF IInv, RegistryOK
    <3> QED
      BY <3>1, <3>2 DEF RegistryOK
  <2>5. LoopOK' /\ TasksOK'
    BY <1>2, NoneBusy, TasksIdle DEF RegisterNamed, IInv, LoopOK, InScenarios, loop
  <2>6. DirtyOK'
    BY <1>2, <2>1 DEF RegisterNamed, IInv, DirtyOK
  <2> QED
    BY <2>2, <2>4, <2>5, <2>6 DEF IInv
<1>3. CASE OnResult
  <2>1. TypeOK'
    BY <1>3 DEF OnResult, IInv, TypeOK, loop, ledger
  <2>2. RegistryOK' /\ DirtyOK'
    BY <1>3, DirtyFrame DEF OnResult, IInv, RegistryOK, loop
  <2>3. LoopOK' /\ TasksOK'
    BY <1>3, NoneBusy, TasksIdle DEF OnResult, IInv, LoopOK, InScenarios, loop
  <2> QED
    BY <2>1, <2>2, <2>3 DEF IInv
<1>4. CASE Cancel
  <2>1. TypeOK'
    BY <1>4 DEF Cancel, IInv, TypeOK, registry, loop, ledger
  <2>2. RegistryOK' /\ DirtyOK'
    BY <1>4, DirtyFrame, RegistryFrame DEF Cancel, IInv, registry, loop
  <2>3. LoopOK'
    BY <1>4 DEF Cancel, IInv, LoopOK, InScenarios, Scenarios, Sc, registry, loop
  <2>4. TasksOK'
    BY <1>4 DEF Cancel, IInv, TasksOK, StructuredConcurrency, Busy, Sc, Scenarios, StepOf, registry, loop
  <2> QED
    BY <2>1, <2>2, <2>3, <2>4 DEF IInv
<1> QED
  BY <1>1, <1>2, <1>3, <1>4 DEF Setup

LEMMA BeginPreserves ==
  ASSUME IInv, Begin
  PROVE  IInv'
<1>1. RegistryOK'
  BY RegistryFrame DEF Begin, RefuseRun, BeginList, BeginScenarios, EnterRunAll,
     BeginRollback, IInv
<1>2. TasksOK'
  BY NoneBusy, TasksIdle
  DEF Begin, RefuseRun, BeginList, BeginScenarios, EnterRunAll, BeginRollback
<1>3. CASE RefuseRun
  BY <1>1, <1>2, <1>3, DirtyFrame
  DEF RefuseRun, EnterRunAll, IInv, TypeOK, LoopOK, InScenarios, registry
<1>4. CASE BeginList
  BY <1>1, <1>2, <1>4, DirtyFrame
  DEF BeginList, EnterRunAll, IInv, TypeOK, LoopOK, InScenarios, registry
<1>5. CASE BeginScenarios
  <2>1. order' \in [DOMAIN Scenarios -> DOMAIN Scenarios] /\ cfg' = cfg
    BY <1>5 DEF BeginScenarios, EnterRunAll, SortedOrders, registry
  <2>2. order' \in Seq(1 .. MaxScenarios)
    <3>1. Scenarios \in Seq(Scenario) /\ Len(Scenarios) \in Nat /\ Len(Scenarios) <= MaxScenarios
      BY ConfigTyped DEF IInv, TypeOK
    <3>2. DOMAIN Scenarios = 1 .. Len(Scenarios) /\ DOMAIN Scenarios \subseteq 1 .. MaxScenarios
      BY <3>1, BoundsAssumption
    <3>3. order' \in [1 .. Len(Scenarios) -> 1 .. MaxScenarios]
      BY <2>1, <3>2
    <3> QED
      BY <3>1, <3>3, FunctionIsSeq
  <2>3. TypeOK'
    BY <1>5, <2>2 DEF BeginScenarios, EnterRunAll, IInv, TypeOK, registry
  <2>4. LoopOK'
    BY <1>5, <2>1 DEF BeginScenarios, EnterRunAll, LoopOK, InScenarios, Scenarios
  <2>5. DirtyOK'
    BY <1>5, DirtyFrame DEF BeginScenarios, EnterRunAll, IInv, registry
  <2> QED
    BY <1>1, <1>2, <2>3, <2>4, <2>5 DEF IInv
<1>6. CASE BeginRollback
  <2>1. TypeOK' /\ LoopOK'
    BY <1>6 DEF BeginRollback, IInv, TypeOK, LoopOK, InScenarios, registry, ledger
  <2>2. DirtyOK'
    BY <1>6 DEF BeginRollback, IInv, TypeOK, DirtyOK, registry
  <2> QED
    BY <1>1, <1>2, <2>1, <2>2 DEF IInv
<1> QED
  BY <1>3, <1>4, <1>5, <1>6 DEF Begin

\* The caller's loops.
LEMMA CallerPreserves ==
  ASSUME IInv, CallerStep
  PROVE  IInv'
<1>1. RegistryOK'
  BY RegistryFrame
  DEF CallerStep, ListCancelled, ListDryRun, ListRun, ListNext, ListEnd,
      ScenarioDisabled, ScenarioSkipped, ForkSteps, BeginSteps, StepSkipped, CallStep,
      StepReturns, StepsEnd, JoinSteps, CloseScenario, ScenariosEnd, RollbackOne,
      EndRollback, IInv
<1>2. CASE ListCancelled \/ ListEnd \/ ScenariosEnd
  <2>1. returned' \in Seq(Result) /\ recorded' \in Seq(Result)
    BY <1>2, ConcatTyped DEF ListCancelled, ListEnd, ScenariosEnd, IInv, TypeOK
  <2>2. TypeOK'
    BY <1>2, <2>1 DEF ListCancelled, ListEnd, ScenariosEnd, IInv, TypeOK, registry, loop
  <2>3. LoopOK' /\ DirtyOK'
    BY <1>2, DirtyFrame
    DEF ListCancelled, ListEnd, ScenariosEnd, IInv, LoopOK, InScenarios, registry
  <2>4. TasksOK'
    BY <1>2, NoneBusy, TasksIdle DEF ListCancelled, ListEnd, ScenariosEnd
  <2> QED
    BY <1>1, <2>2, <2>3, <2>4 DEF IInv
<1>3. CASE ListDryRun \/ ListRun
  <2>1. pos \in DOMAIN experiments /\ pos' = pos /\ pc' = "exec" /\ experiments' = experiments
    BY <1>3 DEF ListDryRun, ListRun, IInv, LoopOK, TypeOK, loop, registry
  <2>2. 0 \in Slots /\ Place(0) \in Places
    BY <2>1, BoundsAssumption DEF Slots, Place, Places, IInv, RegistryOK, TypeOK
  <2>3. task' \in [Slots -> Task]
        /\ (\A s \in Slots \ {0} : task'[s] = task[s])
        /\ task'[0].pc \in {"notify", "call"}
    <3>1. task \in [Slots -> Task]
      BY DEF IInv, TypeOK
    <3>2. CASE ListDryRun
      BY <2>2, <3>1, <3>2, NoTaskTyped DEF ListDryRun, NoTask
    <3>3. CASE ListRun
      BY <2>2, <3>1, <3>3, NoTaskTyped DEF ListRun, NoTask
    <3> QED
      BY <1>3, <3>2, <3>3
  <2>4. results' \in Seq(Result)
    <3>1. ResultAt(0, task[0], "dry") \in Result
      BY <2>2, ResultTyped DEF IInv, TypeOK, Outcomes
    <3>2. results \in Seq(Result)
      BY DEF IInv, TypeOK
    <3>3. CASE ListDryRun
      BY <3>1, <3>2, <3>3, AppendFacts DEF ListDryRun
    <3>4. CASE ListRun
      BY <3>2, <3>4 DEF ListRun, ledger
    <3> QED
      BY <1>3, <3>3, <3>4
  <2>5. TypeOK'
    BY <1>3, <2>3, <2>4 DEF ListDryRun, ListRun, IInv, TypeOK, registry, loop, ledger
  <2>6. LoopOK' /\ DirtyOK'
    BY <1>3, <2>1, DirtyFrame DEF ListDryRun, ListRun, LoopOK, InScenarios, IInv, registry
  <2>7. TasksOK'
    <3>1. \A s \in Slots \ {0} : task'[s].pc = "none"
      BY <1>3, <2>3, NoneBusy DEF ListDryRun, ListRun
    <3>2. StructuredConcurrency'
      BY <2>1, <3>1 DEF StructuredConcurrency, Busy
    <3> QED
      BY <2>3, <3>1, <3>2 DEF TasksOK
  <2> QED
    BY <1>1, <2>5, <2>6, <2>7 DEF IInv
<1>4. CASE ListNext
  <2>1. task' \in [Slots -> Task] /\ \A s \in Slots : task'[s].pc = "none"
    BY <1>4, NoTaskTyped
    DEF ListNext, IInv, TypeOK, TasksOK, StructuredConcurrency, Busy, NoTask
  <2>2. TypeOK'
    BY <1>4, <2>1 DEF ListNext, IInv, TypeOK, registry, ledger
  <2>3. LoopOK' /\ DirtyOK' /\ TasksOK'
    BY <1>4, <2>1, TasksIdle, DirtyFrame
    DEF ListNext, IInv, TypeOK, LoopOK, InScenarios, registry
  <2> QED
    BY <1>1, <2>2, <2>3 DEF IInv
<1>5. CASE ScenarioDisabled \/ ScenarioSkipped
  <2>1. scenarioSuccess' \in [Names -> BOOLEAN]
    BY <1>5 DEF ScenarioDisabled, ScenarioSkipped, IInv, TypeOK
  <2>2. TypeOK'
    BY <1>5, <2>1 DEF ScenarioDisabled, ScenarioSkipped, IInv, TypeOK, registry, ledger
  <2>3. LoopOK'
    BY <1>5 DEF ScenarioDisabled, ScenarioSkipped, IInv, TypeOK, LoopOK, InScenarios,
       Scenarios, registry
  <2>4. TasksOK' /\ DirtyOK'
    BY <1>5, NoneBusy, TasksIdle, DirtyFrame DEF ScenarioDisabled, ScenarioSkipped, IInv, registry
  <2> QED
    BY <1>1, <2>2, <2>3, <2>4 DEF IInv
<1>6. CASE ForkSteps
  <2>1. task' \in [Slots -> Task]
        /\ \A s \in Slots : task'[s] = IF s \in DOMAIN Sc.steps
                                       THEN [NoTask EXCEPT !.pc = "lookup"] ELSE NoTask
    BY <1>6, NoTaskTyped DEF ForkSteps
  <2>2. TypeOK'
    BY <1>6, <2>1 DEF ForkSteps, IInv, TypeOK, registry, ledger
  <2>3. pc' = "wait" /\ pos' = pos /\ order' = order /\ cfg' = cfg /\ Sc' = Sc
    BY <1>6 DEF ForkSteps, Sc, Scenarios, registry
  <2>4. pos \in DOMAIN Scenarios
    BY <1>6, ConfigTyped DEF ForkSteps, IInv, LoopOK, InScenarios, TypeOK
  <2>5. LoopOK'
    BY <1>6, <2>3, <2>4 DEF ForkSteps, IInv, LoopOK, InScenarios, Scenarios
  <2>6. Sc.steps \in Seq(Step)
    BY <2>4, <1>6, ConfigTyped DEF Sc, IInv, LoopOK, InScenarios, TypeOK, ForkSteps
  <2>7. 0 \notin DOMAIN Sc.steps
    BY <2>6
  <2>8. TasksOK'
    <3>1. StructuredConcurrency'
      BY <2>1, <2>3 DEF StructuredConcurrency, Busy, NoTask
    <3>2. \A s \in Slots : task'[s].pc \in {"none", "lookup"}
      BY <2>1 DEF NoTask
    <3>3. 0 \in Slots /\ task'[0].pc = "none"
      BY <2>1, <2>7, BoundsAssumption DEF NoTask, Slots
    <3> QED
      BY <3>1, <3>2, <3>3 DEF TasksOK
  <2>9. DirtyOK'
    BY <1>6, DirtyFrame DEF ForkSteps, IInv, registry
  <2> QED
    BY <1>1, <2>2, <2>5, <2>8, <2>9 DEF IInv
<1>7. CASE BeginSteps
  <2>1. pos \in DOMAIN Scenarios
    BY <1>7, ConfigTyped DEF BeginSteps, IInv, LoopOK, InScenarios, TypeOK
  <2>2. TypeOK'
    BY <1>7 DEF BeginSteps, IInv, TypeOK, registry, ledger
  <2>3. LoopOK'
    BY <1>7, <2>1 DEF BeginSteps, IInv, LoopOK, InScenarios, Scenarios, registry
  <2>4. TasksOK' /\ DirtyOK'
    BY <1>7, NoneBusy, TasksIdle, DirtyFrame DEF BeginSteps, IInv, registry
  <2> QED
    BY <1>1, <2>2, <2>3, <2>4 DEF IInv
<1>8. CASE StepSkipped
  <2>1. TypeOK'
    BY <1>8 DEF StepSkipped, IInv, TypeOK, registry, ledger
  <2>2. LoopOK'
    BY <1>8 DEF StepSkipped, IInv, TypeOK, LoopOK, InScenarios, Scenarios, registry
  <2>3. TasksOK' /\ DirtyOK'
    BY <1>8, NoneBusy, TasksIdle, DirtyFrame DEF StepSkipped, IInv, registry
  <2> QED
    BY <1>1, <2>1, <2>2, <2>3 DEF IInv
<1>9. CASE CallStep
  <2>1. Sc' = Sc /\ pc' = "step" /\ UNCHANGED <<cfg, order, pos, step, experiments, namedExperiments>>
    BY <1>9 DEF CallStep, Sc, Scenarios, registry, loop
  <2>2. Sc.steps \in Seq(Step) /\ Len(Sc.steps) <= MaxSteps
    BY <1>9, ScenarioInProgress DEF CallStep
  <2>3. step \in DOMAIN Sc.steps /\ step \in Slots /\ step # 0
    BY <1>9, <2>2, BoundsAssumption DEF CallStep, IInv, LoopOK, TypeOK, Slots
  <2>4. task' \in [Slots -> Task] /\ task'[step].pc = "lookup"
        /\ \A s \in Slots \ {step} : task'[s] = task[s]
    BY <1>9, <2>3, NoTaskTyped DEF CallStep, IInv, TypeOK, NoTask
  <2>5. TypeOK'
    BY <1>9, <2>4 DEF CallStep, IInv, TypeOK, registry, loop, ledger
  <2>6. LoopOK'
    BY <1>9, <2>1, <2>3 DEF CallStep, IInv, LoopOK, InScenarios, Scenarios
  <2>7. TasksOK'
    <3>1. \A s \in Slots \ {step} : task'[s].pc = "none"
      BY <1>9, <2>4, NoneBusy DEF CallStep
    <3>2. StructuredConcurrency'
      BY <2>1, <2>3, <3>1 DEF StructuredConcurrency, Busy
    <3>3. 0 \in Slots \ {step}
      BY <2>3, BoundsAssumption DEF Slots
    <3> QED
      BY <2>4, <3>1, <3>2, <3>3 DEF TasksOK
  <2>8. DirtyOK'
    BY <1>9, DirtyFrame DEF CallStep, IInv, registry
  <2> QED
    BY <1>1, <2>5, <2>6, <2>7, <2>8 DEF IInv
<1>10. CASE StepReturns
  <2>1. pc = "step" /\ step \in DOMAIN Sc.steps /\ Len(Sc.steps) <= MaxSteps /\ Sc.steps \in Seq(Step)
    BY <1>10, ScenarioInProgress DEF StepReturns, IInv, LoopOK
  <2>2. step \in Slots
    BY <2>1, BoundsAssumption DEF Slots
  <2>3. task \in [Slots -> Task] /\ task[step] \in Task /\ task[step].out \in Outcomes
    BY <2>2 DEF IInv, TypeOK, Task
  <2>4. task' \in [Slots -> Task] /\ \A s \in Slots : task'[s].pc = "none"
    BY <1>10, <2>1, <2>2, <2>3, NoTaskTyped
    DEF StepReturns, IInv, TasksOK, StructuredConcurrency, Busy, NoTask
  <2>5. results' \in Seq(Result)
    <3>1. ResultAt(step, task[step], task[step].out) \in Result
      BY <1>10, <2>2, <2>3, SlotInUse, ResultTyped DEF StepReturns
    <3> QED
      BY <1>10, <3>1, AppendFacts DEF StepReturns, IInv, TypeOK
  <2>6. TypeOK'
    BY <1>10, <2>4, <2>5 DEF StepReturns, IInv, TypeOK, registry
  <2>7. LoopOK'
    BY <1>10, <2>1 DEF StepReturns, IInv, TypeOK, LoopOK, InScenarios, Scenarios, registry
  <2>8. TasksOK' /\ DirtyOK'
    BY <1>10, <2>4, TasksIdle, DirtyFrame DEF StepReturns, IInv, registry
  <2> QED
    BY <1>1, <2>6, <2>7, <2>8 DEF IInv
<1>11. CASE StepsEnd \/ JoinSteps
  <2>1. pos \in DOMAIN Scenarios /\ pos' = pos + 1 /\ pc' = "scenario"
        /\ UNCHANGED <<registry, order, step, dirty>>
    BY <1>11 DEF StepsEnd, JoinSteps, CloseScenario, IInv, LoopOK
  <2>2. task' \in [Slots -> Task] /\ \A s \in Slots : task'[s].pc = "none"
    <3>1. CASE StepsEnd
      BY <3>1, NoneBusy DEF StepsEnd, IInv, TypeOK
    <3>2. CASE JoinSteps
      BY <3>2, NoTaskTyped DEF JoinSteps, NoTask
    <3> QED
      BY <1>11, <3>1, <3>2
  <2>3. scenarioSuccess' \in [Names -> BOOLEAN]
    BY <1>11 DEF StepsEnd, JoinSteps, CloseScenario, IInv, TypeOK
  <2>4. TypeOK'
    BY <1>11, <2>1, <2>2, <2>3 DEF StepsEnd, JoinSteps, CloseScenario, IInv, TypeOK, registry, ledger
  <2>5. LoopOK'
    BY <1>11, <2>1 DEF StepsEnd, JoinSteps, IInv, TypeOK, LoopOK, InScenarios, Scenarios, registry
  <2>6. TasksOK' /\ DirtyOK'
    BY <2>1, <2>2, TasksIdle, DirtyFrame DEF IInv, registry
  <2> QED
    BY <1>1, <2>4, <2>5, <2>6 DEF IInv
<1>12. CASE RollbackOne
  <2>1. TypeOK'
    BY <1>12 DEF RollbackOne, IInv, TypeOK, registry, ledger
  <2>2. LoopOK'
    BY <1>12 DEF RollbackOne, IInv, TypeOK, LoopOK, InScenarios, registry
  <2>3. TasksOK'
    BY <1>12, NoneBusy, TasksIdle DEF RollbackOne
  <2>4. DirtyOK'
    BY <1>12 DEF RollbackOne, IInv, TypeOK, DirtyOK, registry
  <2> QED
    BY <1>1, <2>1, <2>2, <2>3, <2>4 DEF IInv
<1>13. CASE EndRollback
  BY <1>1, <1>13, NoneBusy, TasksIdle, DirtyFrame
  DEF EndRollback, IInv, TypeOK, LoopOK, InScenarios, registry, loop, ledger
<1> QED
  BY <1>2, <1>3, <1>4, <1>5, <1>6, <1>7, <1>8, <1>9, <1>10, <1>11, <1>12, <1>13 DEF CallerStep

\* A task record changed as the actions change it is one.
LEMMA TaskPC_Typed ==
  ASSUME NEW t \in Task, NEW p \in TaskPC
  PROVE  [t EXCEPT !.pc = p] \in Task
BY DEF Task

LEMMA TaskOut_Typed ==
  ASSUME NEW t \in Task, NEW p \in TaskPC, NEW o \in Outcomes
  PROVE  [t EXCEPT !.pc = p, !.out = o] \in Task
BY DEF Task

LEMMA TaskRetried_Typed ==
  ASSUME NEW t \in Task, NEW p \in TaskPC
  PROVE  [t EXCEPT !.pc = p, !.attempt = @ + 1] \in Task
<1>1. t.attempt + 1 \in Nat \ {0}
  BY DEF Task
<1> QED
  BY <1>1 DEF Task

LEMMA TaskCalled_Typed ==
  ASSUME NEW t \in Task
  PROVE  [t EXCEPT !.cb = @ + 1] \in Task
BY DEF Task

\* The calls in the slots, one action of runScenarioStep or of the list's
\* body: TasksFrame speaks for the tasks and the loops.
LEMMA SlotPreserves ==
  ASSUME IInv, NEW s \in Slots, SlotStep(s)
  PROVE  IInv'
<1> DEFINE t == task[s]
<1>1. t \in Task /\ task \in [Slots -> Task] /\ fired \in [Places -> Nat] /\ results \in Seq(Result)
  BY DEF IInv, TypeOK
<1>2. t.pc # "none"
  BY BoundsAssumption
  DEF SlotStep, Lookup, CheckContext, StartRun, ListRunReturns, RunSucceeds, RunFails,
      Notify, Notified, StoreResult, Slots
<1>3. RegistryOK'
  BY RegistryFrame
  DEF SlotStep, Lookup, CheckContext, StartRun, ListRunReturns, RunSucceeds, RunFails,
      Notify, Notified, StoreResult, TaskStep, IInv
<1>4. \A p \in {"lookup", "check", "call", "running", "notify", "return", "done"} : p \in TaskPC
  BY DEF TaskPC
<1>0. \A o \in {"ok", "fail", "dry", "unknown", "cancelled"} : o \in Outcomes
  BY DEF Outcomes
<1>5. s = 0 => t.pc \in {"none", "call", "running", "notify"}
  BY DEF IInv, TasksOK
<1>6. s # 0 /\ t.pc \in {"check", "call", "running"} => namedExperiments[StepOf(s).name] # NoExp
  BY DEF IInv, TasksOK
\* the actions that change the task and perhaps dirty, and nothing else
<1>7. ASSUME NEW u \in Task, TaskStep(s, u),
             s = 0 => u.pc \in {"none", "call", "running", "notify"},
             s # 0 /\ u.pc \in {"check", "call", "running"} =>
               namedExperiments[StepOf(s).name] # NoExp,
             dirty' \subseteq Exps, DirtyOK'
      PROVE  IInv'
  <2>1. TasksOK' /\ LoopOK' /\ task' \in [Slots -> Task]
    BY <1>2, <1>7, TasksFrame DEF TaskStep, loop
  <2>2. TypeOK'
    BY <1>7, <2>1 DEF TaskStep, IInv, TypeOK, registry, loop, ledger
  <2> QED
    BY <1>3, <1>7, <2>1, <2>2 DEF IInv
<1>8. ASSUME UNCHANGED <<dirty, experiments, pc, pos>>
      PROVE  dirty' \subseteq Exps /\ DirtyOK'
  BY <1>8, DirtyFrame DEF IInv, TypeOK
<1>9. CASE Lookup(s)
  <2> DEFINE u == IF namedExperiments[StepOf(s).name] = NoExp
                  THEN [t EXCEPT !.pc = "return", !.out = "unknown"]
                  ELSE [t EXCEPT !.pc = "check"]
  <2>1. u \in Task
    BY <1>0, <1>1, <1>4, TaskPC_Typed, TaskOut_Typed
  <2>3. u.pc = (IF namedExperiments[StepOf(s).name] = NoExp THEN "return" ELSE "check") /\ s # 0
    BY <1>1, <1>5, <1>9 DEF Lookup, Task
  <2>2. TaskStep(s, u) /\ dirty' = dirty
    BY <1>9 DEF Lookup
  <2> HIDE DEF u
  <2> QED
    BY <1>7, <1>8, <2>1, <2>2, <2>3 DEF TaskStep, registry, loop
<1>10. CASE CheckContext(s)
  <2>1. s # 0 /\ namedExperiments[StepOf(s).name] # NoExp
    BY <1>5, <1>6, <1>10 DEF CheckContext
  <2>2. dirty' = dirty
    BY <1>10 DEF CheckContext
  <2>3. PICK u \in Task : TaskStep(s, u)
    BY <1>0, <1>1, <1>4, <1>10, TaskPC_Typed, TaskOut_Typed DEF CheckContext
  <2> QED
    BY <1>7, <1>8, <2>1, <2>2, <2>3 DEF TaskStep, registry, loop
<1>11. CASE StartRun(s)
  <2>1. t.pc = "call" /\ TaskStep(s, [t EXCEPT !.pc = "running"])
        /\ dirty' = dirty \cup {ExpOf(s)}
    BY <1>11 DEF StartRun
  <2>2. [t EXCEPT !.pc = "running"] \in Task
    BY <1>1, <1>4, TaskPC_Typed
  <2>6. [t EXCEPT !.pc = "running"].pc = "running"
    BY <1>1 DEF Task
  <2>3. ExpOf(s) \in Exps /\ \E i \in DOMAIN experiments : experiments[i] = ExpOf(s)
    <3>1. CASE s = 0
      BY <1>2, <3>1, SlotInUse DEF ExpOf
    <3>2. CASE s # 0
      BY <1>2, <1>6, <2>1, <3>2, SlotInUse DEF ExpOf, IInv, RegistryOK, TypeOK
    <3> QED BY <3>1, <3>2
  <2>4. pc # "rollback"
    BY <1>2, SlotInUse
  <2>5. DirtyOK' /\ dirty' \subseteq Exps
    BY <2>1, <2>3, <2>4 DEF TaskStep, IInv, TypeOK, DirtyOK, registry
  <2> QED
    BY <1>6, <1>7, <2>1, <2>2, <2>5, <2>6
<1>12. ASSUME s = 0, NEW out \in {"ok", "fail"}, ListRunReturns(out)
       PROVE  IInv'
  <2> DEFINE u == [t EXCEPT !.pc = "notify", !.out = out]
  <2>0. u \in Task /\ out \in Outcomes
    BY <1>0, <1>1, <1>4, <1>12, TaskOut_Typed
  <2>1. u.pc = "notify" /\ task' = [task EXCEPT ![s] = u]
    BY <1>1, <1>12 DEF ListRunReturns, Task
  <2>2. results' \in Seq(Result)
    BY <1>1, <1>2, <1>12, <2>0, SlotInUse, ResultTyped, AppendFacts DEF ListRunReturns
  <2> HIDE DEF u
  <2>3. TasksOK' /\ LoopOK' /\ task' \in [Slots -> Task]
    BY <1>2, <1>12, <2>0, <2>1, TasksFrame DEF ListRunReturns, loop
  <2>4. TypeOK'
    BY <1>12, <2>2, <2>3 DEF ListRunReturns, IInv, TypeOK, registry, loop
  <2> QED
    BY <1>3, <1>8, <1>12, <2>3, <2>4 DEF IInv, ListRunReturns, registry, loop
<1>13. CASE RunSucceeds(s)
  <2> DEFINE u == [t EXCEPT !.pc = "notify", !.out = "ok"]
  <2>0. u \in Task
    BY <1>0, <1>1, <1>4, TaskOut_Typed
  <2>1. u.pc = "notify"
    BY <1>1 DEF Task
  <2>2. TaskStep(s, u) /\ dirty' = dirty /\ s # 0
    BY <1>13 DEF RunSucceeds
  <2> HIDE DEF u
  <2> QED
    BY <1>7, <1>8, <2>0, <2>1, <2>2 DEF TaskStep, registry, loop
<1>14. CASE RunFails(s)
  <2> DEFINE u == IF t.attempt < Attempts(Sc, StepOf(s))
                  THEN [t EXCEPT !.pc = "check", !.attempt = @ + 1]
                  ELSE [t EXCEPT !.pc = "notify", !.out = "fail"]
  <2>0. u \in Task
    BY <1>0, <1>1, <1>4, TaskRetried_Typed, TaskOut_Typed
  <2>1. u.pc \in {"check", "notify"}
    BY <1>1 DEF Task
  <2>2. TaskStep(s, u) /\ dirty' = dirty /\ s # 0 /\ t.pc = "running"
    BY <1>14 DEF RunFails
  <2> HIDE DEF u
  <2> QED
    BY <1>6, <1>7, <1>8, <2>0, <2>1, <2>2 DEF TaskStep, registry, loop
<1>15. CASE Notify(s)
  <2> DEFINE u == [t EXCEPT !.cb = @ + 1]
  <2>0. u \in Task
    BY <1>1, TaskCalled_Typed
  <2>1. u.pc = "notify" /\ task' = [task EXCEPT ![s] = u]
    <3>1. t.pc = "notify" /\ task' = [task EXCEPT ![s] = u]
      BY <1>15 DEF Notify
    <3>2. u.pc = t.pc
      BY <1>1 DEF Task
    <3> QED BY <3>1, <3>2
  <2>2. fired' \in [Places -> Nat]
    BY <1>1, <1>2, <1>15, SlotInUse DEF Notify
  <2> HIDE DEF u
  <2>3. TasksOK' /\ LoopOK' /\ task' \in [Slots -> Task]
    BY <1>2, <1>15, <2>0, <2>1, TasksFrame DEF Notify, loop
  <2>4. TypeOK'
    BY <1>15, <2>2, <2>3 DEF Notify, IInv, TypeOK, registry, loop
  <2> QED
    BY <1>3, <1>8, <1>15, <2>3, <2>4 DEF IInv, Notify, registry, loop
<1>16. CASE Notified(s)
  <2> DEFINE u == [t EXCEPT !.pc = "return"]
  <2>0. u \in Task
    BY <1>1, <1>4, TaskPC_Typed
  <2>1. u.pc = "return"
    BY <1>1 DEF Task
  <2>2. TaskStep(s, u) /\ dirty' = dirty /\ s # 0
    BY <1>16 DEF Notified
  <2> HIDE DEF u
  <2> QED
    BY <1>7, <1>8, <2>0, <2>1, <2>2 DEF TaskStep, registry, loop
<1>17. CASE StoreResult(s)
  <2> DEFINE u == [t EXCEPT !.pc = "done"]
  <2>0. u \in Task
    BY <1>1, <1>4, TaskPC_Typed
  <2>1. u.pc = "done" /\ task' = [task EXCEPT ![s] = u] /\ s # 0 /\ t.out \in Outcomes
    BY <1>1, <1>5, <1>17 DEF StoreResult, Task
  <2>2. results' \in Seq(Result)
    BY <1>1, <1>2, <1>17, <2>1, SlotInUse, ResultTyped, AppendFacts DEF StoreResult
  <2>3. allSucceeded' \in BOOLEAN
    BY <1>17 DEF StoreResult, IInv, TypeOK
  <2> HIDE DEF u
  <2>4. TasksOK' /\ LoopOK' /\ task' \in [Slots -> Task]
    BY <1>2, <1>17, <2>0, <2>1, TasksFrame DEF StoreResult
  <2>5. TypeOK'
    BY <1>17, <2>2, <2>3, <2>4 DEF StoreResult, IInv, TypeOK, registry
  <2> QED
    BY <1>3, <1>8, <1>17, <2>4, <2>5 DEF IInv, StoreResult, registry
<1> QED
  BY <1>9, <1>10, <1>11, <1>12, <1>13, <1>14, <1>15, <1>16, <1>17 DEF SlotStep

-----------------------------------------------------------------------------
(* The theorems. *)

LEMMA InitInvariant == Init => IInv
<1> SUFFICES ASSUME Init
             PROVE  IInv
  OBVIOUS
<1>1. \A s \in Slots : task[s] = NoTask /\ task[s].pc = "none"
  BY DEF Init, NoTask
<1>2. <<>> \in Seq(Exps) /\ <<>> \in Seq(Result) /\ <<>> \in Seq(1 .. MaxScenarios)
  OBVIOUS
<1>3. TypeOK
  BY <1>2, NoTaskTyped DEF Init, TypeOK
<1>4. RegistryOK
  BY BoundsAssumption DEF Init, RegistryOK
<1>5. LoopOK /\ DirtyOK
  BY DEF Init, LoopOK, InScenarios, DirtyOK
<1>6. TasksOK
  BY <1>1, BoundsAssumption DEF TasksOK, StructuredConcurrency, Busy, Slots
<1> QED
  BY <1>3, <1>4, <1>5, <1>6 DEF IInv

LEMMA NextInvariant == IInv /\ [Next]_vars => IInv'
<1> SUFFICES ASSUME IInv, [Next]_vars
             PROVE  IInv'
  OBVIOUS
<1>1. CASE Next
  <2>1. CASE Finished
    BY <2>1 DEF Finished, vars, registry, loop, ledger, IInv, TypeOK, RegistryOK, LoopOK,
       TasksOK, DirtyOK, InScenarios, StructuredConcurrency, Busy, Sc, Scenarios, StepOf
  <2> QED
    BY <1>1, <2>1, SetupPreserves, BeginPreserves, CallerPreserves, SlotPreserves DEF Next
<1>2. CASE UNCHANGED vars
  BY <1>2 DEF vars, registry, loop, ledger, IInv, TypeOK, RegistryOK, LoopOK,
     TasksOK, DirtyOK, InScenarios, StructuredConcurrency, Busy, Sc, Scenarios, StepOf
<1> QED
  BY <1>1, <1>2

\* The engine's behaviours, whether or not its goroutines are scheduled fairly.
SafeEngine == Init /\ [][Next]_vars

\* The inductive invariant holds: who is at work, what is registered and what a
\* rollback is still to undo (engine.go:90-366).
THEOREM Invariance == SafeEngine => []IInv
  BY InitInvariant, NextInvariant, PTL DEF SafeEngine

\* Type correctness.
THEOREM TypeCorrect == Spec => []TypeOK
<1>1. IInv => TypeOK
  BY DEF IInv
<1> QED
  BY <1>1, Invariance, PTL DEF Spec, SafeEngine

\* No experiment runs outside the RunAll that started it, whatever the
\* scenarios and however their goroutines interleave.
THEOREM StructuredConcurrencyHolds == Spec => []StructuredConcurrency
<1>1. IInv => StructuredConcurrency
  BY DEF IInv, TasksOK
<1> QED
  BY <1>1, Invariance, PTL DEF Spec, SafeEngine

\* RollbackAll leaves out no experiment that was run.
THEOREM RollbackIsComplete == Spec => RollbackComplete
<1>1. IInv /\ [Next]_vars => [pc = "rollback" /\ pc' # pc => dirty' = {}]_vars
  <2> SUFFICES ASSUME IInv, Next, pc = "rollback", pc' # pc
               PROVE  dirty' = {}
    BY DEF vars
  <2>1. EndRollback
    BY BoundsAssumption
    DEF Next, Setup, Register, RegisterNamed, OnResult, Cancel, Begin, RefuseRun, BeginList,
        BeginScenarios, EnterRunAll, BeginRollback, CallerStep, ListCancelled, ListDryRun,
        ListRun, ListNext, ListEnd, ScenarioDisabled, ScenarioSkipped, ForkSteps, BeginSteps,
        StepSkipped, CallStep, StepReturns, StepsEnd, JoinSteps, CloseScenario, ScenariosEnd,
        RollbackOne, SlotStep, Lookup, CheckContext, StartRun, ListRunReturns, RunSucceeds,
        RunFails, Notify, Notified, StoreResult, TaskStep, Finished, vars
  <2>2. pos = 0 /\ dirty' = dirty
    BY <2>1 DEF EndRollback
  <2>3. \A e \in dirty : \E i \in DOMAIN experiments : i <= 0
    BY <2>2 DEF IInv, DirtyOK
  <2>4. \A i \in DOMAIN experiments : i \in Nat \ {0}
    BY DEF IInv, TypeOK
  <2> QED
    BY <2>2, <2>3, <2>4
<1> QED
  BY <1>1, Invariance, PTL DEF Spec, SafeEngine, RollbackComplete

-----------------------------------------------------------------------------
(***************************************************************************)
(* The engine implements the safety part of module Campaign: its initial   *)
(* states map to initial states and each of its steps to a step of the     *)
(* campaign or to a stutter, for every value of the constants.  The        *)
(* fairness part is left to TLC.                                           *)
(***************************************************************************)

\* What a change of one task does to the two sets of slots.
LEMMA SlotSets ==
  ASSUME NEW s \in Slots, \A k \in Slots \ {s} : task'[k] = task[k]
  PROVE  /\ Committed' = IF task'[s].pc = "call" THEN Committed \cup {s} ELSE Committed \ {s}
         /\ Running' = IF task'[s].pc = "running" THEN Running \cup {s} ELSE Running \ {s}
BY DEF Committed, Running

\* When no slot is in use, none is committed and none is running.
LEMMA NoneBusySets ==
  ASSUME \A s \in Slots : task[s].pc = "none"
  PROVE  Committed = {} /\ Running = {}
BY DEF Committed, Running

LEMMA InitRefines == Init => CampaignView!Init
BY DEF Init, CampaignView!Init, Phase, Committed, Running, NoTask

LEMMA SetupRefines ==
  ASSUME IInv, Setup \/ Cancel \/ Finished \/ UNCHANGED vars
  PROVE  [CampaignView!Next]_(CampaignView!vars)
<1>1. CASE Cancel
  <2>1. CampaignView!Stop
    BY <1>1 DEF Cancel, CampaignView!Stop, Phase, Committed, Running
  <2> QED
    BY <2>1 DEF CampaignView!Next
<1>2. CASE Setup \/ Finished \/ UNCHANGED vars
  BY <1>2 DEF Setup, Register, RegisterNamed, OnResult, Finished, vars, CampaignView!vars, Phase,
     Committed, Running
<1> QED
  BY <1>1, <1>2

LEMMA BeginRefines ==
  ASSUME IInv, Begin
  PROVE  [CampaignView!Next]_(CampaignView!vars)
<1>1. UNCHANGED <<Committed, Running, cancelled, dirty>>
  BY DEF Begin, RefuseRun, BeginList, BeginScenarios, EnterRunAll, BeginRollback,
     Committed, Running
<1>2. CASE RefuseRun
  BY <1>1, <1>2 DEF RefuseRun, EnterRunAll, Phase, CampaignView!vars
<1>3. CASE BeginList \/ BeginScenarios
  <2>1. CampaignView!Begin
    BY <1>1, <1>3 DEF BeginList, BeginScenarios, EnterRunAll, Phase, CampaignView!Begin
  <2> QED
    BY <2>1 DEF CampaignView!Next
<1>4. CASE BeginRollback
  <2>1. CampaignView!BeginUndo
    BY <1>1, <1>4 DEF BeginRollback, Phase, CampaignView!BeginUndo
  <2> QED
    BY <2>1 DEF CampaignView!Next
<1> QED
  BY <1>2, <1>3, <1>4 DEF Begin

LEMMA CallerRefines ==
  ASSUME IInv, CallerStep
  PROVE  [CampaignView!Next]_(CampaignView!vars)
<1>1. CASE ListCancelled \/ ListEnd \/ ScenariosEnd
  <2>1. Committed = {} /\ Running = {} /\ UNCHANGED <<Committed, Running, cancelled, dirty>>
    BY <1>1, NoneBusy, NoneBusySets
    DEF ListCancelled, ListEnd, ScenariosEnd, Committed, Running
  <2>2. CampaignView!Return
    BY <1>1, <2>1 DEF ListCancelled, ListEnd, ScenariosEnd, Phase, CampaignView!Return
  <2> QED
    BY <2>2 DEF CampaignView!Next
<1>2. CASE ListRun
  <2>1. 0 \in Slots /\ task \in [Slots -> Task] /\ Committed = {} /\ Running = {}
    BY <1>2, BoundsAssumption, NoneBusy, NoneBusySets DEF ListRun, Slots, IInv, TypeOK
  <2>4. task'[0].pc = "call" /\ \A k \in Slots \ {0} : task'[k] = task[k]
    BY <1>2, <2>1 DEF ListRun, NoTask
  <2>2. Committed' = Committed \cup {0} /\ Running' = Running
    BY <2>1, <2>4, SlotSets
  <2>3. CampaignView!Clear(0)
    BY <1>2, <2>1, <2>2 DEF ListRun, Phase, CampaignView!Clear
  <2> QED
    BY <2>1, <2>3 DEF CampaignView!Next
<1>3. CASE ListDryRun \/ ListNext
  <2>1. 0 \in Slots /\ task \in [Slots -> Task]
    BY BoundsAssumption DEF Slots, IInv, TypeOK
  <2>2. task[0].pc \in {"none", "notify"}
    BY <1>3, <2>1, NoneBusy DEF ListDryRun, ListNext
  <2>3. task'[0].pc \notin {"call", "running"} /\ \A k \in Slots \ {0} : task'[k] = task[k]
    <3>1. CASE ListDryRun
      BY <2>1, <3>1 DEF ListDryRun, NoTask
    <3>2. CASE ListNext
      BY <2>1, <3>2 DEF ListNext, NoTask
    <3> QED BY <1>3, <3>1, <3>2
  <2>4. UNCHANGED <<Committed, Running>>
    BY <2>1, <2>2, <2>3, SlotSets DEF Committed, Running
  <2> QED
    BY <1>3, <2>4 DEF ListDryRun, ListNext, Phase, CampaignView!vars
<1>4. CASE \/ ScenarioDisabled \/ ScenarioSkipped \/ BeginSteps \/ StepSkipped \/ StepsEnd
  BY <1>4
  DEF ScenarioDisabled, ScenarioSkipped, BeginSteps, StepSkipped, StepsEnd, CloseScenario,
      Phase, Committed, Running, CampaignView!vars
<1>5. CASE ForkSteps \/ JoinSteps
  <2>1. \A s \in Slots : task[s].pc \notin {"call", "running"}
    BY <1>5, NoneBusy
    DEF ForkSteps, JoinSteps, IInv, TasksOK, StructuredConcurrency, Busy
  <2>2. \A s \in Slots : task'[s].pc \notin {"call", "running"}
    BY <1>5 DEF ForkSteps, JoinSteps, NoTask
  <2>3. UNCHANGED <<Committed, Running>>
    BY <2>1, <2>2 DEF Committed, Running
  <2> QED
    BY <1>5, <2>3 DEF ForkSteps, JoinSteps, CloseScenario, Phase, CampaignView!vars
<1>6. CASE CallStep
  <2>1. step \in Slots /\ task \in [Slots -> Task]
    <3>1. Len(Sc.steps) \in Nat /\ Len(Sc.steps) <= MaxSteps
      BY <1>6, ScenarioInProgress DEF CallStep
    <3> QED
      BY <1>6, <3>1, BoundsAssumption DEF CallStep, Slots, IInv, TypeOK
  <2>3. task[step].pc = "none"
    BY <1>6, <2>1, NoneBusy DEF CallStep
  <2>2. UNCHANGED <<Committed, Running>>
    <3>1. task'[step].pc = "lookup" /\ \A k \in Slots \ {step} : task'[k] = task[k]
      BY <1>6, <2>1 DEF CallStep, NoTask
    <3> QED
      BY <2>1, <2>3, <3>1, SlotSets DEF Committed, Running
  <2> QED
    BY <1>6, <2>2 DEF CallStep, Phase, CampaignView!vars
<1>7. CASE StepReturns
  <2>1. step \in Slots /\ task[step].pc = "return" /\ task \in [Slots -> Task]
    BY <1>7, ScenarioInProgress, BoundsAssumption
    DEF StepReturns, Slots, IInv, TypeOK, LoopOK
  <2>2. UNCHANGED <<Committed, Running>>
    <3>1. task'[step].pc = "none" /\ \A k \in Slots \ {step} : task'[k] = task[k]
      BY <1>7, <2>1 DEF StepReturns, NoTask
    <3> QED
      BY <2>1, <3>1, SlotSets DEF Committed, Running
  <2> QED
    BY <1>7, <2>2 DEF StepReturns, Phase, CampaignView!vars
<1>8. CASE RollbackOne
  <2>1. pos \in DOMAIN experiments /\ experiments[pos] \in Exps
    BY <1>8 DEF RollbackOne, IInv, TypeOK, LoopOK
  <2>2. UNCHANGED <<Phase, Committed, Running, cancelled>>
    BY <1>8 DEF RollbackOne, Phase, Committed, Running
  <2>3. CASE experiments[pos] \in dirty
    <3>1. CampaignView!Undo(experiments[pos])
      BY <1>8, <2>2, <2>3 DEF RollbackOne, Phase, CampaignView!Undo
    <3> QED
      BY <2>1, <3>1 DEF CampaignView!Next
  <2>4. CASE experiments[pos] \notin dirty
    BY <1>8, <2>2, <2>4 DEF RollbackOne, CampaignView!vars
  <2> QED
    BY <2>3, <2>4
<1>9. CASE EndRollback
  <2>1. dirty = {}
    BY <1>9 DEF EndRollback, IInv, DirtyOK, TypeOK
  <2>2. CampaignView!EndUndo
    BY <1>9, <2>1 DEF EndRollback, Phase, Committed, Running, CampaignView!EndUndo
  <2> QED
    BY <2>2 DEF CampaignView!Next
<1> QED
  BY <1>1, <1>2, <1>3, <1>4, <1>5, <1>6, <1>7, <1>8, <1>9 DEF CallerStep

LEMMA SlotRefines ==
  ASSUME IInv, NEW s \in Slots, SlotStep(s)
  PROVE  [CampaignView!Next]_(CampaignView!vars)
<1>1. task \in [Slots -> Task]
  BY DEF IInv, TypeOK
<1>2. Phase' = Phase
  BY DEF SlotStep, Lookup, CheckContext, StartRun, ListRunReturns, RunSucceeds, RunFails,
     Notify, Notified, StoreResult, TaskStep, Phase
<1>3. task[s].pc # "none" => Phase = "running"
  BY SlotInUse DEF Phase
<1>4. CASE Lookup(s) \/ Notified(s)
  <2>1. UNCHANGED <<Committed, Running>>
    <3>1. task[s].pc \in {"lookup", "notify"}
      BY <1>4 DEF Lookup, Notified
    <3>2. task'[s].pc \notin {"call", "running"} /\ \A k \in Slots \ {s} : task'[k] = task[k]
      <4>1. CASE Lookup(s)
        BY <1>1, <4>1 DEF Lookup, TaskStep, Task
      <4>2. CASE Notified(s)
        BY <1>1, <4>2 DEF Notified, TaskStep, Task
      <4> QED BY <1>4, <4>1, <4>2
    <3> QED
      BY <1>1, <3>1, <3>2, SlotSets DEF Committed, Running
  <2> QED
    BY <1>2, <1>4, <2>1 DEF Lookup, Notified, TaskStep, CampaignView!vars
<1>5. CASE Notify(s)
  <2>1. task' = [task EXCEPT ![s] = [task[s] EXCEPT !.cb = @ + 1]] /\ task[s].pc = "notify"
        /\ UNCHANGED <<cancelled, dirty>>
    BY <1>5 DEF Notify
  <2>2. UNCHANGED <<Committed, Running>>
    <3>1. task'[s].pc = "notify" /\ \A k \in Slots \ {s} : task'[k] = task[k]
      BY <1>1, <2>1 DEF Task
    <3> QED
      BY <2>1, <3>1, SlotSets DEF Committed, Running
  <2> QED
    BY <1>2, <2>1, <2>2 DEF CampaignView!vars
<1>6. CASE StoreResult(s)
  <2>1. UNCHANGED <<Committed, Running>>
    <3>1. task[s].pc = "return" /\ task'[s].pc = "done" /\ \A k \in Slots \ {s} : task'[k] = task[k]
      BY <1>1, <1>6 DEF StoreResult, Task
    <3> QED
      BY <3>1, SlotSets DEF Committed, Running
  <2> QED
    BY <1>2, <1>6, <2>1 DEF StoreResult, CampaignView!vars
<1>7. CASE CheckContext(s)
  <2>1. CASE cancelled \/ cfg.dryRun
    <3>1. UNCHANGED <<Committed, Running>>
      <4>1. task[s].pc = "check"
        BY <1>7 DEF CheckContext
      <4>2. task'[s].pc \notin {"call", "running"} /\ \A k \in Slots \ {s} : task'[k] = task[k]
        BY <1>1, <1>7, <2>1 DEF CheckContext, TaskStep, Task
      <4> QED
        BY <1>1, <4>1, <4>2, SlotSets DEF Committed, Running
    <3> QED
      BY <1>2, <1>7, <3>1 DEF CheckContext, TaskStep, CampaignView!vars
  <2>2. CASE ~cancelled /\ ~cfg.dryRun
    <3>1. task' = [task EXCEPT ![s] = [task[s] EXCEPT !.pc = "call"]] /\ task[s].pc = "check"
          /\ UNCHANGED <<cancelled, dirty>>
      BY <1>7, <2>2 DEF CheckContext, TaskStep
    <3>2. Committed' = Committed \cup {s} /\ Running' = Running
          /\ s \notin Committed /\ s \notin Running
      <4>1. task'[s].pc = "call" /\ \A k \in Slots \ {s} : task'[k] = task[k]
        BY <1>1, <3>1 DEF Task
      <4> QED
        BY <3>1, <4>1, SlotSets DEF Committed, Running
    <3>3. CampaignView!Clear(s)
      BY <1>2, <1>3, <2>2, <3>1, <3>2 DEF CampaignView!Clear
    <3> QED
      BY <3>3 DEF CampaignView!Next
  <2> QED
    BY <2>1, <2>2
<1>8. CASE StartRun(s)
  <2>1. task' = [task EXCEPT ![s] = [task[s] EXCEPT !.pc = "running"]] /\ task[s].pc = "call"
        /\ cancelled' = cancelled /\ dirty' = dirty \cup {ExpOf(s)}
    BY <1>8 DEF StartRun, TaskStep
  <2>5. task'[s].pc = "running" /\ \A k \in Slots \ {s} : task'[k] = task[k]
    BY <1>1, <2>1 DEF Task
  <2>2. s \in Committed /\ Committed' = Committed \ {s} /\ Running' = Running \cup {s}
    BY <2>1, <2>5, SlotSets DEF Committed
  <2>3. ExpOf(s) \in Exps
    BY <2>1, SlotInUse DEF ExpOf, IInv, TasksOK, TypeOK
  <2>4. CampaignView!Start(s)
    BY <1>2, <2>1, <2>2, <2>3 DEF CampaignView!Start
  <2> QED
    BY <2>4 DEF CampaignView!Next
<1>9. CASE \/ RunSucceeds(s) \/ RunFails(s)
           \/ s = 0 /\ \E out \in {"ok", "fail"} : ListRunReturns(out)
  <2>1. task[s].pc = "running" /\ UNCHANGED <<cancelled, dirty>>
    BY <1>9 DEF RunSucceeds, RunFails, ListRunReturns, TaskStep
  <2>2. task'[s].pc \notin {"call", "running"} /\ \A k \in Slots \ {s} : task'[k] = task[k]
    <3>1. CASE RunSucceeds(s)
      BY <1>1, <3>1 DEF RunSucceeds, TaskStep, Task
    <3>2. CASE RunFails(s)
      BY <1>1, <3>2 DEF RunFails, TaskStep, Task
    <3>3. ASSUME s = 0, NEW out, ListRunReturns(out)
          PROVE  task'[s].pc \notin {"call", "running"} /\ \A k \in Slots \ {s} : task'[k] = task[k]
      BY <1>1, <3>3 DEF ListRunReturns, Task
    <3> QED BY <1>9, <3>1, <3>2, <3>3
  <2>3. s \in Running /\ s \notin Committed /\ Committed' = Committed /\ Running' = Running \ {s}
    BY <1>1, <2>1, <2>2, SlotSets DEF Committed, Running
  <2>4. CampaignView!End(s)
    BY <1>2, <2>1, <2>3 DEF CampaignView!End
  <2> QED
    BY <2>4 DEF CampaignView!Next
<1> QED
  BY <1>4, <1>5, <1>6, <1>7, <1>8, <1>9 DEF SlotStep

-----------------------------------------------------------------------------
\* Every step of the engine is a step of the campaign or leaves it as it is.
LEMMA NextRefines == IInv /\ [Next]_vars => [CampaignView!Next]_(CampaignView!vars)
<1> SUFFICES ASSUME IInv, [Next]_vars
             PROVE  [CampaignView!Next]_(CampaignView!vars)
  OBVIOUS
<1> QED
  BY SetupRefines, BeginRefines, CallerRefines, SlotRefines DEF Next

\* The engine implements the campaign's safety part.
THEOREM EngineImplementsCampaign == Spec => CampaignView!SafeSpec
<1>1. Spec => Init /\ [][Next]_vars
  BY PTL DEF Spec
<1> QED
  BY <1>1, InitRefines, NextRefines, Invariance, PTL DEF SafeEngine, CampaignView!SafeSpec

\* Once the context is done no goroutine comes to the point of calling Run:
\* the campaign allows Clear only before.
THEOREM CancelStops == Spec => CancelStopsNewRuns
<1>1. [CampaignView!Next]_(CampaignView!vars) => (cancelled => Committed' \subseteq Committed)
  BY DEF CampaignView!Next, CampaignView!vars, CampaignView!Stop, CampaignView!Begin, CampaignView!Clear, CampaignView!Start, CampaignView!End, CampaignView!Return, CampaignView!BeginUndo,
     CampaignView!Undo, CampaignView!EndUndo
<1>2. IInv /\ [Next]_vars => [cancelled => Committed' \subseteq Committed]_vars
  BY <1>1, NextRefines
<1> QED
  BY <1>2, Invariance, PTL DEF Spec, SafeEngine, CancelStopsNewRuns
=============================================================================
