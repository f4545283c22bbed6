--------------------------- MODULE SchedulerProofs ---------------------------
(***************************************************************************)
(* Machine-checked theorems about module Scheduler, for every              *)
(* configuration of the scheduler and of the engine: it calls the engine   *)
(* only as the engine may be called, so that every round keeps the         *)
(* engine's promises, counts its rounds right and returns with nothing     *)
(* running.                                                                *)
(***************************************************************************)
EXTENDS Scheduler, EngineResults

\* A step of the scheduler is one of the engine or leaves the engine alone.
LEMMA SchedulerCallsEngine ==
  ASSUME [SchedNext]_allvars
  PROVE  [Next]_vars
<1>1. CASE SchedStep \/ WaitCancelled
  <2>1. CASE BeginRound
    BY <2>1 DEF BeginRound, Begin, Next
  <2>2. CASE RunOnceOrContinuous \/ RunCron \/ RejectConfig \/ EndRound \/ TimerFires \/ WaitCancelled
    BY <2>2 DEF RunOnceOrContinuous, RunCron, RejectConfig, EndRound, TimerFires, WaitCancelled
  <2> QED
    BY <1>1, <2>1, <2>2 DEF SchedStep
<1>2. CASE Setup \/ Cancel \/ EngineStep \/ \E s \in Slots : EngineSlotStep(s)
  BY <1>2 DEF EngineStep, EngineSlotStep, Next
<1>3. CASE SchedFinished \/ UNCHANGED allvars
  BY <1>3 DEF SchedFinished, allvars
<1> QED
  BY <1>1, <1>2, <1>3 DEF SchedNext

\* Rounds are RunAlls: whatever mode the scheduler is in, the engine sees the
\* calls its own specification allows (scheduler.go:61, 73, 122).
THEOREM SchedulerRunsEngine == SchedSpec => SafeEngine
<1>1. SchedInit => Init
  BY DEF SchedInit
<1>2. [SchedNext]_allvars => [Next]_vars
  BY SchedulerCallsEngine
<1> QED
  BY <1>1, <1>2, PTL DEF SchedSpec, SafeEngine

\* In every round of a campaign, in whatever mode and however far the context's
\* end has come, the results are what the engine promises: one for each step
\* that ran, gated by prerequisites and conditions, within the retries and the
\* cap, and none of a Run that outlived its round (engine.go:90-366).
THEOREM RoundsKeepPromises == SchedSpec => []ResultsRight
  BY SchedulerRunsEngine, PromisesAreKept, PTL

\* A round in progress gets on: somebody can move, and every step but the end
\* of the context brings RunAll closer to its return (engine.go:90-366).
THEOREM RoundsGetShorter ==
  SchedSpec =>
    /\ [](pc # "idle" => CallerCan \/ \E s \in Slots : SlotCan(s))
    /\ [][pc # "idle" => Before(Measure', Measure) \/ (Cancel /\ Measure' = Measure)]_vars
  BY SchedulerRunsEngine, SomebodyCanMove, CallsGetShorter, PTL

-----------------------------------------------------------------------------
(* The inductive invariant: the rounds made, and who is at work.           *)

\* the rounds Run is to make, 0 if it goes on until it is cancelled
MaxRounds == IF sched.mode = "once" THEN 1 ELSE sched.maxExperiments

RoundsOK ==
  /\ spc # "returned" => err = "nil"
  /\ spc = "new" => round = 0
  /\ spc \in {"wait", "round"} /\ MaxRounds > 0 => round < MaxRounds
  /\ spc = "running" => round > 0
  /\ MaxRounds > 0 => round <= MaxRounds
  /\ spc = "returned" /\ err = "nil" => MaxRounds > 0 /\ round = MaxRounds

\* the engine is at work inside a round only
AtRest == spc # "running" => pc = "idle"

SchedInv ==
  /\ sched \in SchedulerConfigs
  /\ spc \in {"new", "wait", "round", "running", "returned"}
  /\ round \in Nat
  /\ err \in {"nil", "cancelled", "config"}
  /\ RoundsOK
  /\ AtRest

LEMMA RoundsTyped ==
  ASSUME sched \in SchedulerConfigs
  PROVE  MaxRounds \in Nat /\ sched.maxExperiments \in Nat
<1>1. sched \in SchedulerConfig
  BY SchedulerAssumption
<1> QED
  BY <1>1 DEF SchedulerConfig, MaxRounds

LEMMA SchedPreserved ==
  ASSUME SchedInv, [SchedNext]_allvars
  PROVE  SchedInv'
<1>0. MaxRounds \in Nat /\ sched.maxExperiments \in Nat
  BY RoundsTyped DEF SchedInv
<1>1. CASE UNCHANGED svars
  <2>1. AtRest'
    <3>1. CASE Setup \/ Cancel \/ UNCHANGED vars
      BY <1>1, <3>1 DEF Setup, Register, RegisterNamed, OnResult, Cancel, vars, svars, SchedInv, AtRest
    <3>2. CASE CallerStep
      <4>1. pc # "idle"
        BY <3>2 DEF CallerStep, ListCancelled, ListDryRun, ListRun, ListNext, ListEnd, ScenarioDisabled,
          ScenarioSkipped, ForkSteps, BeginSteps, StepSkipped, CallStep, StepReturns, StepsEnd, JoinSteps,
          ScenariosEnd, RollbackOne, EndRollback
      <4> QED
        BY <1>1, <4>1 DEF SchedInv, AtRest, svars
    <3>3. ASSUME NEW s \in Slots, SlotStep(s)
          PROVE  AtRest'
      <4>1. pc' = pc
        BY <3>3 DEF SlotStep, Lookup, CheckContext, StartRun, ListRunReturns, RunSucceeds, RunFails,
          Notify, Notified, StoreResult, TaskStep
      <4> QED
        BY <1>1, <4>1 DEF SchedInv, AtRest, svars
    <3>4. CASE SchedStep \/ WaitCancelled
      BY <1>1, <3>4 DEF SchedStep, RunOnceOrContinuous, RunCron, RejectConfig, BeginRound, EndRound,
        TimerFires, WaitCancelled, svars, SchedInv
    <3> QED
      BY <1>1, <3>1, <3>2, <3>3, <3>4 DEF SchedNext, EngineStep, EngineSlotStep, SchedFinished, allvars
  <2> QED
    BY <1>1, <2>1 DEF SchedInv, RoundsOK, MaxRounds, svars
<1>2. CASE RunOnceOrContinuous \/ RunCron \/ RejectConfig
  BY <1>0, <1>2 DEF RunOnceOrContinuous, RunCron, RejectConfig, SchedInv, RoundsOK, AtRest, MaxRounds, vars
<1>3. CASE BeginRound
  BY <1>0, <1>3 DEF BeginRound, SchedInv, RoundsOK, AtRest, MaxRounds
<1>4. CASE EndRound
  BY <1>0, <1>4 DEF EndRound, RoundsUsedUp, SchedInv, RoundsOK, AtRest, MaxRounds, vars
<1>5. CASE WaitCancelled \/ TimerFires
  BY <1>0, <1>5 DEF WaitCancelled, TimerFires, SchedInv, RoundsOK, AtRest, MaxRounds, vars
<1> QED
  BY <1>1, <1>2, <1>3, <1>4, <1>5 DEF SchedNext, SchedStep, EngineStep, EngineSlotStep, SchedFinished, allvars

\* The invariants of the engine and of the scheduler, together.
THEOREM SchedulerInvariance == SchedSpec => [](IInv /\ SchedInv)
<1>1. SchedInit => IInv /\ SchedInv
  BY InitInvariant, SchedulerAssumption, RoundsTyped
  DEF SchedInit, Init, SchedInv, RoundsOK, AtRest
<1>2. IInv /\ SchedInv /\ [SchedNext]_allvars => IInv' /\ SchedInv'
  BY SchedulerCallsEngine, NextInvariant, SchedPreserved
<1> QED
  BY <1>1, <1>2, PTL DEF SchedSpec

\* The scheduler's and the engine's variables keep their types.
THEOREM SchedulerTyped == SchedSpec => []SchedTypeOK
<1>1. IInv /\ SchedInv => SchedTypeOK
  BY DEF IInv, SchedInv, SchedTypeOK
<1> QED
  BY <1>1, SchedulerInvariance, PTL

\* Run makes the rounds it was asked for, no more, and returns nil only when it
\* made them all (scheduler.go:59-62, 75, 124).
THEOREM RoundsAreCounted == SchedSpec => []RoundLimit
<1>1. SchedInv => RoundLimit
  BY DEF SchedInv, RoundsOK, RoundLimit, MaxRounds
<1> QED
  BY <1>1, SchedulerInvariance, PTL

\* Between rounds and after the last one nothing is running and nothing is
\* about to run (scheduler.go:61, 73, 122).
THEOREM QuietBetweenRounds == SchedSpec => []QuietAfterReturn
<1>1. IInv /\ SchedInv => QuietAfterReturn
  <2> SUFFICES ASSUME IInv, SchedInv, spc \in {"wait", "returned"}
               PROVE  pc = "idle" /\ Busy = {}
    BY DEF QuietAfterReturn
  <2>1. pc = "idle"
    BY DEF SchedInv, AtRest
  <2> QED
    BY <2>1, NoneBusy DEF Busy
<1> QED
  BY <1>1, SchedulerInvariance, PTL

-----------------------------------------------------------------------------
(* Why a campaign with an end comes to it: the rounds still to make, with  *)
(* the steps Run takes in each.                                            *)

CampaignLeft ==
  LET rounds == 3 * (MaxRounds - round)
  IN  CASE spc = "new"      -> rounds + 3
        [] spc = "wait"     -> rounds + 2
        [] spc = "round"    -> rounds + 1
        [] spc = "running"  -> rounds + 3
        [] spc = "returned" -> 0

\* If there is a limit to the rounds, every step of the scheduler's own leaves
\* fewer of them, those of the engine change nothing about that, and after the
\* last round Run returns, cancelled or not (scheduler.go:59-62, 75, 124).
THEOREM CampaignsGetShorter ==
  SchedSpec =>
    /\ [](MaxRounds > 0 => CampaignLeft \in Nat)
    /\ [][MaxRounds > 0 => IF SchedStep \/ WaitCancelled
                            THEN CampaignLeft' < CampaignLeft
                            ELSE CampaignLeft' = CampaignLeft]_allvars
<1>1. ASSUME SchedInv, MaxRounds > 0
      PROVE  MaxRounds - round \in Nat
  BY <1>1, RoundsTyped DEF SchedInv, RoundsOK
<1>2. SchedInv => (MaxRounds > 0 => CampaignLeft \in Nat)
  BY <1>1 DEF SchedInv, CampaignLeft
<1>3. ASSUME SchedInv, SchedNext, MaxRounds > 0
      PROVE  IF SchedStep \/ WaitCancelled THEN CampaignLeft' < CampaignLeft ELSE CampaignLeft' = CampaignLeft
  <2>1. MaxRounds \in Nat /\ round \in Nat /\ round <= MaxRounds
    BY <1>3, RoundsTyped DEF SchedInv, RoundsOK
  <2>2. CASE SchedStep \/ WaitCancelled
    <3>1. MaxRounds' = MaxRounds
      BY <2>2 DEF MaxRounds, SchedStep, RunOnceOrContinuous, RunCron, RejectConfig, BeginRound, EndRound,
         TimerFires, WaitCancelled
    <3>2. \/ spc = "new" /\ spc' \in {"wait", "round", "returned"} /\ round' = round
          \/ spc = "round" /\ spc' = "running" /\ round' = round + 1 /\ round < MaxRounds
          \/ spc = "running" /\ spc' \in {"wait", "returned"} /\ round' = round
          \/ spc = "wait" /\ spc' \in {"round", "returned"} /\ round' = round
      BY <1>3, <2>2 DEF SchedStep, RunOnceOrContinuous, RunCron, RejectConfig, BeginRound, EndRound,
         TimerFires, WaitCancelled, SchedInv, RoundsOK
    <3> QED
      BY <2>1, <2>2, <3>1, <3>2 DEF CampaignLeft
  <2>3. CASE ~(SchedStep \/ WaitCancelled)
    <3>1. UNCHANGED svars
      BY <1>3, <2>3 DEF SchedNext, EngineStep, EngineSlotStep, SchedFinished, allvars
    <3> QED
      BY <2>3, <3>1 DEF svars, CampaignLeft, MaxRounds
  <2> QED
    BY <2>2, <2>3
<1>4. SchedInv /\ [SchedNext]_allvars =>
        [MaxRounds > 0 => IF SchedStep \/ WaitCancelled
                          THEN CampaignLeft' < CampaignLeft
                          ELSE CampaignLeft' = CampaignLeft]_allvars
  BY <1>3
<1> QED
  BY SchedulerInvariance, <1>2, <1>4, PTL DEF SchedSpec
=============================================================================
