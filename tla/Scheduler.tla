----------------------------- MODULE Scheduler -----------------------------
(***************************************************************************)
(* pkg/scheduler/scheduler.go as the caller of the engine: Run in its      *)
(* three modes calls RunAll once, after a fixed interval or at the times   *)
(* of a cron expression, until the rounds are used up or the context is    *)
(* done.  It composes with module Engine: a round is one call of RunAll,   *)
(* and the scheduler looks at the context only between rounds.             *)
(***************************************************************************)
EXTENDS Engine

CONSTANT SchedulerConfigs  \* values of config.SchedulerConfig

\* schedule: what the cron expression parses to: "times" names some times,
\* "never" none at all (30 February parses too), "invalid" does not parse
SchedulerConfig == [mode : {"once", "continuous", "cron", "other"},
                    schedule : {"times", "never", "invalid"},
                    maxExperiments : Nat]

ASSUME SchedulerAssumption == SchedulerConfigs \subseteq SchedulerConfig

VARIABLES
  sched,  \* Scheduler.cfg
  spc,    \* where Run is: "new", "wait", "round" (about to call RunAll),
          \* "running" (in RunAll) or "returned"
  round,  \* the local of that name
  err     \* what Run returned: "nil", "cancelled" (ctx.Err()) or "config"

svars   == <<sched, spc, round, err>>
allvars == <<vars, svars>>

SchedInit ==
  /\ Init
  /\ sched \in SchedulerConfigs
  /\ spc = "new"
  /\ round = 0
  /\ err = "nil"

-----------------------------------------------------------------------------
\* Run, up to its first round or its first wait
RunOnceOrContinuous ==
  /\ spc = "new" /\ sched.mode \in {"once", "continuous"}
  /\ spc' = "round"
  /\ UNCHANGED <<vars, sched, round, err>>

RunCron ==
  /\ spc = "new" /\ sched.mode = "cron" /\ sched.schedule # "invalid"
  /\ spc' = "wait"
  /\ UNCHANGED <<vars, sched, round, err>>

RejectConfig ==
  /\ spc = "new"
  /\ sched.mode = "other" \/ (sched.mode = "cron" /\ sched.schedule = "invalid")
  /\ spc' = "returned"
  /\ err' = "config"
  /\ UNCHANGED <<vars, sched, round>>

BeginRound ==
  /\ spc = "round"
  /\ RefuseRun \/ BeginList \/ BeginScenarios
  /\ spc' = "running"
  /\ round' = round + 1
  /\ UNCHANGED <<sched, err>>

\* mistakes: one round too many, and a maximum that nobody looks at
RoundsUsedUpLate ==
  \/ sched.mode = "once"
  \/ sched.maxExperiments > 0 /\ round > sched.maxExperiments

RoundsUsedUpOnce == sched.mode = "once"

RoundsUsedUp ==
  \/ sched.mode = "once"
  \/ sched.maxExperiments > 0 /\ round >= sched.maxExperiments

\* mistake: RunAll goes on in the background
EndRoundEarly ==
  /\ spc = "running"
  /\ spc' = IF RoundsUsedUp THEN "returned" ELSE "wait"
  /\ UNCHANGED <<vars, sched, round, err>>

\* RunAll has returned
EndRound ==
  /\ spc = "running" /\ pc = "idle"
  /\ spc' = IF RoundsUsedUp THEN "returned" ELSE "wait"
  /\ UNCHANGED <<vars, sched, round, err>>

(* The select between rounds: either case may be taken when both are       *)
(* ready.  In cron mode an expression that names no time makes Next return *)
(* the zero time, and the timer of a negative wait fires at once.          *)

WaitCancelled ==
  /\ spc = "wait" /\ cancelled
  /\ spc' = "returned"
  /\ err' = "cancelled"
  /\ UNCHANGED <<vars, sched, round>>

TimerFires ==
  /\ spc = "wait" /\ calls < MaxCalls
  /\ spc' = "round"
  /\ UNCHANGED <<vars, sched, round, err>>

-----------------------------------------------------------------------------
SchedStep == \/ RunOnceOrContinuous \/ RunCron \/ RejectConfig
             \/ BeginRound \/ EndRound \/ TimerFires

EngineStep == CallerStep /\ UNCHANGED svars
EngineSlotStep(s) == SlotStep(s) /\ UNCHANGED svars

\* Run has returned, or waits for a round beyond the bound MaxCalls
SchedFinished == spc \in {"wait", "returned"} /\ UNCHANGED allvars

SchedNext ==
  \/ spc = "new" /\ Setup /\ UNCHANGED svars
  \/ Cancel /\ UNCHANGED svars
  \/ SchedStep \/ WaitCancelled
  \/ EngineStep \/ \E s \in Slots : EngineSlotStep(s)
  \/ SchedFinished

(* Besides the engine's fairness: main.go calls Run, a timer fires, and a  *)
(* select whose two cases are ready time and again takes each of them in   *)
(* the end, for Go chooses among ready cases at random.                    *)
SchedFairness ==
  /\ WF_allvars(EngineStep) /\ \A s \in Slots : WF_allvars(~InRun(s) /\ EngineSlotStep(s))
  /\ WF_allvars(SchedStep) /\ SF_allvars(WaitCancelled)

SchedSpec == SchedInit /\ [][SchedNext]_allvars /\ SchedFairness

-----------------------------------------------------------------------------
SchedTypeOK ==
  /\ TypeOK
  /\ sched \in SchedulerConfigs
  /\ spc \in {"new", "wait", "round", "running", "returned"}
  /\ round \in Nat
  /\ err \in {"nil", "cancelled", "config"}

\* The rounds are counted right: Run makes one round in mode once, never more
\* than max_experiments otherwise, and returns nil only when it made them
\* all, whenever the context was cancelled (scheduler.go:59-62, 75, 124).
RoundLimit ==
  LET limit == IF sched.mode = "once" THEN 1 ELSE sched.maxExperiments
  IN  /\ limit > 0 => round <= limit
      /\ spc = "returned" /\ err = "nil" => round = limit

\* Run returns with every experiment at rest, for good: whatever main.go does
\* next, the post-chaos health checks, the summary, the rollback, no Run of a
\* step is still to come (scheduler.go:61, 73, 122).
QuietAfterReturn == spc \in {"wait", "returned"} => pc = "idle" /\ Busy = {}

\* If every Run of an experiment returns, a campaign with an end reaches it:
\* the scheduler's Run returns in mode once and when there is a maximum of
\* rounds, and a cancelled one returns in every mode ("blocks until the
\* context is cancelled or the maximum number of experiments is reached",
\* scheduler.go:43-44).
CampaignEnds ==
  RunsReturn =>
    (spc # "new" /\ (sched.mode = "once" \/ sched.maxExperiments \in 1 .. MaxCalls \/ cancelled)
      ~> spc = "returned")

=============================================================================
