---------------------------- MODULE MCScheduler ----------------------------
(***************************************************************************)
(* Values of Scheduler's constants for TLC: small engines, a list and a    *)
(* retrying scenario, under every kind of schedule.                        *)
(***************************************************************************)
EXTENDS Scheduler

CONSTANTS e1, e2, a, A

MCDestructive == [e \in Exps |-> 1]

Live(scs) == [dryRun |-> FALSE, safety |-> FALSE, maxDestructive |-> 0, scenarios |-> scs]

RetriedStep == [name |-> a, condition |-> "always", retries |-> 1]

OneScenario ==
  <<[name |-> A, enabled |-> TRUE, order |-> 1, parallel |-> FALSE,
     prerequisites |-> {}, retries |-> 0, steps |-> <<RetriedStep>>]>>

ListOnly     == {Live(<<>>)}
ListAndSteps == {Live(<<>>), Live(OneScenario),
                 [Live(<<>>) EXCEPT !.safety = TRUE, !.maxDestructive = 1]}

AllSchedules ==
  {[mode |-> m, schedule |-> s, maxExperiments |-> n] :
     m \in {"once", "continuous", "cron", "other"},
     s \in {"times", "invalid"}, n \in 0 .. 2}
=============================================================================
