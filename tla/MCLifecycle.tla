---------------------------- MODULE MCLifecycle ----------------------------
(***************************************************************************)
(* Values of Lifecycle's constants for TLC: families of configurations,    *)
(* one for each question the run asks.                                     *)
(***************************************************************************)
EXTENDS Lifecycle

CONSTANTS default, system, near, far

Policy ==
  [enabled |-> TRUE, failClosed |-> TRUE, requireApproval |-> TRUE, interactive |-> TRUE,
   allow |-> TRUE, allowed |-> {}, blocked |-> {system}, patterns |-> "valid",
   maxTargets |-> 0, maxDestructive |-> 0]

\* all is well-formed, nothing is enabled, nothing is on
Plain ==
  [dryRun |-> FALSE, enabled |-> {}, incomplete |-> {}, items |-> [m \in Modules |-> 1],
   namespaces |-> <<default>>, actions |-> <<"kill_pod">>, mode |-> "once", maxExperiments |-> 0,
   interval |-> "positive", metrics |-> FALSE, report |-> FALSE, format |-> "known",
   notify |-> FALSE, endpoints |-> <<>>, parallel |-> FALSE,
   safety |-> [Policy EXCEPT !.enabled = FALSE]]

\* what is refused before anything is registered
Malformed ==
  {[Plain EXCEPT !.enabled = {"kubernetes"}, !.namespaces = <<>>],
   [Plain EXCEPT !.enabled = {"http"}, !.items["http"] = 0],
   [Plain EXCEPT !.enabled = {"network"}, !.incomplete = {"network"}],
   [Plain EXCEPT !.notify = TRUE, !.incomplete = {"notify"}],
   [Plain EXCEPT !.endpoints = <<near>>, !.incomplete = {"healthcheck"}],
   [Plain EXCEPT !.mode = "invalid"],
   [Plain EXCEPT !.safety.patterns = "invalid"],
   [Plain EXCEPT !.safety = [Policy EXCEPT !.maxTargets = -1]]}

\* every switch of the policy, over what is destructive and what is not, with
\* limits that are just kept and just exceeded
Switches ==
  {[Policy EXCEPT !.failClosed = f, !.requireApproval = r, !.interactive = i, !.allow = a] :
     f \in BOOLEAN, r \in BOOLEAN, i \in BOOLEAN, a \in BOOLEAN}

Limits ==
  {[Policy EXCEPT !.maxTargets = t, !.maxDestructive = d] : t \in {0, 4, 5}, d \in {0, 2, 3}}
  \cup {[Policy EXCEPT !.allowed = {default}, !.failClosed = FALSE]}

Two == [Plain EXCEPT !.namespaces = <<default, system>>, !.actions = <<"kill_pod", "stop_pod">>]

Admission ==
  {[Plain EXCEPT !.dryRun = d, !.enabled = e, !.actions = k, !.safety = p] :
     d \in BOOLEAN, e \in {{"kubernetes"}, {"http", "network"}},
     k \in {<<"kill_pod">>, <<"stop_pod">>}, p \in Switches}
  \cup {[Two EXCEPT !.enabled = {"kubernetes", "stress"}, !.dryRun = d,
                    !.safety = [p EXCEPT !.blocked = b]] :
     d \in BOOLEAN, p \in Limits, b \in {{}, {system}}}

\* three results of two goroutines, run or skipped, side by side or in turn
Books ==
  {[Plain EXCEPT !.dryRun = d, !.enabled = {"http"}, !.metrics = TRUE, !.report = TRUE,
                 !.notify = TRUE, !.parallel = p] : d \in BOOLEAN, p \in BOOLEAN}

\* endpoints with two names or one, in a campaign of nothing
Probes ==
  {[Plain EXCEPT !.endpoints = n, !.maxExperiments = 1, !.mode = "cron", !.notify = TRUE] :
     n \in {<<near, far>>, <<near, near, far>>}}

\* signals in any phase and a rollback that fails, or has no time
Endings ==
  {[Plain EXCEPT !.enabled = {"kubernetes", "stress"}, !.mode = m, !.maxExperiments = n,
                 !.interval = i, !.metrics = TRUE] :
     m \in {"once", "continuous", "cron"}, n \in {0, 2}, i \in {"positive", "none"}}

AllConfigs == Malformed \cup Admission \cup Books \cup Probes \cup Endings

\* Keeps the questions apart: signals matter to the last two families, a
\* second one to hurried endings, two goroutines and a third step in a round
\* to the books; an ending has a step for each of its modules, and approval
\* matters to an enabled policy.
OneQuestion ==
  /\ approved => cfg.safety.enabled
  /\ signals > 0 => cfg \in Endings \cup Probes
  /\ signals > 1 => cfg.interval = "none"
  /\ 2 \in cleared \cup running \/ stage[2] # "free" => cfg.parallel
  /\ phase = "running" => left >= (IF cfg \in Books THEN 0 ELSE IF cfg \in Endings THEN 1 ELSE 2)

Parallel == {c \in Books : c.parallel /\ ~c.dryRun}
Hurried  == {c \in Endings : c.mode = "once"}
=============================================================================
