------------------------------ MODULE MCEngine ------------------------------
(***************************************************************************)
(* Values of Engine's constants for TLC: two experiments, two names a step *)
(* may use and one no experiment is registered under, and families of      *)
(* configurations, one per question the runs ask.                          *)
(***************************************************************************)
EXTENDS Engine

CONSTANTS e1, e2, a, b, A, B, C

\* e1 reports one destructive action and e2 reports none
MCDestructive == [e \in Exps |-> IF e = e1 THEN 1 ELSE 0]

St(n, cond, r) == [name |-> n, condition |-> cond, retries |-> r]

Scn(n, ord, par, pre, r, steps) ==
  [name |-> n, enabled |-> TRUE, order |-> ord, parallel |-> par,
   prerequisites |-> pre, retries |-> r, steps |-> steps]

Live(scs) == [dryRun |-> FALSE, safety |-> FALSE, maxDestructive |-> 0, scenarios |-> scs]

\* plain lists: live without the safety cap, and live or dry with it, which
\* one registration of e1 respects and two exceed
ListConfigs ==
  {[dryRun |-> d, safety |-> s, maxDestructive |-> 1, scenarios |-> <<>>] :
     <<d, s>> \in {<<FALSE, FALSE>>, <<FALSE, TRUE>>, <<TRUE, TRUE>>}}

\* sequential scenarios, sorted the other way round than configured: all the
\* conditions, retries of the step and of the scenario, a prerequisite
SequentialConfigs ==
  {Live(<<Scn(B, 2, FALSE, {A}, 0, <<St(a, "always", 0)>>),
          Scn(A, 1, FALSE, {}, 1, <<St(a, c1, 0), St(b, c2, 2), St(a, c3, 0)>>)>>) :
     c1 \in {"always", "on_failure"}, c2 \in Conditions, c3 \in Conditions}

\* prerequisites: three scenarios, two of them of one name, that may come in
\* any order the sort leaves, be disabled, fail, or wait for a scenario that
\* comes later, does not exist or was skipped itself
Tie(n, on, ord, pre, st) == [Scn(n, ord, FALSE, pre, 0, <<St(st, "always", 0)>>) EXCEPT !.enabled = on]

PrerequisiteConfigs ==
  {Live(<<Tie(A, TRUE, 1, pa, a), Tie(n, on, o, pb, b), Tie(C, TRUE, 2, pre, a)>>) :
     n \in {A, B}, on \in BOOLEAN, o \in {1, 2},
     pa \in {{}, {C}}, pb \in {{}, {A}}, pre \in {{A}, {A, B}}}

\* parallel scenarios: three goroutines that fail or are retried on their own,
\* then two more behind a prerequisite
ParallelConfigs ==
  {Live(<<Scn(A, 1, TRUE, {}, 1, <<St(a, "always", 0), St(b, "on_failure", 0)>>),
          Scn(B, 2, TRUE, {A}, 0, <<St(a, "always", 0), St(b, "always", 0)>>)>>)}

\* one experiment, twice in a scenario that retries: two goroutines or one
ForkConfigs ==
  {Live(<<Scn(A, 1, par, {}, 1, <<St(a, "always", 0), St(a, "on_failure", 0)>>)>>) :
     par \in BOOLEAN}

\* a plain list
PlainConfigs == {Live(<<>>)}

\* several RunAlls and rollbacks of a sequential scenario and of a parallel one
RoundsConfigs ==
  {Live(<<Scn(A, 1, par, {}, 0, <<St(a, "always", 0), St(a, "on_success", 0)>>)>>) :
     par \in BOOLEAN}

\* a scenario whose steps are one experiment each, under the safety cap
CappedConfigs ==
  {[dryRun |-> FALSE, safety |-> TRUE, maxDestructive |-> 1,
    scenarios |-> <<Scn(A, 1, FALSE, {}, 0, <<St(a, "always", 0)>>),
                    Scn(B, 2, par, {}, 0, <<St(b, "always", 0)>>)>>] : par \in BOOLEAN}

\* what the run takes: the first for the question which steps run, the second
\* for the goroutines of one RunAll, the third for several calls
Gated      == SequentialConfigs \cup PrerequisiteConfigs \cup CappedConfigs
Concurrent == ParallelConfigs \cup ForkConfigs \cup PlainConfigs
Repeated   == ListConfigs \cup RoundsConfigs
AllConfigs == Gated \cup Concurrent \cup Repeated

\* Keeps the questions apart, which would multiply each other: for the first
\* each name has an experiment of its own or none, callbacks are registered
\* for the second only, and for the third, the one with more than one call,
\* one name and the experiments in one order are enough.
OneQuestion ==
  /\ cfg \in Gated =>
       Len(experiments) = Cardinality({i \in Ids : namedExperiments[i] # NoExp})
  /\ callbacks > 0 => cfg \in Concurrent
  /\ calls > 1 => cfg \in Repeated /\ experiments \in {<<>>, <<e1>>, <<e1, e2>>}
  /\ cfg \in Repeated => namedExperiments[b] = NoExp
=============================================================================
