------------------------------- MODULE MCK8s -------------------------------
(***************************************************************************)
(* Values of K8s's constants for TLC: small clusters with one or two       *)
(* namespaces, and families of configurations, one per question.           *)
(***************************************************************************)
EXTENDS K8s

CONSTANTS n1, n2, x, api

Conf(actions, nss, max, excluded, permitted) ==
  [actions |-> actions, namespaces |-> nss, maxTargets |-> max,
   excluded |-> excluded, permitted |-> permitted]

\* everything exists, all deployments with one replica, or with two and none
Uniform == {[exists |-> [a \in Actions |-> Places], replicas |-> [p \in Places |-> 1]]}

Varied == Uniform \cup
  {[exists   |-> [a \in Actions |-> Places],
    replicas |-> [p \in Places |-> IF p[2] = x THEN 2 ELSE 0]]}

\* a scale-down in one namespace, of one target or of all, and an action the
\* code does not know
ScaleConfigs == {Conf(<<"unknown", "scale_down">>, <<n1>>, m, {}, Places) : m \in {0, 1}}

\* one scale-down in each of two namespaces, or twice in one
TwoNamespaces == {Conf(<<"scale_down">>, <<n1, s>>, m, {}, Places) : m \in {0, 1}, s \in {n1, n2}}

\* all three actions in two namespaces, something excluded, something blocked
MixedConfigs ==
  {Conf(as, <<n2, n1>>, m, excl, Places \ blocked) :
     as \in {<<"kill_pod", "delete_service">>, <<"delete_service", "scale_down">>},
     m \in {0, 1}, excl \in {{}, {x}}, blocked \in {{}, {<<n1, x>>}}}

\* one namespace at length: two Runs, another client; several: one Run, nobody
\* else
AllConfigs == ScaleConfigs \cup TwoNamespaces \cup MixedConfigs

OneRunOfSeveral == Len(cfg.namespaces) > 1 => runs <= 1 /\ others = 0

\* one deployment
ScaleOne == {Conf(<<"scale_down">>, <<n1>>, 1, {}, Places)}
=============================================================================
