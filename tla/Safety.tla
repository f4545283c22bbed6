------------------------------- MODULE Safety -------------------------------
(***************************************************************************)
(* What is decided about a campaign before it starts: config.Validate and  *)
(* the preflight of pkg/safety, and the two decisions taken during the     *)
(* run, the policy's about an action and the engine's about a round.       *)
(* Names, addresses and patterns are abstracted to their being there and   *)
(* being well-formed; lists that are only counted, to their length.        *)
(***************************************************************************)
EXTENDS Integers, Sequences, FiniteSets

CONSTANTS
  Namespaces,     \* Kubernetes namespaces
  EndpointNames   \* names of health check endpoints

Modules == {"kubernetes", "http", "grpc", "mq", "network", "stress"}

\* the last is an action no module knows
K8sActions == {"kill_pod", "scale_down", "delete_service", "stop_pod"}

\* sections whose entries must name something: a URL, an address, a broker of
\* a known type, an interface
Sections == {"http", "grpc", "mq", "network", "notify", "healthcheck"}

Modes == {"once", "continuous", "cron", "invalid"}

SafetyConfig ==
  [enabled : BOOLEAN, failClosed : BOOLEAN, requireApproval : BOOLEAN,
   interactive : BOOLEAN, allow : BOOLEAN,
   allowed : SUBSET Namespaces, blocked : SUBSET Namespaces,
   patterns : {"valid", "invalid"}, maxTargets : Int, maxDestructive : Int]

\* items: how many targets, backends or actions a module other than
\* kubernetes has; format: whether the report's is one of the three; endpoints:
\* their names, in order; interval: its sign; parallel: a scenario is
Config ==
  [dryRun : BOOLEAN, enabled : SUBSET Modules, incomplete : SUBSET Sections,
   items : [Modules -> Nat], namespaces : Seq(Namespaces), actions : Seq(K8sActions),
   mode : Modes, maxExperiments : Int, interval : {"positive", "none"},
   metrics : BOOLEAN, report : BOOLEAN, format : {"known", "unknown"},
   notify : BOOLEAN, endpoints : Seq(EndpointNames), parallel : BOOLEAN,
   safety : SafetyConfig]

Has(c, m) == m \in c.enabled

-----------------------------------------------------------------------------
(* config.Validate and NewPolicy. *)

\* negative limits are refused, negative intervals and rounds are not
Validate(c) ==
  /\ Has(c, "kubernetes") => c.namespaces # <<>> /\ c.actions # <<>>
  /\ \A m \in c.enabled \ {"kubernetes"} : c.items[m] > 0 /\ m \notin c.incomplete
  /\ c.notify => "notify" \notin c.incomplete
  /\ c.endpoints # <<>> => "healthcheck" \notin c.incomplete
  /\ c.mode # "invalid"
  /\ c.safety.enabled => /\ c.safety.patterns = "valid"
                         /\ c.safety.maxTargets >= 0 /\ c.safety.maxDestructive >= 0

\* the patterns are compiled, the policy enabled or not
PolicyCompiles(c) == c.safety.patterns = "valid"

-----------------------------------------------------------------------------
(* The estimates. *)

IsDestructiveK8sAction(a) == a \in {"kill_pod", "scale_down", "delete_service"}

Count(c, m) == IF Has(c, m) THEN c.items[m] ELSE 0

\* mistake: an action counts once, whatever the number of namespaces
K8sDestructiveOnce(c) ==
  IF Has(c, "kubernetes")
  THEN Cardinality({i \in DOMAIN c.actions : IsDestructiveK8sAction(c.actions[i])})
  ELSE 0

K8sDestructive(c) ==
  IF Has(c, "kubernetes")
  THEN Cardinality({i \in DOMAIN c.actions : IsDestructiveK8sAction(c.actions[i])})
         * Len(c.namespaces)
  ELSE 0

DestructiveActionCount(c) ==
  K8sDestructive(c) + Count(c, "network") + Count(c, "stress")

EstimateTargets(c) ==
  Count(c, "http") + Count(c, "grpc") + Count(c, "mq") + Count(c, "network") + Count(c, "stress")
    + (IF Has(c, "kubernetes")
       THEN (IF c.namespaces = <<>> THEN 1 ELSE Len(c.namespaces)) * Len(c.actions) ELSE 0)

-----------------------------------------------------------------------------
(* Preflight. *)

NamespacePermitted(c, ns) ==
  /\ c.safety.allowed # {} => ns \in c.safety.allowed
  /\ ns \notin c.safety.blocked

WithinLimits(c) ==
  /\ c.safety.maxTargets > 0 => EstimateTargets(c) <= c.safety.maxTargets
  /\ c.safety.maxDestructive > 0 => DestructiveActionCount(c) <= c.safety.maxDestructive

\* tools: tc and iptables are in PATH
ValidateRun(c, tools) ==
  /\ Has(c, "kubernetes") => \A i \in DOMAIN c.namespaces : NamespacePermitted(c, c.namespaces[i])
  /\ WithinLimits(c)
  /\ Has(c, "network") /\ c.items["network"] > 0 => tools

\* mistake: approval stands in for permission
PreflightEither(c, approved, tools) ==
  c.safety.enabled /\ ~c.dryRun =>
    /\ DestructiveActionCount(c) > 0 =>
         (c.safety.failClosed => c.safety.allow) \/ (c.safety.requireApproval => approved)
    /\ ValidateRun(c, tools)

Preflight(c, approved, tools) ==
  c.safety.enabled /\ ~c.dryRun =>
    /\ DestructiveActionCount(c) > 0 =>
         /\ c.safety.failClosed => c.safety.allow
         /\ c.safety.requireApproval => approved
    /\ ValidateRun(c, tools)

\* main.go asks on the terminal, in a dry run too
Asks(c) == c.safety.enabled /\ c.safety.interactive /\ DestructiveActionCount(c) > 0

-----------------------------------------------------------------------------
(* During the run. *)

\* the modules whose Run may alter something: they ask the policy first
DestructiveModules(c) ==
  {m \in c.enabled : \/ m \in {"network", "stress"}
                     \/ m = "kubernetes" /\ \E i \in DOMAIN c.actions : IsDestructiveK8sAction(c.actions[i])}

\* CheckK8sTarget, CheckNetworkAction and CheckStressAction: checkAction refuses
\* every destructive action or none.  What checkName says of a name is left to
\* module K8s.
ActionDenied(c, m) ==
  /\ c.safety.enabled /\ m \in DestructiveModules(c)
  /\ \/ ~c.safety.allow
     \/ m = "kubernetes" /\ \E i \in DOMAIN c.namespaces : ~NamespacePermitted(c, c.namespaces[i])

\* what the registered experiments report to the engine, each on its own
ReportedActions(c) ==
  (IF Has(c, "kubernetes")
   THEN Cardinality({i \in DOMAIN c.actions :
                       c.actions[i] \in {"kill_pod", "scale_down", "delete_service"}})
          * Len(c.namespaces)
   ELSE 0)
  + Count(c, "network") + Count(c, "stress")

EngineRefuses(c) ==
  /\ c.safety.enabled /\ ~c.dryRun /\ c.safety.maxDestructive > 0
  /\ ReportedActions(c) > c.safety.maxDestructive
=============================================================================
