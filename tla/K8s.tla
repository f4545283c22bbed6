-------------------------------- MODULE K8s --------------------------------
(***************************************************************************)
(* The Kubernetes experiment of pkg/k8s/k8s.go: Run goes through the       *)
(* configured actions and, within each, the namespaces; in each place it   *)
(* lists the resources, leaves out what is excluded, picks up to MaxTargets*)
(* of the rest and kills, scales down or deletes them one by one.          *)
(* Rollback restores the deployments it has a record of.                   *)
(*                                                                         *)
(* The cluster is external: other clients scale and remove things between  *)
(* any two calls of the API.  A call fails with or without having taken    *)
(* effect (the answer may be lost), and an update of a scale that changed  *)
(* since it was fetched is a conflict.  The resources are those that match *)
(* the label selectors; the pods that controllers create in place of       *)
(* killed ones are not represented.                                        *)
(***************************************************************************)
EXTENDS Naturals, Sequences, FiniteSets

CONSTANTS
  Namespaces, Names,
  Kubernetes,   \* the name of the service that is never deleted
  Configs,      \* configurations the experiment may be created with
  Clusters,     \* what the cluster may look like at first
  MaxReplicas,  \* bound: replicas of a deployment
  MaxRuns,      \* bound: calls of Run, by rounds and retries
  MaxOthers     \* bound: changes made by other clients

Actions == {"kill_pod", "scale_down", "delete_service"}

\* where a pod, a deployment or a service can be
Places == Namespaces \X Names

\* permitted: the places Policy.CheckK8sTarget lets pass
Config == [actions : Seq(Actions \cup {"unknown"}), namespaces : Seq(Namespaces),
           maxTargets : Nat, excluded : SUBSET Names, permitted : SUBSET Places]

\* exists: the pods, deployments and services, by the action that looks for them
Cluster == [exists : [Actions -> SUBSET Places], replicas : [Places -> 0 .. MaxReplicas]]

Record == [dep : Places, orig : 0 .. MaxReplicas]

ASSUME K8sAssumption ==
  /\ Configs \subseteq Config /\ Clusters \subseteq Cluster
  /\ MaxReplicas \in Nat /\ MaxRuns \in Nat /\ MaxOthers \in Nat /\ IsFiniteSet(Names)
  /\ \A p \in Places : p # <<>>

VARIABLES
  cfg,             \* ChaosK8s.cfg and its policy
  exists,          \* the cluster: what is there
  replicas,        \* the cluster: spec.replicas of the deployments
  killedPods,      \* ChaosK8s.killedPods
  scaledDownDeps,  \* ChaosK8s.scaledDownDeps
  pc,              \* "idle", "place" (head of the loops), "targets", "update",
                   \* "restore" (head of Rollback's loop), "reupdate", "done"
  act, ns,         \* loop indices over the actions and the namespaces
  targets,         \* the targets that are left in this place
  origReplicas,    \* the replicas of the deployments when they were listed
  target,          \* the deployment whose scale was fetched, or <<>>
  fresh,           \* nobody changed it since
  pos,             \* loop index of Rollback
  runs, others,    \* calls of Run, changes by other clients so far
  affected,        \* history: what this Run changed, with the action
  writer,          \* history: who last set a deployment's replicas
  original,        \* history: a deployment's replicas before it was scaled down
  failed           \* history: deployments for which a call of Rollback failed

cluster == <<exists, replicas, writer>>
record  == <<killedPods, scaledDownDeps>>
loop    == <<act, ns, targets, origReplicas>>
counts  == <<runs, others>>
history == <<affected, original, failed>>
vars    == <<cfg, cluster, record, pc, loop, target, fresh, pos, counts, history>>

Action    == cfg.actions[act]
Namespace == cfg.namespaces[ns]

\* mistake: the service of the API server is deleted like any other
ExcludedOnly(a, n) == n \in cfg.excluded

\* isExcluded, and the one name deleteServices leaves out besides
Protected(a, n) == n \in cfg.excluded \/ (a = "delete_service" /\ n = Kubernetes)

Eligible == {n \in Names : <<Namespace, n>> \in exists[Action] /\ ~Protected(Action, n)}

\* mistake: one target too many
SelectOneMore(items, max) ==
  IF max = 0 \/ max >= Cardinality(items)
  THEN {items} ELSE {t \in SUBSET items : Cardinality(t) = max + 1}

\* selectRandom
SelectRandom(items, max) ==
  IF max = 0 \/ max >= Cardinality(items)
  THEN {items} ELSE {t \in SUBSET items : Cardinality(t) = max}

Init ==
  /\ cfg \in Configs
  /\ \E c \in Clusters : exists = c.exists /\ replicas = c.replicas
  /\ killedPods = {} /\ scaledDownDeps = <<>>
  /\ pc = "idle"
  /\ act = 1 /\ ns = 1 /\ targets = {} /\ origReplicas = replicas
  /\ target = <<>> /\ fresh = FALSE /\ pos = 1
  /\ runs = 0 /\ others = 0
  /\ affected = {} /\ original = replicas /\ failed = {}
  /\ writer = [p \in Places |-> "others"]

-----------------------------------------------------------------------------
(* Run: the loops over actions and namespaces. *)

BeginRun ==
  /\ pc = "idle" /\ runs < MaxRuns
  /\ runs' = runs + 1
  /\ pc' = "place"
  /\ act' = 1 /\ ns' = 1
  /\ affected' = {}
  /\ UNCHANGED <<cfg, cluster, record, targets, origReplicas, target, fresh, pos, others,
                 original, failed>>

NextAction ==
  /\ pc = "place" /\ act <= Len(cfg.actions)
  /\ Action \notin Actions \/ ns > Len(cfg.namespaces)
  /\ act' = act + 1 /\ ns' = 1
  /\ UNCHANGED <<cfg, cluster, record, pc, targets, origReplicas, target, fresh, pos,
                 counts, history>>

AtPlace == /\ pc = "place" /\ act <= Len(cfg.actions) /\ ns <= Len(cfg.namespaces)
           /\ Action \in Actions

List ==
  /\ AtPlace
  /\ pc' = "targets"
  /\ targets' \in SelectRandom(Eligible, cfg.maxTargets)
  /\ origReplicas' = IF Action = "scale_down" THEN replicas ELSE origReplicas
  /\ UNCHANGED <<cfg, cluster, record, act, ns, target, fresh, pos, counts, history>>

\* Run returns the error of the list; what was done stays done
ListFails ==
  /\ AtPlace
  /\ pc' = "idle"
  /\ UNCHANGED <<cfg, cluster, record, loop, target, fresh, pos, counts, history>>

NextNamespace ==
  /\ pc = "targets" /\ targets = {}
  /\ pc' = "place"
  /\ ns' = ns + 1
  /\ UNCHANGED <<cfg, cluster, record, act, targets, origReplicas, target, fresh, pos,
                 counts, history>>

EndRun ==
  /\ pc = "place" /\ act > Len(cfg.actions)
  /\ pc' = "idle"
  /\ UNCHANGED <<cfg, cluster, record, loop, target, fresh, pos, counts, history>>

-----------------------------------------------------------------------------
(* Run: one target. *)

Take(n) == /\ pc = "targets" /\ n \in targets
           /\ targets' = targets \ {n}
           /\ UNCHANGED <<cfg, act, ns, origReplicas, pos, counts, failed>>

Permitted(n) == <<Namespace, n>> \in cfg.permitted

Denied(n) ==
  /\ Take(n)
  /\ ~Permitted(n)
  /\ UNCHANGED <<cluster, record, pc, target, fresh, affected, original>>

\* a pod or a service; done: the cluster deleted it, ok: and said so
Delete(n, done, ok) ==
  /\ Take(n)
  /\ Permitted(n) /\ Action \in {"kill_pod", "delete_service"}
  /\ ok => done
  /\ done => <<Namespace, n>> \in exists[Action]
  /\ exists' = IF done THEN [exists EXCEPT ![Action] = @ \ {<<Namespace, n>>}] ELSE exists
  /\ affected' = IF done THEN affected \cup {<<Action, Namespace, n>>} ELSE affected
  /\ killedPods' = IF ok /\ Action = "kill_pod"
                   THEN killedPods \cup {<<Namespace, n>>} ELSE killedPods
  /\ UNCHANGED <<replicas, writer, scaledDownDeps, pc, target, fresh, original>>

GetScaleFails(n) ==
  /\ Take(n)
  /\ Permitted(n) /\ Action = "scale_down"
  /\ UNCHANGED <<cluster, record, pc, target, fresh, affected, original>>

\* mistake: the update is made without a record
GetScaleUnrecorded(n) ==
  /\ Take(n)
  /\ Permitted(n) /\ Action = "scale_down"
  /\ <<Namespace, n>> \in exists["scale_down"]
  /\ target' = <<Namespace, n>>
  /\ fresh' = TRUE
  /\ pc' = "update"
  /\ UNCHANGED <<cluster, record, affected, original>>

\* mistake: the record is made with what the API takes for no count at all
GetScaleDefault(n) ==
  /\ Take(n)
  /\ Permitted(n) /\ Action = "scale_down"
  /\ <<Namespace, n>> \in exists["scale_down"]
  /\ LET d == <<Namespace, n>>
     IN  /\ scaledDownDeps' = Append(scaledDownDeps, [dep |-> d, orig |-> 1])
         /\ target' = d
  /\ fresh' = TRUE
  /\ pc' = "update"
  /\ UNCHANGED <<cluster, killedPods, affected, original>>

\* the record is made before the update, with the replicas of the list
GetScale(n) ==
  /\ Take(n)
  /\ Permitted(n) /\ Action = "scale_down"
  /\ <<Namespace, n>> \in exists["scale_down"]
  /\ LET d == <<Namespace, n>>
     IN  /\ scaledDownDeps' = Append(scaledDownDeps, [dep |-> d, orig |-> origReplicas[d]])
         /\ target' = d
  /\ fresh' = TRUE
  /\ pc' = "update"
  /\ UNCHANGED <<cluster, killedPods, affected, original>>

\* the scale that was fetched is written back with n replicas; done and ok as above
WriteScale(n, done, ok) ==
  /\ ok => done
  /\ done => fresh /\ target \in exists["scale_down"]
  /\ replicas' = IF done THEN [replicas EXCEPT ![target] = n] ELSE replicas
  /\ writer' = IF done THEN [writer EXCEPT ![target] = "chaos"] ELSE writer
  /\ target' = <<>>
  /\ fresh' = FALSE

UpdateScale(done, ok) ==
  /\ pc = "update"
  /\ pc' = "targets"
  /\ WriteScale(0, done, ok)
  /\ affected' = IF done THEN affected \cup {<<"scale_down", target[1], target[2]>>}
                 ELSE affected
  /\ original' = IF done /\ writer[target] = "others"
                 THEN [original EXCEPT ![target] = replicas[target]] ELSE original
  /\ UNCHANGED <<cfg, exists, record, loop, pos, counts, failed>>

-----------------------------------------------------------------------------
(* Rollback, once, after the last Run: the records in the order they were  *)
(* made, each whatever happened to the others; none is dropped.            *)

BeginRollback ==
  /\ pc = "idle"
  /\ pc' = "restore"
  /\ pos' = 1
  /\ UNCHANGED <<cfg, cluster, record, loop, target, fresh, counts, history>>

\* mistake: the first error ends the rollback
RestoreFailsForAll ==
  /\ pc = "restore" /\ pos <= Len(scaledDownDeps)
  /\ failed' = failed \cup {scaledDownDeps[pos].dep}
  /\ pos' = Len(scaledDownDeps) + 1
  /\ UNCHANGED <<cfg, cluster, record, pc, loop, target, fresh, counts, affected, original>>

RestoreFails ==
  /\ pc = "restore" /\ pos <= Len(scaledDownDeps)
  /\ failed' = failed \cup {scaledDownDeps[pos].dep}
  /\ pos' = pos + 1
  /\ UNCHANGED <<cfg, cluster, record, pc, loop, target, fresh, counts, affected, original>>

RestoreGetScale ==
  /\ pc = "restore" /\ pos <= Len(scaledDownDeps)
  /\ scaledDownDeps[pos].dep \in exists["scale_down"]
  /\ target' = scaledDownDeps[pos].dep
  /\ fresh' = TRUE
  /\ pc' = "reupdate"
  /\ UNCHANGED <<cfg, cluster, record, loop, pos, counts, history>>

RestoreUpdate(done, ok) ==
  /\ pc = "reupdate"
  /\ pc' = "restore"
  /\ pos' = pos + 1
  /\ WriteScale(scaledDownDeps[pos].orig, done, ok)
  /\ failed' = IF ok THEN failed ELSE failed \cup {target}
  /\ UNCHANGED <<cfg, exists, record, loop, counts, affected, original>>

EndRollback ==
  /\ pc = "restore" /\ pos > Len(scaledDownDeps)
  /\ pc' = "done"
  /\ UNCHANGED <<cfg, cluster, record, loop, target, fresh, pos, counts, history>>

-----------------------------------------------------------------------------
(* The other clients of the cluster. *)

OthersScale(d, n) ==
  /\ others < MaxOthers
  /\ d \in exists["scale_down"] /\ n # replicas[d]
  /\ others' = others + 1
  /\ replicas' = [replicas EXCEPT ![d] = n]
  /\ writer' = [writer EXCEPT ![d] = "others"]
  /\ fresh' = (fresh /\ target # d)
  /\ UNCHANGED <<cfg, exists, record, pc, loop, target, pos, runs, history>>

OthersRemove(a, p) ==
  /\ others < MaxOthers
  /\ p \in exists[a]
  /\ others' = others + 1
  /\ exists' = [exists EXCEPT ![a] = @ \ {p}]
  /\ UNCHANGED <<cfg, replicas, writer, record, pc, loop, target, fresh, pos, runs, history>>

-----------------------------------------------------------------------------
RunStep ==
  \/ NextAction \/ List \/ ListFails \/ NextNamespace \/ EndRun
  \/ \E n \in Names : \/ Denied(n) \/ GetScaleFails(n) \/ GetScale(n)
                      \/ \E done, ok \in BOOLEAN : Delete(n, done, ok)
  \/ \E done, ok \in BOOLEAN : UpdateScale(done, ok)

RollbackStep ==
  \/ RestoreFails \/ RestoreGetScale \/ EndRollback
  \/ \E done, ok \in BOOLEAN : RestoreUpdate(done, ok)

OthersStep ==
  \/ \E d \in Places, n \in 0 .. MaxReplicas : OthersScale(d, n)
  \/ \E a \in Actions, p \in Places : OthersRemove(a, p)

Finished == pc = "done" /\ UNCHANGED vars

Next == BeginRun \/ RunStep \/ BeginRollback \/ RollbackStep \/ OthersStep \/ Finished

Spec == Init /\ [][Next]_vars
-----------------------------------------------------------------------------
(* Properties. *)

TypeOK ==
  /\ cfg \in Configs
  /\ exists \in [Actions -> SUBSET Places]
  /\ replicas \in [Places -> 0 .. MaxReplicas]
  /\ killedPods \subseteq Places
  /\ scaledDownDeps \in Seq(Record)
  /\ pc \in {"idle", "place", "targets", "update", "restore", "reupdate", "done"}
  /\ act \in Nat \ {0} /\ ns \in Nat \ {0}
  /\ targets \subseteq Names
  /\ origReplicas \in [Places -> 0 .. MaxReplicas]
  /\ target \in Places \cup {<<>>} /\ fresh \in BOOLEAN
  /\ pos \in Nat \ {0}
  /\ runs \in 0 .. MaxRuns /\ others \in 0 .. MaxOthers
  /\ affected \subseteq (Actions \X Namespaces \X Names)
  /\ writer \in [Places -> {"chaos", "others"}]
  /\ original \in [Places -> 0 .. MaxReplicas]
  /\ failed \subseteq Places

Recorded == {scaledDownDeps[i].dep : i \in DOMAIN scaledDownDeps}

\* A deployment whose replicas this experiment set last is one Rollback will
\* come to, although an update may be done and reported as failed, a Run may
\* end half-way and be retried, and others change the cluster meanwhile
\* (k8s.go:258-268).
ScaleDownsRecorded == \A d \in Places : writer[d] = "chaos" => d \in Recorded

\* Nothing excluded, nothing the policy blocks and no API server's service is
\* killed, scaled or deleted, in whatever Run of whatever round
\* (k8s.go:173, 189, 231, 245, 297-301, 309).
ProtectedUntouched ==
  \A t \in affected : /\ t[3] \notin cfg.excluded
                      /\ t[1] = "delete_service" => t[3] # Kubernetes
                      /\ <<t[2], t[3]>> \in cfg.permitted

Occurrences(s, x) == Cardinality({i \in DOMAIN s : s[i] = x})

\* A Run affects at most MaxTargets resources for each time an action and a
\* namespace are configured (k8s.go:186, 242, 306, 337-345).
CapPerPlace ==
  cfg.maxTargets > 0 =>
    \A a \in Actions, s \in Namespaces :
       Cardinality({n \in Names : <<a, s, n>> \in affected})
         <= cfg.maxTargets * Occurrences(cfg.actions, a) * Occurrences(cfg.namespaces, s)

\* the replicas the last record of a deployment holds
LastRecorded(d) ==
  LET of == {i \in DOMAIN scaledDownDeps : scaledDownDeps[i].dep = d}
  IN  scaledDownDeps[CHOOSE i \in of : \A j \in of : j <= i].orig

\* Best effort: when Rollback is over, a deployment none of whose calls
\* failed, and that nobody else has set since, has the replicas of its last
\* record, whatever failed for the others (k8s.go:126-138).
BestEffort ==
  pc = "done" => \A d \in Places :
    writer[d] = "chaos" /\ d \notin failed => replicas[d] = LastRecorded(d)

\* "rollback restores original count" (README.md:118): a deployment none of
\* whose calls failed, and that nobody else has set since, has the replicas it
\* had before the experiment first scaled it down (k8s.go:234-239, 258-262, 133).
RestoresOriginal ==
  pc = "done" => \A d \in Places :
    writer[d] = "chaos" /\ d \notin failed => replicas[d] = original[d]

\* So it does when there was one Run, which came to each namespace once, and no
\* other client changed anything, whatever calls failed, with or without effect,
\* in the Run and in the rollback.
RestoresAfterOneRun ==
  /\ runs <= 1 /\ others = 0
  /\ Occurrences(cfg.actions, "scale_down") <= 1
  /\ \A s \in Namespaces : Occurrences(cfg.namespaces, s) <= 1
  => RestoresOriginal
=============================================================================
