----------------------------- MODULE K8sProofs -----------------------------
(***************************************************************************)
(* For every configuration, cluster and behaviour of the API and of its    *)
(* other clients, and any number of Runs: the record Rollback goes by      *)
(* covers every deployment the experiment scaled down, nothing that is     *)
(* protected is touched and no more than the cap, and Rollback does what   *)
(* the last record of each deployment says.                                *)
(***************************************************************************)
EXTENDS K8s, SequenceTheorems, FiniteSetTheorems, TLAPS

\* What the loops' indices and the targets are worth where they are used.
AtTargets ==
  pc \in {"targets", "update"} =>
    /\ act \in DOMAIN cfg.actions /\ ns \in DOMAIN cfg.namespaces
    /\ Action \in Actions
    /\ \A n \in targets : ~Protected(Action, n)

AtUpdate ==
  pc = "update" =>
    /\ Action = "scale_down"
    /\ target \in Recorded
    /\ target \in cfg.permitted
    /\ target[2] \notin cfg.excluded

AtReupdate ==
  pc = "reupdate" => /\ pos \in DOMAIN scaledDownDeps
                     /\ target = scaledDownDeps[pos].dep

IInv == TypeOK /\ AtTargets /\ AtUpdate /\ AtReupdate
        /\ ScaleDownsRecorded /\ ProtectedUntouched

-----------------------------------------------------------------------------
LEMMA CfgTyped ==
  ASSUME TypeOK
  PROVE  /\ cfg.actions \in Seq(Actions \cup {"unknown"})
         /\ cfg.namespaces \in Seq(Namespaces)
         /\ cfg.maxTargets \in Nat
         /\ cfg.permitted \subseteq Places
BY K8sAssumption DEF TypeOK, Config

LEMMA RecordTyped ==
  ASSUME TypeOK, NEW i \in DOMAIN scaledDownDeps
  PROVE  scaledDownDeps[i].dep \in Places /\ scaledDownDeps[i].orig \in 0 .. MaxReplicas
<1>1. scaledDownDeps[i] \in Record
  BY ElementOfSeq DEF TypeOK
<1> QED  BY <1>1 DEF Record

\* selectRandom selects among what it is given
LEMMA Selected ==
  ASSUME NEW items, NEW max, NEW t \in SelectRandom(items, max)
  PROVE  t \subseteq items
BY DEF SelectRandom

\* a record made does not hide the earlier ones
LEMMA RecordGrows ==
  ASSUME TypeOK, NEW r \in Record, scaledDownDeps' = Append(scaledDownDeps, r)
  PROVE  /\ scaledDownDeps' \in Seq(Record)
         /\ Recorded' = Recorded \cup {r.dep}
<1>1. /\ scaledDownDeps \in Seq(Record)
      /\ scaledDownDeps' \in Seq(Record)
      /\ Len(scaledDownDeps') = Len(scaledDownDeps) + 1
      /\ \A i \in 1 .. Len(scaledDownDeps) : scaledDownDeps'[i] = scaledDownDeps[i]
      /\ scaledDownDeps'[Len(scaledDownDeps) + 1] = r
  BY AppendProperties DEF TypeOK
<1>2. /\ DOMAIN scaledDownDeps = 1 .. Len(scaledDownDeps)
      /\ DOMAIN scaledDownDeps' = 1 .. Len(scaledDownDeps) + 1
      /\ Len(scaledDownDeps) \in Nat
  BY <1>1, LenProperties
<1> QED  BY <1>1, <1>2 DEF Recorded

-----------------------------------------------------------------------------
LEMMA InitIInv == Init => IInv
<1> SUFFICES ASSUME Init PROVE IInv
  OBVIOUS
<1>1. PICK c \in Clusters : exists = c.exists /\ replicas = c.replicas
  BY DEF Init
<1>2. c.exists \in [Actions -> SUBSET Places] /\ c.replicas \in [Places -> 0 .. MaxReplicas]
  BY K8sAssumption DEF Cluster
<1>3. <<>> \in Seq(Record)
  OBVIOUS
<1>4. TypeOK
  <2>1. cfg \in Configs /\ exists \in [Actions -> SUBSET Places]
    BY <1>1, <1>2 DEF Init
  <2>2. /\ replicas \in [Places -> 0 .. MaxReplicas]
        /\ origReplicas \in [Places -> 0 .. MaxReplicas]
        /\ original \in [Places -> 0 .. MaxReplicas]
    BY <1>1, <1>2 DEF Init
  <2>3. runs \in 0 .. MaxRuns /\ others \in 0 .. MaxOthers
    BY K8sAssumption DEF Init
  <2>4. /\ killedPods \subseteq Places /\ targets \subseteq Names /\ failed \subseteq Places
        /\ affected \subseteq (Actions \X Namespaces \X Names)
        /\ scaledDownDeps \in Seq(Record)
    BY <1>3 DEF Init
  <2>5. /\ pc = "idle" /\ act = 1 /\ ns = 1 /\ pos = 1
        /\ target = <<>> /\ fresh = FALSE
    BY DEF Init
  <2>6. writer \in [Places -> {"chaos", "others"}]
    BY DEF Init
  <2>7. act \in Nat \ {0} /\ ns \in Nat \ {0} /\ pos \in Nat \ {0}
    BY <2>5
  <2> QED  BY <2>1, <2>2, <2>3, <2>4, <2>5, <2>6, <2>7 DEF TypeOK
<1>5. AtTargets /\ AtUpdate /\ AtReupdate
  BY DEF Init, AtTargets, AtUpdate, AtReupdate
<1>6. ScaleDownsRecorded /\ ProtectedUntouched
  BY DEF Init, ScaleDownsRecorded, ProtectedUntouched
<1> QED  BY <1>4, <1>5, <1>6 DEF IInv

LEMMA NextTypeOK == TypeOK /\ AtReupdate /\ [Next]_vars => TypeOK'
<1> SUFFICES ASSUME TypeOK, AtReupdate, [Next]_vars PROVE TypeOK'
  OBVIOUS
<1> USE K8sAssumption
<1>1. CASE BeginRun
  BY <1>1 DEF TypeOK, BeginRun, cluster, record
<1>2. CASE NextAction
  BY <1>2 DEF TypeOK, NextAction, cluster, record, counts, history
<1>3. CASE List
  <2>1. targets' \subseteq Names
    BY <1>3, Selected DEF List, Eligible
  <2>2. origReplicas' \in [Places -> 0 .. MaxReplicas]
    BY <1>3 DEF List, TypeOK
  <2> QED  BY <1>3, <2>1, <2>2 DEF TypeOK, List, cluster, record, counts, history
<1>4. CASE ListFails
  BY <1>4 DEF TypeOK, ListFails, cluster, record, loop, counts, history
<1>5. CASE NextNamespace
  BY <1>5 DEF TypeOK, NextNamespace, cluster, record, counts, history
<1>6. CASE EndRun
  BY <1>6 DEF TypeOK, EndRun, cluster, record, loop, counts, history
<1>7. ASSUME NEW n \in Names, Denied(n) PROVE TypeOK'
  BY <1>7 DEF TypeOK, Denied, Take, cluster, record, counts
<1>8. ASSUME NEW n \in Names, GetScaleFails(n) PROVE TypeOK'
  BY <1>8 DEF TypeOK, GetScaleFails, Take, cluster, record, counts
<1>9. ASSUME NEW n \in Names, GetScale(n) PROVE TypeOK'
  <2> DEFINE d == <<Namespace, n>>
             r == [dep |-> d, orig |-> origReplicas[d]]
  <2>1. d \in Places
    BY <1>9 DEF GetScale, TypeOK, Actions
  <2>2. r \in Record
    BY <2>1 DEF TypeOK, Record
  <2>3. scaledDownDeps' \in Seq(Record)
    BY <1>9, <2>2, RecordGrows DEF GetScale
  <2> QED  BY <1>9, <2>1, <2>3 DEF TypeOK, GetScale, Take, cluster, counts
<1>10. ASSUME NEW n \in Names, NEW done \in BOOLEAN, NEW ok \in BOOLEAN, Delete(n, done, ok)
       PROVE TypeOK'
  <2>1. done => <<Namespace, n>> \in Places /\ Action \in Actions
    BY <1>10 DEF Delete, TypeOK, Actions
  <2>2. ok => done
    BY <1>10 DEF Delete
  <2>3. exists' \in [Actions -> SUBSET Places]
    BY <1>10 DEF Delete, TypeOK
  <2>4. killedPods' \subseteq Places
    BY <1>10, <2>1, <2>2 DEF Delete, TypeOK
  <2>5. affected' \subseteq (Actions \X Namespaces \X Names)
    BY <1>10, <2>1 DEF Delete, TypeOK, Places
  <2> QED  BY <1>10, <2>3, <2>4, <2>5 DEF TypeOK, Delete, Take, counts
<1>11. ASSUME NEW done \in BOOLEAN, NEW ok \in BOOLEAN, UpdateScale(done, ok)
       PROVE TypeOK'
  <2>1. done => target \in Places
    BY <1>11 DEF UpdateScale, WriteScale, TypeOK, Actions
  <2>2. affected' \subseteq (Actions \X Namespaces \X Names)
    BY <1>11, <2>1 DEF UpdateScale, TypeOK, Places, Actions
  <2>3. original' \in [Places -> 0 .. MaxReplicas]
    BY <1>11, <2>1 DEF UpdateScale, TypeOK
  <2>4. replicas' \in [Places -> 0 .. MaxReplicas] /\ writer' \in [Places -> {"chaos", "others"}]
    BY <1>11, <2>1 DEF UpdateScale, WriteScale, TypeOK
  <2> QED  BY <1>11, <2>2, <2>3, <2>4 DEF TypeOK, UpdateScale, WriteScale, record, loop, counts
<1>12. CASE BeginRollback
  BY <1>12 DEF TypeOK, BeginRollback, cluster, record, loop, counts, history
<1>13. CASE RestoreFails
  <2>1. scaledDownDeps[pos].dep \in Places
    BY <1>13, RecordTyped, LenProperties DEF RestoreFails, TypeOK
  <2> QED  BY <1>13, <2>1 DEF TypeOK, RestoreFails, cluster, record, loop, counts
<1>14. CASE RestoreGetScale
  <2>1. scaledDownDeps[pos].dep \in Places
    BY <1>14, RecordTyped, LenProperties DEF RestoreGetScale, TypeOK
  <2> QED  BY <1>14, <2>1 DEF TypeOK, RestoreGetScale, cluster, record, loop, counts, history
<1>15. ASSUME NEW done \in BOOLEAN, NEW ok \in BOOLEAN, RestoreUpdate(done, ok)
       PROVE TypeOK'
  <2>1. /\ target \in Places /\ scaledDownDeps[pos].orig \in 0 .. MaxReplicas
    BY <1>15, RecordTyped DEF RestoreUpdate, AtReupdate
  <2>2. replicas' \in [Places -> 0 .. MaxReplicas] /\ writer' \in [Places -> {"chaos", "others"}]
    BY <1>15, <2>1 DEF RestoreUpdate, WriteScale, TypeOK
  <2>3. failed' \subseteq Places
    BY <1>15, <2>1 DEF RestoreUpdate, TypeOK
  <2>4. pos' \in Nat \ {0} /\ pc' = "restore" /\ target' = <<>> /\ fresh' = FALSE
    BY <1>15 DEF RestoreUpdate, WriteScale, TypeOK
  <2> QED  BY <1>15, <2>2, <2>3, <2>4 DEF TypeOK, RestoreUpdate, record, loop, counts
<1>16. CASE EndRollback
  BY <1>16 DEF TypeOK, EndRollback, cluster, record, loop, counts, history
<1>17. ASSUME NEW d \in Places, NEW n \in 0 .. MaxReplicas, OthersScale(d, n) PROVE TypeOK'
  BY <1>17 DEF TypeOK, OthersScale, record, loop, history
<1>18. ASSUME NEW a \in Actions, NEW p \in Places, OthersRemove(a, p) PROVE TypeOK'
  BY <1>18 DEF TypeOK, OthersRemove, record, loop, history
<1>19. CASE UNCHANGED vars
  BY <1>19 DEF TypeOK, vars, cluster, record, loop, counts, history
<1> QED
  BY <1>1, <1>2, <1>3, <1>4, <1>5, <1>6, <1>7, <1>8, <1>9, <1>10, <1>11, <1>12, <1>13, <1>14,
     <1>15, <1>16, <1>17, <1>18, <1>19
  DEF Next, RunStep, RollbackStep, OthersStep, Finished

-----------------------------------------------------------------------------
(* The loops' invariants. *)

\* the loops' heads look at an action and a namespace that are configured
LEMMA AtPlaceInRange ==
  ASSUME TypeOK, AtPlace
  PROVE  act \in DOMAIN cfg.actions /\ ns \in DOMAIN cfg.namespaces
<1>1. /\ DOMAIN cfg.actions = 1 .. Len(cfg.actions) /\ Len(cfg.actions) \in Nat
      /\ DOMAIN cfg.namespaces = 1 .. Len(cfg.namespaces) /\ Len(cfg.namespaces) \in Nat
  BY CfgTyped, LenProperties
<1>2. act \in Nat \ {0} /\ ns \in Nat \ {0} /\ act <= Len(cfg.actions) /\ ns <= Len(cfg.namespaces)
  BY DEF TypeOK, AtPlace
<1> QED  BY <1>1, <1>2

LEMMA NextAtTargets == TypeOK /\ AtTargets /\ [Next]_vars => AtTargets'
<1> SUFFICES ASSUME TypeOK, AtTargets, [Next]_vars PROVE AtTargets'
  OBVIOUS
<1>1. CASE BeginRun
  BY <1>1 DEF AtTargets, BeginRun
<1>2. CASE NextAction
  BY <1>2 DEF AtTargets, NextAction
<1>3. CASE List
  <2>1. act \in DOMAIN cfg.actions /\ ns \in DOMAIN cfg.namespaces
    BY <1>3, AtPlaceInRange DEF List
  <2>2. \A n \in targets' : ~Protected(Action, n)
    BY <1>3, Selected DEF List, Eligible
  <2> QED  BY <1>3, <2>1, <2>2 DEF AtTargets, List, AtPlace, Action, Protected
<1>4. CASE ListFails \/ NextNamespace \/ EndRun
  BY <1>4 DEF AtTargets, ListFails, NextNamespace, EndRun
<1>5. ASSUME NEW n \in Names,
             \/ Denied(n) \/ GetScaleFails(n) \/ GetScale(n)
             \/ \E done, ok \in BOOLEAN : Delete(n, done, ok)
      PROVE AtTargets'
  <2>1. Take(n) /\ pc = "targets"
    BY <1>5 DEF Denied, GetScaleFails, GetScale, Delete, Take
  <2> QED  BY <2>1 DEF AtTargets, Take, Action, Protected
<1>6. ASSUME NEW done \in BOOLEAN, NEW ok \in BOOLEAN, UpdateScale(done, ok)
      PROVE AtTargets'
  BY <1>6 DEF AtTargets, UpdateScale, loop, Action, Protected
<1>7. CASE BeginRollback \/ RollbackStep
  BY <1>7 DEF AtTargets, BeginRollback, RollbackStep, RestoreFails, RestoreGetScale,
              RestoreUpdate, EndRollback
<1>8. CASE OthersStep \/ UNCHANGED vars
  BY <1>8 DEF AtTargets, OthersStep, OthersScale, OthersRemove, vars, loop, Action, Protected
<1> QED
  BY <1>1, <1>2, <1>3, <1>4, <1>5, <1>6, <1>7, <1>8 DEF Next, RunStep, Finished

LEMMA NextAtUpdate == TypeOK /\ AtTargets /\ AtUpdate /\ [Next]_vars => AtUpdate'
<1> SUFFICES ASSUME TypeOK, AtTargets, AtUpdate, [Next]_vars PROVE AtUpdate'
  OBVIOUS
<1>1. ASSUME NEW n \in Names, GetScale(n) PROVE AtUpdate'
  <2> DEFINE d == <<Namespace, n>>
             r == [dep |-> d, orig |-> origReplicas[d]]
  <2>1. d \in Places
    BY <1>1 DEF GetScale, TypeOK, Actions
  <2>2. r \in Record
    BY <2>1 DEF TypeOK, Record
  <2>3. d \in Recorded'
    BY <1>1, <2>2, RecordGrows DEF GetScale
  <2>4. d \in cfg.permitted /\ n \notin cfg.excluded /\ target' = d
    BY <1>1 DEF GetScale, Permitted, AtTargets, Protected, Take
  <2> QED  BY <1>1, <2>3, <2>4 DEF AtUpdate, GetScale, Take, Action
<1>2. CASE OthersStep \/ UNCHANGED vars
  BY <1>2 DEF AtUpdate, OthersStep, OthersScale, OthersRemove, vars, loop, record, Action,
              Recorded
<1>3. CASE BeginRun \/ NextAction \/ List \/ ListFails \/ NextNamespace \/ EndRun
  BY <1>3 DEF AtUpdate, BeginRun, NextAction, List, AtPlace, ListFails, NextNamespace, EndRun
<1>4. ASSUME NEW n \in Names, \/ Denied(n) \/ GetScaleFails(n)
                              \/ \E done, ok \in BOOLEAN : Delete(n, done, ok)
      PROVE AtUpdate'
  BY <1>4 DEF AtUpdate, Denied, GetScaleFails, Delete, Take
<1>5. CASE (\E done, ok \in BOOLEAN : UpdateScale(done, ok)) \/ BeginRollback \/ RollbackStep
  BY <1>5 DEF AtUpdate, UpdateScale, BeginRollback, RollbackStep, RestoreFails,
              RestoreGetScale, RestoreUpdate, EndRollback
<1> QED
  BY <1>1, <1>2, <1>3, <1>4, <1>5 DEF Next, RunStep, Finished

LEMMA NextAtReupdate == TypeOK /\ AtReupdate /\ [Next]_vars => AtReupdate'
<1> SUFFICES ASSUME TypeOK, AtReupdate, [Next]_vars PROVE AtReupdate'
  OBVIOUS
<1>1. CASE RestoreGetScale
  BY <1>1, LenProperties DEF AtReupdate, RestoreGetScale, record, TypeOK
<1>2. CASE OthersStep \/ UNCHANGED vars
  BY <1>2 DEF AtReupdate, OthersStep, OthersScale, OthersRemove, vars, record
<1>3. CASE BeginRun \/ RunStep \/ BeginRollback \/ RestoreFails \/ EndRollback
           \/ \E done, ok \in BOOLEAN : RestoreUpdate(done, ok)
  BY <1>3 DEF AtReupdate, BeginRun, RunStep, NextAction, List, AtPlace, ListFails,
              NextNamespace, EndRun, Denied, GetScaleFails, GetScale, Delete, Take, UpdateScale,
              BeginRollback, RestoreFails, EndRollback, RestoreUpdate
<1> QED
  BY <1>1, <1>2, <1>3 DEF Next, RollbackStep, Finished

-----------------------------------------------------------------------------
(* What the record covers and what is left alone. *)

LEMMA NextRecorded ==
  TypeOK /\ AtUpdate /\ AtReupdate /\ ScaleDownsRecorded /\ [Next]_vars => ScaleDownsRecorded'
<1> SUFFICES ASSUME TypeOK, AtUpdate, AtReupdate, ScaleDownsRecorded, [Next]_vars
             PROVE  ScaleDownsRecorded'
  OBVIOUS
<1>1. ASSUME NEW n \in Names, GetScale(n) PROVE ScaleDownsRecorded'
  <2> DEFINE d == <<Namespace, n>>
             r == [dep |-> d, orig |-> origReplicas[d]]
  <2>1. d \in Places
    BY <1>1 DEF GetScale, TypeOK, Actions
  <2>2. r \in Record
    BY <2>1 DEF TypeOK, Record
  <2>3. Recorded \subseteq Recorded'
    BY <1>1, <2>2, RecordGrows DEF GetScale
  <2> QED  BY <1>1, <2>3 DEF ScaleDownsRecorded, GetScale, cluster
<1>2. ASSUME NEW done \in BOOLEAN, NEW ok \in BOOLEAN, UpdateScale(done, ok)
      PROVE ScaleDownsRecorded'
  <2>1. Recorded' = Recorded
    BY <1>2 DEF UpdateScale, record, Recorded
  <2>2. \A d \in Places : writer'[d] = "chaos" => writer[d] = "chaos" \/ d = target
    BY <1>2 DEF UpdateScale, WriteScale, TypeOK
  <2> QED  BY <1>2, <2>1, <2>2 DEF ScaleDownsRecorded, UpdateScale, AtUpdate
<1>3. ASSUME NEW done \in BOOLEAN, NEW ok \in BOOLEAN, RestoreUpdate(done, ok)
      PROVE ScaleDownsRecorded'
  <2>1. Recorded' = Recorded
    BY <1>3 DEF RestoreUpdate, record, Recorded
  <2>2. \A d \in Places : writer'[d] = "chaos" => writer[d] = "chaos" \/ d = target
    BY <1>3 DEF RestoreUpdate, WriteScale, TypeOK
  <2>3. target \in Recorded
    BY <1>3 DEF RestoreUpdate, AtReupdate, Recorded
  <2> QED  BY <2>1, <2>2, <2>3 DEF ScaleDownsRecorded
<1>4. ASSUME NEW d \in Places, NEW n \in 0 .. MaxReplicas, OthersScale(d, n)
      PROVE ScaleDownsRecorded'
  <2>1. Recorded' = Recorded
    BY <1>4 DEF OthersScale, record, Recorded
  <2>2. \A e \in Places : writer'[e] = "chaos" => writer[e] = "chaos"
    BY <1>4 DEF OthersScale, TypeOK
  <2> QED  BY <2>1, <2>2 DEF ScaleDownsRecorded
<1>5. ASSUME UNCHANGED <<writer, scaledDownDeps>> PROVE ScaleDownsRecorded'
  BY <1>5 DEF ScaleDownsRecorded, Recorded
<1>6. CASE BeginRun \/ BeginRollback \/ NextAction \/ List \/ ListFails \/ NextNamespace \/ EndRun
           \/ RestoreFails \/ RestoreGetScale \/ EndRollback \/ UNCHANGED vars
           \/ \E a \in Actions, p \in Places : OthersRemove(a, p)
  <2>1. UNCHANGED <<writer, scaledDownDeps>>
    BY <1>6 DEF BeginRun, BeginRollback, NextAction, List, ListFails, NextNamespace, EndRun,
                RestoreFails, RestoreGetScale, EndRollback, vars, OthersRemove, cluster, record
  <2> QED  BY <1>5, <2>1
<1>7. ASSUME NEW n \in Names, \/ Denied(n) \/ GetScaleFails(n)
                              \/ \E done, ok \in BOOLEAN : Delete(n, done, ok)
      PROVE ScaleDownsRecorded'
  <2>1. UNCHANGED <<writer, scaledDownDeps>>
    BY <1>7 DEF Denied, GetScaleFails, Delete, cluster, record
  <2> QED  BY <1>5, <2>1
<1> QED
  BY <1>1, <1>2, <1>3, <1>4, <1>6, <1>7 DEF Next, RunStep, RollbackStep, OthersStep, Finished

LEMMA NextProtected ==
  TypeOK /\ AtTargets /\ AtUpdate /\ ProtectedUntouched /\ [Next]_vars => ProtectedUntouched'
<1> SUFFICES ASSUME TypeOK, AtTargets, AtUpdate, ProtectedUntouched, [Next]_vars
             PROVE  ProtectedUntouched'
  OBVIOUS
<1>1. ASSUME NEW n \in Names, NEW done \in BOOLEAN, NEW ok \in BOOLEAN, Delete(n, done, ok)
      PROVE ProtectedUntouched'
  <2>1. ~Protected(Action, n) /\ <<Namespace, n>> \in cfg.permitted
    BY <1>1 DEF Delete, Take, AtTargets, Permitted
  <2>2. affected' \subseteq affected \cup {<<Action, Namespace, n>>}
    BY <1>1 DEF Delete
  <2>3. cfg' = cfg
    BY <1>1 DEF Delete, Take
  <2>4. ASSUME NEW t \in affected'
        PROVE  /\ t[3] \notin cfg.excluded
               /\ t[1] = "delete_service" => t[3] # Kubernetes
               /\ <<t[2], t[3]>> \in cfg.permitted
    <3>1. CASE t \in affected
      BY <3>1 DEF ProtectedUntouched
    <3>2. CASE t = <<Action, Namespace, n>>
      <4>1. t[1] = Action /\ t[2] = Namespace /\ t[3] = n
        BY <3>2
      <4> QED  BY <4>1, <2>1 DEF Protected
    <3> QED  BY <2>2, <3>1, <3>2
  <2> QED  BY <2>3, <2>4 DEF ProtectedUntouched
<1>2. ASSUME NEW done \in BOOLEAN, NEW ok \in BOOLEAN, UpdateScale(done, ok)
      PROVE ProtectedUntouched'
  <2>1. done => target \in Places
    BY <1>2 DEF UpdateScale, WriteScale, TypeOK, Actions
  <2>2. affected' \subseteq affected \cup {<<"scale_down", target[1], target[2]>>}
    BY <1>2 DEF UpdateScale
  <2>3. target[2] \notin cfg.excluded /\ target \in cfg.permitted
    BY <1>2 DEF UpdateScale, AtUpdate
  <2>4. done => <<target[1], target[2]>> = target
    BY <2>1 DEF Places
  <2>5. ~done => affected' = affected
    BY <1>2 DEF UpdateScale
  <2>6. cfg' = cfg
    BY <1>2 DEF UpdateScale
  <2>7. ASSUME NEW t \in affected'
        PROVE  /\ t[3] \notin cfg.excluded
               /\ t[1] = "delete_service" => t[3] # Kubernetes
               /\ <<t[2], t[3]>> \in cfg.permitted
    <3>1. CASE t \in affected
      BY <3>1 DEF ProtectedUntouched
    <3>2. CASE t \notin affected
      <4>1. t = <<"scale_down", target[1], target[2]>> /\ done
        BY <2>2, <2>5, <3>2
      <4>2. t[1] = "scale_down" /\ t[2] = target[1] /\ t[3] = target[2]
        BY <4>1
      <4> QED  BY <4>1, <4>2, <2>3, <2>4
    <3> QED  BY <3>1, <3>2
  <2> QED  BY <2>6, <2>7 DEF ProtectedUntouched
<1>3. CASE BeginRun
  BY <1>3 DEF ProtectedUntouched, BeginRun
<1>4. ASSUME UNCHANGED <<cfg, affected>> PROVE ProtectedUntouched'
  BY <1>4 DEF ProtectedUntouched
<1>5. CASE BeginRollback \/ NextAction \/ List \/ ListFails \/ NextNamespace \/ EndRun
           \/ RollbackStep \/ OthersStep \/ UNCHANGED vars
           \/ \E n \in Names : Denied(n) \/ GetScaleFails(n) \/ GetScale(n)
  <2>1. UNCHANGED <<cfg, affected>>
    BY <1>5 DEF BeginRollback, NextAction, List, ListFails, NextNamespace, EndRun, RollbackStep,
                RestoreFails, RestoreGetScale, RestoreUpdate, EndRollback, OthersStep, OthersScale,
                OthersRemove, vars, history, Denied, GetScaleFails, GetScale, Take
  <2> QED  BY <1>4, <2>1
<1> QED
  BY <1>1, <1>2, <1>3, <1>5 DEF Next, RunStep, Finished

-----------------------------------------------------------------------------
(* What comes of the records: the last of a deployment counts.             *)

\* A deployment on record has a last record.
LastOnRecord ==
  \A d \in Recorded : \E i \in DOMAIN scaledDownDeps :
    /\ scaledDownDeps[i].dep = d
    /\ \A j \in DOMAIN scaledDownDeps : scaledDownDeps[j].dep = d => j <= i

\* Rollback has carried out record i, if it is the last it came to of its deployment.
CarriedOut(i) ==
  LET d == scaledDownDeps[i].dep IN
    /\ i < pos /\ writer[d] = "chaos" /\ d \notin failed
    /\ \A j \in DOMAIN scaledDownDeps : j < pos /\ scaledDownDeps[j].dep = d => j <= i
    => replicas[d] = scaledDownDeps[i].orig

BestInv ==
  /\ LastOnRecord
  /\ pc = "done" => pos > Len(scaledDownDeps)
  /\ pc \in {"restore", "reupdate", "done"} => \A i \in DOMAIN scaledDownDeps : CarriedOut(i)

LEMMA LastAppended ==
  ASSUME TypeOK, LastOnRecord, NEW r \in Record, scaledDownDeps' = Append(scaledDownDeps, r)
  PROVE  LastOnRecord'
<1> DEFINE n == Len(scaledDownDeps)
<1>1. /\ scaledDownDeps \in Seq(Record) /\ n \in Nat
      /\ DOMAIN scaledDownDeps = 1 .. n /\ DOMAIN scaledDownDeps' = 1 .. n + 1
      /\ \A i \in 1 .. n : scaledDownDeps'[i] = scaledDownDeps[i]
      /\ scaledDownDeps'[n + 1] = r
  BY AppendProperties, LenProperties DEF TypeOK
<1>2. Recorded' = Recorded \cup {r.dep}
  BY RecordGrows
<1> SUFFICES ASSUME NEW d \in Recorded'
             PROVE  \E i \in 1 .. n + 1 : /\ scaledDownDeps'[i].dep = d
                                          /\ \A j \in 1 .. n + 1 : scaledDownDeps'[j].dep = d => j <= i
  BY <1>1 DEF LastOnRecord
<1>3. CASE d = r.dep
  <2>1. n + 1 \in 1 .. n + 1 /\ \A j \in 1 .. n + 1 : j <= n + 1
    BY <1>1
  <2> QED
    BY <1>1, <1>3, <2>1
<1>4. CASE d # r.dep
  <2>1. PICK i \in 1 .. n : /\ scaledDownDeps[i].dep = d
                            /\ \A j \in 1 .. n : scaledDownDeps[j].dep = d => j <= i
    BY <1>1, <1>2, <1>4 DEF LastOnRecord
  <2>2. ASSUME NEW j \in 1 .. n + 1, scaledDownDeps'[j].dep = d
        PROVE  j <= i
    <3>1. j # n + 1
      BY <1>1, <1>4, <2>2
    <3>2. j \in 1 .. n
      BY <1>1, <3>1
    <3> QED
      BY <1>1, <2>1, <2>2, <3>2
  <2>3. i \in 1 .. n + 1 /\ scaledDownDeps'[i].dep = d
    BY <1>1, <2>1
  <2> QED
    BY <2>2, <2>3
<1> QED
  BY <1>3, <1>4

\* Rollback goes on to the next record; what it did to this one's deployment
\* is right, or it failed.
LEMMA RestoreGoesOn ==
  ASSUME TypeOK, BestInv, pc \in {"restore", "reupdate"}, pos \in DOMAIN scaledDownDeps,
         pos' = pos + 1, UNCHANGED scaledDownDeps, failed \subseteq failed',
         NEW e, e = scaledDownDeps[pos].dep,
         \A d \in Places : d # e => replicas'[d] = replicas[d] /\ writer'[d] = writer[d],
         e \in failed' \/ replicas'[e] = scaledDownDeps[pos].orig
  PROVE  \A i \in DOMAIN scaledDownDeps : CarriedOut(i)'
<1> TAKE i \in DOMAIN scaledDownDeps
<1>1. i \in Nat /\ pos \in Nat /\ scaledDownDeps[i].dep \in Places
  <2>1. scaledDownDeps[i].dep \in Places
    BY RecordTyped
  <2>2. i \in Nat /\ pos \in Nat
    BY LenProperties DEF TypeOK
  <2> QED
    BY <2>1, <2>2
<1>2. CarriedOut(i)
  BY DEF BestInv
<1>3. CASE i = pos
  BY <1>3 DEF CarriedOut
<1>4. CASE i < pos /\ scaledDownDeps[i].dep = e
  <2>1. pos < pos' /\ ~(pos <= i)
    BY <1>1, <1>4
  <2> QED
    BY <1>4, <2>1 DEF CarriedOut
<1>5. CASE i < pos /\ scaledDownDeps[i].dep # e
  <2>1. \A j \in DOMAIN scaledDownDeps : j < pos => j < pos'
    BY <1>1, LenProperties DEF TypeOK
  <2> QED
    BY <1>1, <1>2, <1>5, <2>1 DEF CarriedOut
<1>6. CASE i > pos
  <2>1. ~(i < pos')
    BY <1>1, <1>6
  <2> QED
    BY <2>1 DEF CarriedOut
<1> QED
  BY <1>1, <1>3, <1>4, <1>5, <1>6

LEMMA NextBest == TypeOK /\ AtReupdate /\ BestInv /\ [Next]_vars => BestInv'
<1> SUFFICES ASSUME TypeOK, AtReupdate, BestInv, [Next]_vars PROVE BestInv'
  OBVIOUS
<1>0. ASSUME UNCHANGED scaledDownDeps PROVE LastOnRecord'
  <2>1. Recorded' = Recorded
    BY <1>0 DEF Recorded
  <2>2. LastOnRecord
    BY DEF BestInv
  <2> QED
    BY <1>0, <2>1, <2>2 DEF LastOnRecord
<1>1. ASSUME NEW n \in Names, GetScale(n) PROVE BestInv'
  <2> DEFINE r == [dep |-> <<Namespace, n>>, orig |-> origReplicas[<<Namespace, n>>]]
  <2>1. <<Namespace, n>> \in Places
    BY <1>1 DEF GetScale, TypeOK, Actions
  <2>2. r \in Record
    BY <2>1 DEF TypeOK, Record
  <2>3. LastOnRecord'
    BY <1>1, <2>2, LastAppended DEF GetScale, BestInv
  <2> QED
    BY <1>1, <2>3 DEF BestInv, GetScale
<1>2. CASE \/ BeginRun \/ NextAction \/ List \/ ListFails \/ NextNamespace \/ EndRun
           \/ (\E n \in Names : \/ Denied(n) \/ GetScaleFails(n)
                                \/ \E done, ok \in BOOLEAN : Delete(n, done, ok))
           \/ (\E done, ok \in BOOLEAN : UpdateScale(done, ok))
  <2>1. UNCHANGED scaledDownDeps
    BY <1>2 DEF BeginRun, NextAction, List, ListFails, NextNamespace, EndRun, Denied,
                GetScaleFails, Delete, UpdateScale, record
  <2>2. pc' \notin {"restore", "reupdate", "done"}
    BY <1>2 DEF BeginRun, NextAction, List, AtPlace, ListFails, NextNamespace, EndRun, Denied,
                GetScaleFails, Delete, UpdateScale, Take
  <2> QED
    BY <1>0, <2>1, <2>2 DEF BestInv
<1>3. CASE BeginRollback
  <2>1. UNCHANGED scaledDownDeps /\ pc' = "restore" /\ pos' = 1
    BY <1>3 DEF BeginRollback, record
  <2>2. \A i \in DOMAIN scaledDownDeps : ~(i < 1)
    BY LenProperties DEF TypeOK
  <2> QED
    BY <1>0, <2>1, <2>2 DEF BestInv, CarriedOut
<1>4. CASE RestoreFails
  <2>1. /\ pos \in DOMAIN scaledDownDeps /\ pc = "restore" /\ pos' = pos + 1 /\ pc' = "restore"
        /\ UNCHANGED <<scaledDownDeps, replicas, writer>>
        /\ failed' = failed \cup {scaledDownDeps[pos].dep}
    BY <1>4, LenProperties DEF RestoreFails, record, cluster, TypeOK
  <2>2. \A i \in DOMAIN scaledDownDeps : CarriedOut(i)'
    BY <2>1, RestoreGoesOn
  <2> QED
    BY <1>0, <2>1, <2>2 DEF BestInv
<1>5. ASSUME NEW done \in BOOLEAN, NEW ok \in BOOLEAN, RestoreUpdate(done, ok)
      PROVE BestInv'
  <2>1. /\ pos \in DOMAIN scaledDownDeps /\ pc = "reupdate" /\ pos' = pos + 1 /\ pc' = "restore"
        /\ UNCHANGED scaledDownDeps /\ target = scaledDownDeps[pos].dep /\ target \in Places
    BY <1>5, RecordTyped DEF RestoreUpdate, record, AtReupdate
  <2>2. \A d \in Places : d # target => replicas'[d] = replicas[d] /\ writer'[d] = writer[d]
    BY <1>5 DEF RestoreUpdate, WriteScale, TypeOK
  <2>3. failed \subseteq failed' /\ (target \in failed' \/ replicas'[target] = scaledDownDeps[pos].orig)
    <3>1. CASE ok
      <4>1. replicas' = [replicas EXCEPT ![target] = scaledDownDeps[pos].orig] /\ failed' = failed
        BY <1>5, <3>1 DEF RestoreUpdate, WriteScale
      <4> QED
        BY <2>1, <4>1 DEF TypeOK
    <3>2. CASE ~ok
      BY <1>5, <3>2 DEF RestoreUpdate
    <3> QED
      BY <3>1, <3>2
  <2>4. \A i \in DOMAIN scaledDownDeps : CarriedOut(i)'
    BY <2>1, <2>2, <2>3, RestoreGoesOn
  <2> QED
    BY <1>0, <2>1, <2>4 DEF BestInv
<1>6. CASE RestoreGetScale \/ EndRollback \/ UNCHANGED vars
           \/ \E a \in Actions, p \in Places : OthersRemove(a, p)
  <2>1. UNCHANGED <<scaledDownDeps, replicas, writer, pos, failed>>
    BY <1>6 DEF RestoreGetScale, EndRollback, OthersRemove, vars, record, cluster, history
  <2>2. /\ pc' = "done" => pos > Len(scaledDownDeps)
        /\ pc' \in {"restore", "reupdate", "done"} => pc \in {"restore", "reupdate", "done"}
    BY <1>6 DEF RestoreGetScale, EndRollback, OthersRemove, vars, BestInv
  <2>3. ASSUME NEW i \in DOMAIN scaledDownDeps, CarriedOut(i) PROVE CarriedOut(i)'
    BY <2>1, <2>3 DEF CarriedOut
  <2> QED
    BY <1>0, <2>1, <2>2, <2>3 DEF BestInv
<1>7. ASSUME NEW e \in Places, NEW n \in 0 .. MaxReplicas, OthersScale(e, n)
      PROVE BestInv'
  <2>1. UNCHANGED <<scaledDownDeps, pc, pos, failed>>
    BY <1>7 DEF OthersScale, record, history
  <2>2. \A d \in Places : writer'[d] = "chaos" => writer[d] = "chaos" /\ replicas'[d] = replicas[d]
    BY <1>7 DEF OthersScale, TypeOK
  <2>3. ASSUME NEW i \in DOMAIN scaledDownDeps, CarriedOut(i) PROVE CarriedOut(i)'
    <3>1. scaledDownDeps[i].dep \in Places
      BY RecordTyped
    <3> QED
      BY <2>1, <2>2, <2>3, <3>1 DEF CarriedOut
  <2> QED
    BY <1>0, <2>1, <2>3 DEF BestInv
<1> QED
  BY <1>1, <1>2, <1>3, <1>4, <1>5, <1>6, <1>7 DEF Next, RunStep, RollbackStep, OthersStep, Finished

\* A deployment that was scaled down and not failed for has its last record's count.
LEMMA BestGives ==
  ASSUME TypeOK, ScaleDownsRecorded, BestInv, pc = "done",
         NEW d \in Places, writer[d] = "chaos", d \notin failed
  PROVE  \E i \in DOMAIN scaledDownDeps :
           /\ scaledDownDeps[i].dep = d
           /\ replicas[d] = scaledDownDeps[i].orig
           /\ LastRecorded(d) = scaledDownDeps[i].orig
<1> DEFINE of == {i \in DOMAIN scaledDownDeps : scaledDownDeps[i].dep = d}
           Last(i) == \A j \in of : j <= i
<1>1. \E i \in of : Last(i)
  BY DEF ScaleDownsRecorded, BestInv, LastOnRecord
<1>2. PICK l : l = CHOOSE i \in of : Last(i)
  OBVIOUS
<1>3. l \in of /\ Last(l)
  <2> HIDE DEF of, Last
  <2> QED
    BY <1>1, <1>2
<1>4. LastRecorded(d) = scaledDownDeps[l].orig
  BY <1>2 DEF LastRecorded
<1>5. l < pos
  BY <1>3, LenProperties DEF BestInv, TypeOK
<1>6. CarriedOut(l)
  BY <1>3 DEF BestInv
<1>7. replicas[d] = scaledDownDeps[l].orig
  BY <1>3, <1>5, <1>6 DEF CarriedOut
<1> QED
  BY <1>3, <1>4, <1>7

-----------------------------------------------------------------------------
(* The cap: what is affected is counted against the visits that were made. *)

\* The visits of namespace s for action a that Run has begun.
Visits(a, s) ==
  {v \in (DOMAIN cfg.actions) \X (DOMAIN cfg.namespaces) :
     /\ cfg.actions[v[1]] = a /\ cfg.namespaces[v[2]] = s
     /\ \/ v[1] < act
        \/ v[1] = act /\ v[2] < ns
        \/ v[1] = act /\ v[2] = ns /\ pc \in {"targets", "update"}}

Hit(a, s) == {n \in Names : <<a, s, n>> \in affected}

\* what may yet be affected by the visit that is going on
Pending(a, s) ==
  IF pc \in {"targets", "update"} /\ a = Action /\ s = Namespace
  THEN Cardinality(targets) + (IF pc = "update" THEN 1 ELSE 0) ELSE 0

Capped(a, s) ==
  Cardinality(Hit(a, s)) + Pending(a, s) <= cfg.maxTargets * Cardinality(Visits(a, s))

CapInv ==
  /\ pc = "update" => target[1] = Namespace
  /\ cfg.maxTargets > 0 => \A a \in Actions, s \in Namespaces : Capped(a, s)

LEMMA CapTimes ==
  ASSUME NEW m \in Nat, NEW c \in Nat, NEW d \in Nat, c <= d
  PROVE  m * c <= m * d /\ m * c \in Nat /\ m * d \in Nat /\ m * (c + 1) = m * c + m
<1>1. PICK e \in Nat : d = c + e
  <2>1. d - c \in Nat /\ d = c + (d - c)
    OBVIOUS
  <2> QED
    BY <2>1
<1>2. m * e \in Nat /\ m * c \in Nat /\ m * d \in Nat
  OBVIOUS
<1>3. m * d = m * c + m * e
  BY <1>1
<1> QED
  BY <1>2, <1>3

LEMMA NamesFinite ==
  ASSUME NEW H, H \subseteq Names
  PROVE  IsFiniteSet(H) /\ Cardinality(H) \in Nat
BY K8sAssumption, FS_Subset, FS_CardinalityType

LEMMA DomainsFinite ==
  ASSUME TypeOK
  PROVE  IsFiniteSet(DOMAIN cfg.actions) /\ IsFiniteSet(DOMAIN cfg.namespaces)
<1>1. /\ DOMAIN cfg.actions = 1 .. Len(cfg.actions) /\ Len(cfg.actions) \in Int
      /\ DOMAIN cfg.namespaces = 1 .. Len(cfg.namespaces) /\ Len(cfg.namespaces) \in Int
  BY CfgTyped, LenProperties
<1>2. 1 \in Int
  OBVIOUS
<1>3. IsFiniteSet(1 .. Len(cfg.actions)) /\ IsFiniteSet(1 .. Len(cfg.namespaces))
  BY <1>1, <1>2, FS_Interval
<1> QED
  BY <1>1, <1>3

LEMMA VisitsFinite ==
  ASSUME TypeOK, NEW V, V \subseteq (DOMAIN cfg.actions) \X (DOMAIN cfg.namespaces)
  PROVE  IsFiniteSet(V) /\ Cardinality(V) \in Nat
<1>1. IsFiniteSet(DOMAIN cfg.actions) /\ IsFiniteSet(DOMAIN cfg.namespaces)
  BY DomainsFinite
<1>2. IsFiniteSet((DOMAIN cfg.actions) \X (DOMAIN cfg.namespaces))
  BY <1>1, FS_Product
<1> QED
  BY <1>2, FS_Subset, FS_CardinalityType

\* Nothing more is affected or pending, and no visit is forgotten.
LEMMA CapKept ==
  ASSUME TypeOK, cfg' = cfg, NEW a, NEW s, Capped(a, s),
         Cardinality(Hit(a, s))' + Pending(a, s)' <= Cardinality(Hit(a, s)) + Pending(a, s),
         Pending(a, s) \in Nat, Pending(a, s)' \in Nat,
         Visits(a, s) \subseteq Visits(a, s)'
  PROVE  Capped(a, s)'
<1> DEFINE V == Visits(a, s)
           W == Visits(a, s)'
           D == (DOMAIN cfg.actions) \X (DOMAIN cfg.namespaces)
<1>1. V \subseteq D /\ W \subseteq D
  BY DEF Visits
<1>2. /\ IsFiniteSet(W) /\ Cardinality(W) \in Nat
      /\ Cardinality(V) \in Nat /\ Cardinality(V) <= Cardinality(W)
  <2> HIDE DEF V, W
  <2>1. V \subseteq W
    BY DEF V, W
  <2> QED
    BY <1>1, <2>1, VisitsFinite, FS_Subset
<1>3. cfg.maxTargets \in Nat
  BY CfgTyped
<1>4. cfg.maxTargets * Cardinality(V) <= cfg.maxTargets * Cardinality(W)
      /\ cfg.maxTargets * Cardinality(V) \in Nat /\ cfg.maxTargets * Cardinality(W) \in Nat
  <2> HIDE DEF V, W
  <2> QED
    BY <1>2, <1>3, CapTimes
<1>5. Cardinality(Hit(a, s)) \in Nat /\ Cardinality(Hit(a, s)') \in Nat
  <2>1. Hit(a, s) \subseteq Names /\ Hit(a, s)' \subseteq Names
    BY DEF Hit
  <2> QED
    BY <2>1, NamesFinite
<1>6. Cardinality(Hit(a, s)') + Pending(a, s)' <= cfg.maxTargets * Cardinality(W)
  <2> HIDE DEF V, W
  <2>1. Cardinality(Hit(a, s)) + Pending(a, s) <= cfg.maxTargets * Cardinality(V)
    BY DEF Capped, V
  <2> QED
    BY <1>4, <1>5, <2>1
<1> QED
  BY <1>6 DEF Capped

\* The targets are counted.
LEMMA PendingTyped ==
  ASSUME TypeOK, NEW a, NEW s
  PROVE  Pending(a, s) \in Nat /\ IsFiniteSet(targets) /\ Cardinality(targets) \in Nat
<1>1. IsFiniteSet(targets) /\ Cardinality(targets) \in Nat
  BY NamesFinite DEF TypeOK
<1> QED
  BY <1>1 DEF Pending

\* One name more at most is affected.
LEMMA HitOne ==
  ASSUME NEW a, NEW s, NEW b, NEW r, NEW n, affected' \subseteq affected \cup {<<b, r, n>>}
  PROVE  /\ Cardinality(Hit(a, s)') <= Cardinality(Hit(a, s)) + 1
         /\ (a # b \/ s # r) => Cardinality(Hit(a, s)') <= Cardinality(Hit(a, s))
         /\ Cardinality(Hit(a, s)) \in Nat /\ Cardinality(Hit(a, s)') \in Nat
<1> DEFINE H == Hit(a, s)
           K == Hit(a, s)'
<1>1. H \subseteq Names /\ K \subseteq Names
  BY DEF Hit
<1>2. K \subseteq H \cup {n} /\ ((a # b \/ s # r) => K \subseteq H)
  BY DEF Hit
<1> HIDE DEF H, K
<1>3. IsFiniteSet(H) /\ Cardinality(H) \in Nat /\ IsFiniteSet(K) /\ Cardinality(K) \in Nat
  BY <1>1, NamesFinite
<1>4. IsFiniteSet(H \cup {n}) /\ Cardinality(H \cup {n}) <= Cardinality(H) + 1
      /\ Cardinality(H \cup {n}) \in Nat
  <2>1. /\ IsFiniteSet(H \cup {n})
        /\ Cardinality(H \cup {n}) = IF n \in H THEN Cardinality(H) ELSE Cardinality(H) + 1
    BY <1>3, FS_AddElement
  <2> QED
    BY <1>3, <2>1
<1>5. Cardinality(K) <= Cardinality(H \cup {n})
  BY <1>2, <1>4, FS_Subset
<1>6. (a # b \/ s # r) => Cardinality(K) <= Cardinality(H)
  BY <1>2, <1>3, FS_Subset
<1>7. Cardinality(K) <= Cardinality(H) + 1
  BY <1>3, <1>4, <1>5
<1> QED
  BY <1>3, <1>6, <1>7 DEF H, K

\* A step that affects nothing and stays in the visit, or out of any.
LEMMA CapFrame ==
  ASSUME TypeOK, CapInv, UNCHANGED <<cfg, affected, act, ns>>,
         \/ UNCHANGED <<pc, target, targets>>
         \/ pc \notin {"targets", "update"} /\ pc' \notin {"targets", "update"}
  PROVE  CapInv'
<1>1. pc' = "update" => target'[1] = Namespace'
  BY DEF CapInv, Namespace
<1>2. ASSUME cfg.maxTargets > 0, NEW a \in Actions, NEW s \in Namespaces
      PROVE  Capped(a, s)'
  <2>1. Capped(a, s) /\ Pending(a, s) \in Nat
    BY <1>2, PendingTyped DEF CapInv
  <2>2. Hit(a, s)' = Hit(a, s)
    BY DEF Hit
  <2>3. Visits(a, s)' = Visits(a, s)
    BY DEF Visits
  <2>4. Pending(a, s)' = Pending(a, s)
    BY DEF Pending, Action, Namespace
  <2>5. Cardinality(Hit(a, s)) \in Nat
    BY NamesFinite DEF Hit
  <2>6. Cardinality(Hit(a, s))' + Pending(a, s)' <= Cardinality(Hit(a, s)) + Pending(a, s)
    BY <2>1, <2>2, <2>4, <2>5
  <2> QED
    BY <2>1, <2>3, <2>4, <2>6, CapKept
<1> QED
  BY <1>1, <1>2 DEF CapInv

\* A target is taken: it is affected, or about to be, or let go.
LEMMA CapTake ==
  ASSUME TypeOK, CapInv, NEW n \in Names, Take(n),
         affected' \subseteq affected \cup {<<Action, Namespace, n>>},
         \/ pc' = "targets"
         \/ pc' = "update" /\ affected' = affected /\ target'[1] = Namespace
  PROVE  CapInv'
<1>1. /\ pc = "targets" /\ n \in targets /\ targets' = targets \ {n}
      /\ UNCHANGED <<cfg, act, ns>>
  BY DEF Take
<1>2. Action' = Action /\ Namespace' = Namespace
  BY <1>1 DEF Action, Namespace
<1>3. /\ IsFiniteSet(targets) /\ Cardinality(targets) \in Nat /\ Cardinality(targets') \in Nat
      /\ Cardinality(targets') = Cardinality(targets) - 1
  <2>1. IsFiniteSet(targets) /\ Cardinality(targets) \in Nat
    BY PendingTyped
  <2>2. IsFiniteSet(targets \ {n}) /\ Cardinality(targets \ {n}) = Cardinality(targets) - 1
    BY <1>1, <2>1, FS_RemoveElement
  <2>3. Cardinality(targets \ {n}) \in Nat
    BY <2>2, FS_CardinalityType
  <2> QED
    BY <1>1, <2>1, <2>2, <2>3
<1>4. ASSUME cfg.maxTargets > 0, NEW a \in Actions, NEW s \in Namespaces
      PROVE  Capped(a, s)'
  <2>1. Capped(a, s) /\ Pending(a, s) \in Nat
    BY <1>4, PendingTyped DEF CapInv
  <2>2. Visits(a, s) \subseteq Visits(a, s)'
    BY <1>1 DEF Visits
  <2>3. /\ Cardinality(Hit(a, s)') <= Cardinality(Hit(a, s)) + 1
        /\ (a # Action \/ s # Namespace) => Cardinality(Hit(a, s)') <= Cardinality(Hit(a, s))
        /\ Cardinality(Hit(a, s)) \in Nat /\ Cardinality(Hit(a, s)') \in Nat
    BY HitOne
  <2>4. Pending(a, s)' \in Nat
    BY <1>3 DEF Pending
  <2>5. Cardinality(Hit(a, s)') + Pending(a, s)' <= Cardinality(Hit(a, s)) + Pending(a, s)
    <3>1. CASE a # Action \/ s # Namespace
      <4>1. Pending(a, s)' = 0 /\ Pending(a, s) = 0
        BY <1>2, <3>1 DEF Pending
      <4> QED
        BY <2>3, <3>1, <4>1
    <3>2. CASE a = Action /\ s = Namespace /\ pc' = "targets"
      <4>1. Pending(a, s)' = Cardinality(targets') /\ Pending(a, s) = Cardinality(targets)
        BY <1>1, <1>2, <1>3, <3>2 DEF Pending
      <4> QED
        BY <1>3, <2>3, <4>1
    <3>3. CASE a = Action /\ s = Namespace /\ pc' = "update" /\ affected' = affected
      <4>1. Pending(a, s)' = Cardinality(targets') + 1 /\ Pending(a, s) = Cardinality(targets)
        BY <1>1, <1>2, <1>3, <3>3 DEF Pending
      <4>2. Hit(a, s)' = Hit(a, s)
        BY <3>3 DEF Hit
      <4> QED
        BY <1>3, <2>3, <4>1, <4>2
    <3> QED
      BY <3>1, <3>2, <3>3
  <2> QED
    BY <1>1, <2>1, <2>2, <2>4, <2>5, CapKept
<1> QED
  BY <1>1, <1>2, <1>4 DEF CapInv

LEMMA CapUpdate ==
  ASSUME TypeOK, AtUpdate, CapInv, NEW done \in BOOLEAN, NEW ok \in BOOLEAN, UpdateScale(done, ok)
  PROVE  CapInv'
<1>1. /\ pc = "update" /\ pc' = "targets" /\ UNCHANGED <<cfg, act, ns, targets>>
      /\ affected' \subseteq affected \cup {<<"scale_down", target[1], target[2]>>}
      /\ target[1] = Namespace /\ Action = "scale_down"
  BY DEF UpdateScale, loop, CapInv, AtUpdate
<1>2. Action' = Action /\ Namespace' = Namespace
  BY <1>1 DEF Action, Namespace
<1>3. ASSUME cfg.maxTargets > 0, NEW a \in Actions, NEW s \in Namespaces
      PROVE  Capped(a, s)'
  <2>1. Capped(a, s) /\ Pending(a, s) \in Nat /\ Cardinality(targets) \in Nat
    BY <1>3, PendingTyped DEF CapInv
  <2>2. Visits(a, s) \subseteq Visits(a, s)'
    BY <1>1 DEF Visits
  <2>3. /\ Cardinality(Hit(a, s)') <= Cardinality(Hit(a, s)) + 1
        /\ (a # "scale_down" \/ s # target[1]) => Cardinality(Hit(a, s)') <= Cardinality(Hit(a, s))
        /\ Cardinality(Hit(a, s)) \in Nat /\ Cardinality(Hit(a, s)') \in Nat
    BY <1>1, HitOne
  <2>4. Pending(a, s)' \in Nat
    BY <1>1, <2>1 DEF Pending
  <2>5. Cardinality(Hit(a, s)') + Pending(a, s)' <= Cardinality(Hit(a, s)) + Pending(a, s)
    <3>1. CASE a # Action \/ s # Namespace
      <4>1. Pending(a, s)' = 0 /\ Pending(a, s) = 0
        BY <1>2, <3>1 DEF Pending
      <4> QED
        BY <1>1, <2>3, <3>1, <4>1
    <3>2. CASE a = Action /\ s = Namespace
      <4>1. Pending(a, s)' = Cardinality(targets) /\ Pending(a, s) = Cardinality(targets) + 1
        BY <1>1, <1>2, <2>1, <3>2 DEF Pending
      <4> QED
        BY <2>1, <2>3, <4>1
    <3> QED
      BY <3>1, <3>2
  <2> QED
    BY <1>1, <2>1, <2>2, <2>4, <2>5, CapKept
<1> QED
  BY <1>1, <1>3 DEF CapInv

\* A visit begins: it adds MaxTargets to what may be affected.
LEMMA CapList ==
  ASSUME TypeOK, CapInv, List
  PROVE  CapInv'
<1>1. /\ pc = "place" /\ pc' = "targets" /\ UNCHANGED <<cfg, act, ns, affected>>
      /\ Action \in Actions
      /\ act \in DOMAIN cfg.actions /\ ns \in DOMAIN cfg.namespaces
      /\ targets' \in SelectRandom(Eligible, cfg.maxTargets)
  BY AtPlaceInRange DEF List, AtPlace, history
<1>2. Action' = Action /\ Namespace' = Namespace
  BY <1>1 DEF Action, Namespace
<1>3. cfg.maxTargets \in Nat
  BY CfgTyped
<1>4. /\ targets' \subseteq Names /\ Cardinality(targets') \in Nat
      /\ cfg.maxTargets > 0 => Cardinality(targets') <= cfg.maxTargets
  <2>1. Eligible \subseteq Names
    BY DEF Eligible
  <2>2. targets' \subseteq Eligible
    BY <1>1, Selected
  <2>3. Cardinality(targets') \in Nat /\ Cardinality(Eligible) \in Nat
    BY <2>1, <2>2, NamesFinite
  <2>4. cfg.maxTargets > 0 => Cardinality(targets') <= cfg.maxTargets
    BY <1>1, <1>3, <2>3 DEF SelectRandom
  <2> QED
    BY <2>1, <2>2, <2>3, <2>4
<1>5. ASSUME cfg.maxTargets > 0, NEW a \in Actions, NEW s \in Namespaces
      PROVE  Capped(a, s)'
  <2>1. Capped(a, s) /\ Pending(a, s) = 0
    BY <1>1, <1>5 DEF CapInv, Pending
  <2>2. Visits(a, s) \subseteq Visits(a, s)'
    BY <1>1 DEF Visits
  <2>3. Hit(a, s)' = Hit(a, s) /\ Cardinality(Hit(a, s)) \in Nat
    BY <1>1, NamesFinite DEF Hit
  <2>4. CASE a # Action \/ s # Namespace
    <3>1. Pending(a, s)' = 0
      BY <1>2, <2>4 DEF Pending
    <3>2. Cardinality(Hit(a, s))' + Pending(a, s)' <= Cardinality(Hit(a, s)) + Pending(a, s)
      BY <2>1, <2>3, <3>1
    <3> QED
      BY <1>1, <2>1, <2>2, <3>1, <3>2, CapKept
  <2>5. CASE a = Action /\ s = Namespace
    <3> DEFINE V == Visits(a, s)
               W == Visits(a, s)'
               v == <<act, ns>>
               D == (DOMAIN cfg.actions) \X (DOMAIN cfg.namespaces)
    <3>1. v \notin V /\ W = V \cup {v} /\ V \subseteq D
      <4>1. act \in Nat /\ ns \in Nat
        BY DEF TypeOK
      <4>2. v \in D /\ cfg.actions[v[1]] = a /\ cfg.namespaces[v[2]] = s
        BY <1>1, <2>5 DEF Action, Namespace
      <4>3. v \notin V
        BY <1>1, <4>1 DEF Visits
      <4>4. v \in W
        BY <1>1, <4>2 DEF Visits
      <4>5. ASSUME NEW w \in W PROVE w \in V \cup {v}
        BY <1>1, <4>5 DEF Visits
      <4>6. V \subseteq D
        BY DEF Visits
      <4> QED
        BY <2>2, <4>3, <4>4, <4>5, <4>6
    <3>2. Cardinality(V) \in Nat /\ Cardinality(W) = Cardinality(V) + 1
      <4> HIDE DEF V, W, v, D
      <4>1. IsFiniteSet(V) /\ Cardinality(V) \in Nat
        BY <3>1, VisitsFinite DEF D
      <4> QED
        BY <3>1, <4>1, FS_AddElement
    <3>3. /\ cfg.maxTargets * Cardinality(W) = cfg.maxTargets * Cardinality(V) + cfg.maxTargets
          /\ cfg.maxTargets * Cardinality(V) \in Nat
      <4> HIDE DEF V, W
      <4> QED
        BY <1>3, <3>2, CapTimes
    <3>4. Pending(a, s)' = Cardinality(targets')
      BY <1>1, <1>2, <1>4, <2>5 DEF Pending
    <3>5. Cardinality(Hit(a, s)) <= cfg.maxTargets * Cardinality(V)
      BY <2>1, <2>3 DEF Capped
    <3>6. Cardinality(Hit(a, s)') + Pending(a, s)' <= cfg.maxTargets * Cardinality(W)
      <4> HIDE DEF V, W
      <4> QED
        BY <1>3, <1>4, <1>5, <2>3, <3>3, <3>4, <3>5
    <3> QED
      BY <1>1, <3>6 DEF Capped
  <2> QED
    BY <2>4, <2>5
<1> QED
  BY <1>1, <1>5 DEF CapInv

LEMMA CapAdvances ==
  ASSUME TypeOK, CapInv, NextAction \/ NextNamespace
  PROVE  CapInv'
<1>1. /\ pc' = "place" /\ UNCHANGED <<cfg, affected>>
      /\ pc = "place" \/ (pc = "targets" /\ targets = {})
  BY DEF NextAction, NextNamespace, history
<1>2. ASSUME cfg.maxTargets > 0, NEW a \in Actions, NEW s \in Namespaces
      PROVE  Capped(a, s)'
  <2>1. Capped(a, s) /\ Pending(a, s)' = 0
    BY <1>1, <1>2 DEF CapInv, Pending
  <2>2. Pending(a, s) = 0
    BY <1>1, FS_EmptySet DEF Pending
  <2>3. Hit(a, s)' = Hit(a, s) /\ Cardinality(Hit(a, s)) \in Nat
    BY <1>1, NamesFinite DEF Hit
  <2>4. Visits(a, s) \subseteq Visits(a, s)'
    <3>1. act \in Nat /\ ns \in Nat
      BY DEF TypeOK
    <3>2. ASSUME NEW v \in Visits(a, s)
          PROVE  v \in Visits(a, s)'
      <4>1. v \in (DOMAIN cfg.actions) \X (DOMAIN cfg.namespaces) /\ v[1] \in Nat /\ v[2] \in Nat
        BY CfgTyped, LenProperties DEF Visits
      <4>2. CASE NextAction
        <5>1. act' = act + 1 /\ v[1] <= act
          BY <3>1, <4>1, <4>2 DEF NextAction, Visits
        <5>2. v[1] < act'
          BY <3>1, <4>1, <5>1
        <5> QED
          BY <1>1, <5>2 DEF Visits
      <4>3. CASE NextNamespace
        <5>1. act' = act /\ ns' = ns + 1
          BY <4>3 DEF NextNamespace
        <5>2. v[1] < act \/ (v[1] = act /\ v[2] <= ns)
          BY <3>1, <4>1 DEF Visits
        <5>3. v[1] < act' \/ (v[1] = act' /\ v[2] < ns')
          BY <3>1, <4>1, <5>1, <5>2
        <5> QED
          BY <1>1, <5>3 DEF Visits
      <4> QED
        BY <4>2, <4>3
    <3> QED
      BY <3>2
  <2>5. Cardinality(Hit(a, s))' + Pending(a, s)' <= Cardinality(Hit(a, s)) + Pending(a, s)
    BY <2>1, <2>2, <2>3
  <2> QED
    BY <1>1, <2>1, <2>2, <2>4, <2>5, CapKept
<1> QED
  BY <1>1, <1>2 DEF CapInv

\* Nothing is affected yet.
LEMMA CapZero ==
  ASSUME TypeOK, NEW V, V \subseteq (DOMAIN cfg.actions) \X (DOMAIN cfg.namespaces)
  PROVE  Cardinality({}) + 0 <= cfg.maxTargets * Cardinality(V)
<1>1. cfg.maxTargets \in Nat /\ Cardinality(V) \in Nat
  BY CfgTyped, VisitsFinite
<1>2. cfg.maxTargets * Cardinality(V) \in Nat
  BY <1>1, CapTimes
<1>3. Cardinality({}) = 0
  BY FS_EmptySet
<1> QED
  BY <1>2, <1>3

LEMMA CapInit ==
  ASSUME TypeOK, Init
  PROVE  CapInv
<1>1. pc = "idle" /\ affected = {}
  BY DEF Init
<1>2. ASSUME NEW a \in Actions, NEW s \in Namespaces
      PROVE  Capped(a, s)
  <2>1. Hit(a, s) = {} /\ Pending(a, s) = 0
    BY <1>1 DEF Hit, Pending
  <2>2. Visits(a, s) \subseteq (DOMAIN cfg.actions) \X (DOMAIN cfg.namespaces)
    BY DEF Visits
  <2> QED
    BY <2>1, <2>2, CapZero DEF Capped
<1> QED
  BY <1>1, <1>2 DEF CapInv

LEMMA CapBeginRun ==
  ASSUME TypeOK, BeginRun
  PROVE  CapInv'
<1>1. pc' = "place" /\ affected' = {} /\ cfg' = cfg
  BY DEF BeginRun
<1>2. ASSUME NEW a \in Actions, NEW s \in Namespaces
      PROVE  Capped(a, s)'
  <2>1. Hit(a, s)' = {} /\ Pending(a, s)' = 0
    BY <1>1 DEF Hit, Pending
  <2>2. Visits(a, s)' \subseteq (DOMAIN cfg.actions) \X (DOMAIN cfg.namespaces)
    BY <1>1 DEF Visits
  <2>3. Cardinality({}) + 0 <= cfg.maxTargets * Cardinality(Visits(a, s)')
    BY <2>2, CapZero
  <2> QED
    BY <1>1, <2>1, <2>3 DEF Capped
<1> QED
  BY <1>1, <1>2 DEF CapInv

LEMMA NextCap == TypeOK /\ AtUpdate /\ CapInv /\ [Next]_vars => CapInv'
<1> SUFFICES ASSUME TypeOK, AtUpdate, CapInv, [Next]_vars PROVE CapInv'
  OBVIOUS
<1>1. CASE BeginRun
  BY <1>1, CapBeginRun
<1>2. CASE NextAction \/ NextNamespace
  BY <1>2, CapAdvances
<1>3. CASE List
  BY <1>3, CapList
<1>4. ASSUME NEW n \in Names, \/ Denied(n) \/ GetScaleFails(n)
                              \/ \E done, ok \in BOOLEAN : Delete(n, done, ok)
      PROVE CapInv'
  <2>1. /\ Take(n) /\ pc' = "targets"
        /\ affected' \subseteq affected \cup {<<Action, Namespace, n>>}
    BY <1>4 DEF Denied, GetScaleFails, Delete, Take
  <2> QED
    BY <2>1, CapTake
<1>5. ASSUME NEW n \in Names, GetScale(n)
      PROVE CapInv'
  <2>1. Take(n) /\ pc' = "update" /\ affected' = affected /\ target' = <<Namespace, n>>
    BY <1>5 DEF GetScale
  <2>2. target'[1] = Namespace
    BY <2>1
  <2> QED
    BY <2>1, <2>2, CapTake
<1>6. ASSUME NEW done \in BOOLEAN, NEW ok \in BOOLEAN, UpdateScale(done, ok)
      PROVE CapInv'
  BY <1>6, CapUpdate
<1>7. CASE ListFails \/ EndRun \/ BeginRollback \/ RollbackStep
  <2>1. UNCHANGED <<cfg, affected, act, ns>>
    BY <1>7 DEF ListFails, EndRun, BeginRollback, RollbackStep, RestoreFails, RestoreGetScale,
                RestoreUpdate, EndRollback, loop, history
  <2>2. pc \notin {"targets", "update"} /\ pc' \notin {"targets", "update"}
    BY <1>7 DEF ListFails, EndRun, AtPlace, BeginRollback, RollbackStep, RestoreFails,
                RestoreGetScale, RestoreUpdate, EndRollback
  <2> QED
    BY <2>1, <2>2, CapFrame
<1>8. CASE OthersStep \/ UNCHANGED vars
  <2>1. UNCHANGED <<cfg, affected, act, ns, pc, target, targets>>
    BY <1>8 DEF OthersStep, OthersScale, OthersRemove, vars, loop, history
  <2> QED
    BY <2>1, CapFrame
<1> QED
  BY <1>1, <1>2, <1>3, <1>4, <1>5, <1>6, <1>7, <1>8 DEF Next, RunStep, Finished

\* The visits of a namespace for an action are no more than it is configured.
LEMMA CapGives ==
  ASSUME TypeOK, CapInv
  PROVE  CapPerPlace
<1> SUFFICES ASSUME cfg.maxTargets > 0, NEW a \in Actions, NEW s \in Namespaces
             PROVE  Cardinality(Hit(a, s))
                      <= cfg.maxTargets * Occurrences(cfg.actions, a) * Occurrences(cfg.namespaces, s)
  BY DEF CapPerPlace, Hit
<1> DEFINE A == {i \in DOMAIN cfg.actions : cfg.actions[i] = a}
           B == {i \in DOMAIN cfg.namespaces : cfg.namespaces[i] = s}
           V == Visits(a, s)
           m == cfg.maxTargets
<1>1. IsFiniteSet(A) /\ IsFiniteSet(B) /\ Cardinality(A) \in Nat /\ Cardinality(B) \in Nat
  <2>1. IsFiniteSet(DOMAIN cfg.actions) /\ IsFiniteSet(DOMAIN cfg.namespaces)
    BY DomainsFinite
  <2>2. A \subseteq DOMAIN cfg.actions /\ B \subseteq DOMAIN cfg.namespaces
    OBVIOUS
  <2> HIDE DEF A, B
  <2>3. IsFiniteSet(A) /\ IsFiniteSet(B)
    BY <2>1, <2>2, FS_Subset
  <2> QED
    BY <2>3, FS_CardinalityType
<1>2. V \subseteq A \X B /\ Cardinality(V) \in Nat
  BY VisitsFinite DEF Visits
<1>3. Cardinality(Hit(a, s)) <= m * Cardinality(V)
  <2>1. Capped(a, s) /\ Pending(a, s) \in Nat
    BY PendingTyped DEF CapInv
  <2>2. Cardinality(Hit(a, s)) \in Nat
    BY NamesFinite DEF Hit
  <2>3. m * Cardinality(V) \in Nat /\ m \in Nat
    <3>1. m \in Nat
      BY CfgTyped
    <3> HIDE DEF V, m
    <3> QED
      BY <1>2, <3>1, CapTimes
  <2>4. Cardinality(Hit(a, s)) + Pending(a, s) <= m * Cardinality(V)
    BY <2>1 DEF Capped
  <2> HIDE DEF V, m
  <2> QED
    BY <2>1, <2>2, <2>3, <2>4
<1>4. m \in Nat /\ Occurrences(cfg.actions, a) = Cardinality(A)
                /\ Occurrences(cfg.namespaces, s) = Cardinality(B)
  BY CfgTyped DEF Occurrences
<1> HIDE DEF A, B, V, m
<1>5. Cardinality(V) <= Cardinality(A) * Cardinality(B)
  <2>1. IsFiniteSet(A \X B) /\ Cardinality(A \X B) = Cardinality(A) * Cardinality(B)
    BY <1>1, FS_Product
  <2> QED
    BY <1>2, <2>1, FS_Subset
<1>6. Cardinality(A) * Cardinality(B) \in Nat
  BY <1>1, CapTimes
<1>7. m * Cardinality(V) <= m * (Cardinality(A) * Cardinality(B))
  BY <1>2, <1>4, <1>5, <1>6, CapTimes
<1>8. m * (Cardinality(A) * Cardinality(B)) = m * Cardinality(A) * Cardinality(B)
  BY <1>1, <1>4
<1>9. m * (Cardinality(A) * Cardinality(B)) \in Nat /\ m * Cardinality(V) \in Nat
  BY <1>2, <1>4, <1>6, CapTimes
<1>10. Cardinality(Hit(a, s)) \in Nat
  BY NamesFinite DEF Hit
<1>11. Cardinality(Hit(a, s)) <= m * (Cardinality(A) * Cardinality(B))
  BY <1>3, <1>7, <1>9, <1>10
<1> QED
  BY <1>4, <1>8, <1>11 DEF m

-----------------------------------------------------------------------------
(* One Run and nobody else: what is recorded is what there was.            *)

\* one visit of each namespace to scale down, one Run, and nobody else
OneVisitEach == /\ Occurrences(cfg.actions, "scale_down") <= 1
                /\ \A s \in Namespaces : Occurrences(cfg.namespaces, s) <= 1

Alone == runs <= 1 /\ others = 0 /\ OneVisitEach

\* What this experiment has not set is as it was, a record says what was, and
\* a namespace it comes to it has not been to.
Untouched == \A d \in Places : writer[d] = "others" => replicas[d] = original[d]

RecordsTrue == \A i \in DOMAIN scaledDownDeps :
                 scaledDownDeps[i].orig = original[scaledDownDeps[i].dep]

SetWhereVisited ==
  pc \in {"place", "targets", "update"} =>
    \A d \in Places : writer[d] = "chaos" => Visits("scale_down", d[1]) # {}

ListTrue ==
  pc \in {"targets", "update"} /\ Action = "scale_down" =>
    \A d \in Places : d[1] = Namespace => origReplicas[d] = original[d]

AloneInv ==
  /\ runs = 0 => scaledDownDeps = <<>>
  /\ Alone => Untouched /\ RecordsTrue /\ SetWhereVisited /\ ListTrue

\* what occurs once at most occurs in one place
LEMMA OnceOnly ==
  ASSUME NEW S, NEW q \in Seq(S), NEW x, Occurrences(q, x) <= 1,
         NEW i \in DOMAIN q, NEW j \in DOMAIN q, q[i] = x, q[j] = x
  PROVE  i = j
<1> DEFINE D == {k \in DOMAIN q : q[k] = x}
<1>1. IsFiniteSet(D)
  <2>1. DOMAIN q = 1 .. Len(q) /\ Len(q) \in Int /\ 1 \in Int
    BY LenProperties
  <2>2. IsFiniteSet(DOMAIN q)
    BY <2>1, FS_Interval
  <2>3. D \subseteq DOMAIN q
    OBVIOUS
  <2> HIDE DEF D
  <2> QED
    BY <2>2, <2>3, FS_Subset
<1>2. i \in D /\ j \in D /\ Cardinality(D) <= 1
  BY DEF Occurrences
<1> HIDE DEF D
<1>3. IsFiniteSet(D \ {i}) /\ Cardinality(D \ {i}) = Cardinality(D) - 1
  BY <1>1, <1>2, FS_RemoveElement
<1>4. Cardinality(D) \in Nat /\ Cardinality(D \ {i}) \in Nat
  BY <1>1, <1>3, FS_CardinalityType
<1>5. Cardinality(D \ {i}) = 0
  BY <1>2, <1>3, <1>4
<1>6. D \ {i} = {}
  BY <1>3, <1>5, FS_EmptySet
<1> QED
  BY <1>2, <1>6

\* Run comes to a namespace it has not been to.
LEMMA FirstVisit ==
  ASSUME TypeOK, OneVisitEach, AtPlace, Action = "scale_down"
  PROVE  Namespace \in Namespaces /\ Visits("scale_down", Namespace) = {}
<1>1. act \in DOMAIN cfg.actions /\ ns \in DOMAIN cfg.namespaces /\ act \in Nat /\ ns \in Nat
  BY AtPlaceInRange DEF TypeOK
<1>2. cfg.actions \in Seq(Actions \cup {"unknown"}) /\ cfg.namespaces \in Seq(Namespaces)
  BY CfgTyped
<1>3. Namespace \in Namespaces
  BY <1>1, <1>2, ElementOfSeq DEF Namespace
<1>4. ASSUME NEW v \in Visits("scale_down", Namespace)
      PROVE  FALSE
  <2>1. /\ v[1] \in DOMAIN cfg.actions /\ v[2] \in DOMAIN cfg.namespaces
        /\ cfg.actions[v[1]] = "scale_down" /\ cfg.namespaces[v[2]] = Namespace
    BY DEF Visits
  <2>2. v[1] = act
    BY <1>1, <1>2, <2>1, OnceOnly DEF OneVisitEach, Action
  <2>3. v[2] = ns
    BY <1>1, <1>2, <1>3, <2>1, OnceOnly DEF OneVisitEach, Namespace
  <2> QED
    BY <1>1, <2>2, <2>3 DEF Visits, AtPlace
<1> QED
  BY <1>3, <1>4

\* Who set a deployment last is this experiment or somebody else.
LEMMA OnlyOthers ==
  ASSUME TypeOK, NEW d \in Places, writer[d] # "chaos"
  PROVE  writer[d] = "others"
BY DEF TypeOK

\* No visit is forgotten in the loops.
LEMMA VisitsStay ==
  ASSUME TypeOK, \/ NextAction \/ List \/ NextNamespace
                 \/ UNCHANGED <<cfg, act, ns>> /\ pc \in {"targets", "update"} /\ pc' \in {"targets", "update"}
                 \/ UNCHANGED <<cfg, act, ns, pc>>,
         NEW a, NEW s
  PROVE  Visits(a, s) \subseteq Visits(a, s)'
<1>1. act \in Nat /\ ns \in Nat
  BY DEF TypeOK
<1> SUFFICES ASSUME NEW v \in Visits(a, s)
             PROVE  v \in Visits(a, s)'
  OBVIOUS
<1>2. v \in (DOMAIN cfg.actions) \X (DOMAIN cfg.namespaces) /\ v[1] \in Nat /\ v[2] \in Nat
  BY CfgTyped, LenProperties DEF Visits
<1>3. CASE NextAction
  <2>1. act' = act + 1 /\ v[1] <= act /\ cfg' = cfg
    BY <1>1, <1>2, <1>3 DEF NextAction, Visits
  <2>2. v[1] < act'
    BY <1>1, <1>2, <2>1
  <2> QED
    BY <2>1, <2>2 DEF Visits
<1>4. CASE NextNamespace
  <2>1. act' = act /\ ns' = ns + 1 /\ cfg' = cfg
    BY <1>4 DEF NextNamespace
  <2>2. v[1] < act \/ (v[1] = act /\ v[2] <= ns)
    BY <1>1, <1>2 DEF Visits
  <2>3. v[1] < act' \/ (v[1] = act' /\ v[2] < ns')
    BY <1>1, <1>2, <2>1, <2>2
  <2> QED
    BY <2>1, <2>3 DEF Visits
<1>5. CASE List
  BY <1>5 DEF List, AtPlace, Visits
<1>6. CASE \/ UNCHANGED <<cfg, act, ns>> /\ pc \in {"targets", "update"} /\ pc' \in {"targets", "update"}
           \/ UNCHANGED <<cfg, act, ns, pc>>
  BY <1>6 DEF Visits
<1> QED
  BY <1>3, <1>4, <1>5, <1>6

\* Neither the deployments nor the records change.
LEMMA AloneFrame ==
  ASSUME TypeOK, AloneInv, UNCHANGED <<cfg, scaledDownDeps, replicas, writer, original, runs, others>>,
         \A a, s : pc' \in {"place", "targets", "update"} =>
           pc \in {"place", "targets", "update"} /\ Visits(a, s) \subseteq Visits(a, s)',
         pc' \in {"targets", "update"} => UNCHANGED <<act, ns, origReplicas>> /\ pc \in {"targets", "update"}
  PROVE  AloneInv'
<1>1. runs' = 0 => scaledDownDeps' = <<>>
  BY DEF AloneInv
<1>2. ASSUME Alone'
      PROVE  Untouched' /\ RecordsTrue' /\ SetWhereVisited' /\ ListTrue'
  <2>1. Alone
    BY <1>2 DEF Alone, OneVisitEach
  <2>2. Untouched /\ RecordsTrue /\ SetWhereVisited /\ ListTrue
    BY <2>1 DEF AloneInv
  <2>3. Untouched' /\ RecordsTrue'
    BY <2>2 DEF Untouched, RecordsTrue
  <2>4. SetWhereVisited'
    <3> SUFFICES ASSUME pc' \in {"place", "targets", "update"}, NEW d \in Places, writer[d] = "chaos"
                 PROVE  Visits("scale_down", d[1])' # {}
      BY DEF SetWhereVisited
    <3>1. Visits("scale_down", d[1]) # {}
      BY <2>2 DEF SetWhereVisited
    <3>2. Visits("scale_down", d[1]) \subseteq Visits("scale_down", d[1])'
      OBVIOUS
    <3> QED
      BY <3>1, <3>2
  <2>5. ListTrue'
    BY <2>2 DEF ListTrue, Action, Namespace
  <2> QED
    BY <2>3, <2>4, <2>5
<1> QED
  BY <1>1, <1>2 DEF AloneInv

LEMMA AloneBegin ==
  ASSUME TypeOK, ScaleDownsRecorded, AloneInv, BeginRun
  PROVE  AloneInv'
<1>1. /\ runs' = runs + 1 /\ pc' = "place"
      /\ UNCHANGED <<cfg, replicas, writer, scaledDownDeps, original, others>>
  BY DEF BeginRun, cluster, record
<1>2. runs \in Nat
  BY K8sAssumption DEF TypeOK
<1>3. ASSUME Alone'
      PROVE  Untouched' /\ RecordsTrue' /\ SetWhereVisited' /\ ListTrue'
  <2>1. runs = 0 /\ Alone
    BY <1>1, <1>2, <1>3 DEF Alone, OneVisitEach
  <2>2. scaledDownDeps = <<>> /\ Untouched /\ RecordsTrue
    BY <2>1 DEF AloneInv
  <2>3. \A d \in Places : writer[d] # "chaos"
    BY <2>2 DEF ScaleDownsRecorded, Recorded
  <2> QED
    BY <1>1, <2>2, <2>3 DEF Untouched, RecordsTrue, SetWhereVisited, ListTrue
<1>4. runs' # 0
  BY <1>1, <1>2
<1> QED
  BY <1>3, <1>4 DEF AloneInv

LEMMA AloneList ==
  ASSUME TypeOK, AloneInv, List
  PROVE  AloneInv'
<1>1. /\ UNCHANGED <<cfg, act, ns, scaledDownDeps, replicas, writer, original, runs, others>>
      /\ pc = "place"
      /\ origReplicas' = IF Action = "scale_down" THEN replicas ELSE origReplicas
  BY DEF List, AtPlace, cluster, record, counts, history
<1>2. ASSUME Alone'
      PROVE  Untouched' /\ RecordsTrue' /\ SetWhereVisited' /\ ListTrue'
  <2>1. Alone
    BY <1>1, <1>2 DEF Alone, OneVisitEach
  <2>2. Untouched /\ RecordsTrue /\ SetWhereVisited
    BY <2>1 DEF AloneInv
  <2>3. Untouched' /\ RecordsTrue'
    BY <1>1, <2>2 DEF Untouched, RecordsTrue
  <2>4. SetWhereVisited'
    <3> SUFFICES ASSUME NEW d \in Places, writer[d] = "chaos"
                 PROVE  Visits("scale_down", d[1])' # {}
      BY <1>1 DEF SetWhereVisited
    <3>1. Visits("scale_down", d[1]) # {}
      BY <1>1, <2>2 DEF SetWhereVisited
    <3>2. Visits("scale_down", d[1]) \subseteq Visits("scale_down", d[1])'
      BY VisitsStay
    <3> QED
      BY <3>1, <3>2
  <2>5. ListTrue'
    <3> SUFFICES ASSUME Action = "scale_down", NEW d \in Places, d[1] = Namespace
                 PROVE  replicas[d] = original[d]
      BY <1>1 DEF ListTrue, Action, Namespace
    <3>1. Visits("scale_down", d[1]) = {}
      BY <2>1, FirstVisit DEF Alone, List
    <3>2. writer[d] = "others"
      BY <1>1, <2>2, <3>1, OnlyOthers DEF SetWhereVisited
    <3> QED
      BY <2>2, <3>2 DEF Untouched
  <2> QED
    BY <2>3, <2>4, <2>5
<1> QED
  BY <1>1, <1>2 DEF AloneInv

LEMMA AloneGet ==
  ASSUME TypeOK, AloneInv, AtTargets, NEW n \in Names, GetScale(n), runs # 0
  PROVE  AloneInv'
<1> DEFINE d == <<Namespace, n>>
           r == [dep |-> d, orig |-> origReplicas[d]]
<1>1. /\ UNCHANGED <<cfg, act, ns, origReplicas, replicas, writer, original, runs, others>>
      /\ pc = "targets" /\ pc' = "update" /\ Action = "scale_down"
      /\ scaledDownDeps' = Append(scaledDownDeps, r)
  BY DEF GetScale, Take, cluster, counts
<1>2. d \in Places /\ r \in Record
  <2>1. d \in Places
    BY DEF GetScale, TypeOK, Actions
  <2> QED
    BY <2>1 DEF TypeOK, Record
<1>3. ASSUME Alone'
      PROVE  Untouched' /\ RecordsTrue' /\ SetWhereVisited' /\ ListTrue'
  <2>1. Alone
    BY <1>1, <1>3 DEF Alone, OneVisitEach
  <2>2. Untouched /\ RecordsTrue /\ SetWhereVisited /\ ListTrue
    BY <2>1 DEF AloneInv
  <2>3. origReplicas[d] = original[d]
    BY <1>1, <1>2, <2>2 DEF ListTrue
  <2>4. RecordsTrue'
    <3> HIDE DEF d
    <3>1. /\ scaledDownDeps \in Seq(Record) /\ Len(scaledDownDeps) \in Nat
          /\ DOMAIN scaledDownDeps = 1 .. Len(scaledDownDeps)
          /\ DOMAIN scaledDownDeps' = 1 .. Len(scaledDownDeps) + 1
          /\ \A i \in 1 .. Len(scaledDownDeps) : scaledDownDeps'[i] = scaledDownDeps[i]
          /\ scaledDownDeps'[Len(scaledDownDeps) + 1] = r
      BY <1>1, <1>2, AppendProperties, LenProperties DEF TypeOK
    <3>2. r.dep = d /\ r.orig = origReplicas[d]
      OBVIOUS
    <3> HIDE DEF r
    <3>3. ASSUME NEW i \in DOMAIN scaledDownDeps'
          PROVE  scaledDownDeps'[i].orig = original[scaledDownDeps'[i].dep]
      <4>1. CASE i \in DOMAIN scaledDownDeps
        BY <2>2, <3>1, <4>1 DEF RecordsTrue
      <4>2. CASE i = Len(scaledDownDeps) + 1
        BY <2>3, <3>1, <3>2, <4>2
      <4> QED
        BY <3>1, <4>1, <4>2
    <3> QED
      BY <1>1, <3>3 DEF RecordsTrue
  <2>5. SetWhereVisited'
    <3> SUFFICES ASSUME NEW e \in Places, writer[e] = "chaos"
                 PROVE  Visits("scale_down", e[1])' # {}
      BY <1>1 DEF SetWhereVisited
    <3>1. Visits("scale_down", e[1]) # {}
      BY <1>1, <2>2 DEF SetWhereVisited
    <3>2. Visits("scale_down", e[1]) \subseteq Visits("scale_down", e[1])'
      BY <1>1, VisitsStay
    <3> QED
      BY <3>1, <3>2
  <2>6. Untouched' /\ ListTrue'
    BY <1>1, <2>2 DEF Untouched, ListTrue, Action, Namespace
  <2> QED
    BY <2>4, <2>5, <2>6
<1> QED
  BY <1>1, <1>3 DEF AloneInv

LEMMA AloneUpdate ==
  ASSUME TypeOK, AloneInv, AtTargets, AtUpdate, CapInv,
         NEW done \in BOOLEAN, NEW ok \in BOOLEAN, UpdateScale(done, ok)
  PROVE  AloneInv'
<1>1. /\ UNCHANGED <<cfg, act, ns, origReplicas, scaledDownDeps, runs, others>>
      /\ pc = "update" /\ pc' = "targets" /\ Action = "scale_down" /\ target[1] = Namespace
      /\ target \in Recorded
      /\ original' = IF done /\ writer[target] = "others"
                     THEN [original EXCEPT ![target] = replicas[target]] ELSE original
  BY DEF UpdateScale, record, loop, counts, AtUpdate, CapInv
<1>2. target \in Places
  BY <1>1, RecordTyped DEF Recorded
<1>3. \A d \in Places : d # target => replicas'[d] = replicas[d] /\ writer'[d] = writer[d]
  BY DEF UpdateScale, WriteScale, TypeOK
<1>4. done => writer'[target] = "chaos"
  BY <1>2 DEF UpdateScale, WriteScale, TypeOK
<1>5. ~done => replicas' = replicas /\ writer' = writer
  BY DEF UpdateScale, WriteScale
<1>6. ASSUME Alone'
      PROVE  Untouched' /\ RecordsTrue' /\ SetWhereVisited' /\ ListTrue'
  <2>1. Alone
    BY <1>1, <1>6 DEF Alone, OneVisitEach
  <2>2. Untouched /\ RecordsTrue /\ SetWhereVisited /\ ListTrue
    BY <2>1 DEF AloneInv
  <2>3. original' = original
    <3>1. CASE done /\ writer[target] = "others"
      <4>1. replicas[target] = original[target] /\ original \in [Places -> 0 .. MaxReplicas]
        BY <1>2, <2>2, <3>1 DEF Untouched, TypeOK
      <4>2. original' = [original EXCEPT ![target] = original[target]]
        BY <1>1, <3>1, <4>1
      <4> QED
        BY <4>1, <4>2
    <3> QED
      BY <1>1, <3>1
  <2>4. Untouched'
    <3> SUFFICES ASSUME NEW d \in Places, writer'[d] = "others"
                 PROVE  replicas'[d] = original[d]
      BY <2>3 DEF Untouched
    <3>1. CASE d # target \/ ~done
      <4>1. replicas'[d] = replicas[d] /\ writer[d] = "others"
        BY <1>3, <1>5, <3>1
      <4> QED
        BY <2>2, <4>1 DEF Untouched
    <3>2. CASE d = target /\ done
      BY <1>4, <3>2
    <3> QED
      BY <3>1, <3>2
  <2>5. SetWhereVisited'
    <3> SUFFICES ASSUME NEW d \in Places, writer'[d] = "chaos"
                 PROVE  Visits("scale_down", d[1])' # {}
      BY <1>1 DEF SetWhereVisited
    <3>1. Visits("scale_down", d[1]) \subseteq Visits("scale_down", d[1])'
      BY <1>1, VisitsStay
    <3>2. CASE d # target
      <4>1. Visits("scale_down", d[1]) # {}
        BY <1>1, <1>3, <2>2, <3>2 DEF SetWhereVisited
      <4> QED
        BY <3>1, <4>1
    <3>3. CASE d = target
      <4>1. act \in DOMAIN cfg.actions /\ ns \in DOMAIN cfg.namespaces
        BY <1>1 DEF AtTargets
      <4>2. <<act, ns>> \in Visits("scale_down", d[1])
        BY <1>1, <3>3, <4>1 DEF Visits, Action, Namespace
      <4> QED
        BY <3>1, <4>2
    <3> QED
      BY <3>2, <3>3
  <2>6. RecordsTrue' /\ ListTrue'
    BY <1>1, <2>2, <2>3 DEF RecordsTrue, ListTrue, Action, Namespace
  <2> QED
    BY <2>4, <2>5, <2>6
<1>7. runs' = 0 => scaledDownDeps' = <<>>
  BY <1>1 DEF AloneInv
<1> QED
  BY <1>6, <1>7 DEF AloneInv

LEMMA AloneRestore ==
  ASSUME TypeOK, AtReupdate, AloneInv, NEW done \in BOOLEAN, NEW ok \in BOOLEAN, RestoreUpdate(done, ok)
  PROVE  AloneInv'
<1>1. /\ UNCHANGED <<cfg, scaledDownDeps, original, runs, others>>
      /\ pc' = "restore" /\ pos \in DOMAIN scaledDownDeps /\ target = scaledDownDeps[pos].dep
  BY DEF RestoreUpdate, record, counts, AtReupdate
<1>2. target \in Places
  BY <1>1, RecordTyped
<1>3. \A d \in Places : writer'[d] = "others" => writer[d] = "others" /\ replicas'[d] = replicas[d]
  BY <1>2 DEF RestoreUpdate, WriteScale, TypeOK
<1>4. ASSUME Alone'
      PROVE  Untouched' /\ RecordsTrue' /\ SetWhereVisited' /\ ListTrue'
  <2>1. Alone
    BY <1>1, <1>4 DEF Alone, OneVisitEach
  <2>2. Untouched /\ RecordsTrue
    BY <2>1 DEF AloneInv
  <2> QED
    BY <1>1, <1>3, <2>2 DEF Untouched, RecordsTrue, SetWhereVisited, ListTrue
<1>5. runs' = 0 => scaledDownDeps' = <<>>
  BY <1>1 DEF AloneInv
<1> QED
  BY <1>4, <1>5 DEF AloneInv

\* Another client ends what this is about.
LEMMA OthersCount ==
  ASSUME TypeOK, AloneInv, UNCHANGED <<scaledDownDeps, runs>>, others' = others + 1
  PROVE  AloneInv'
<1>1. others \in Nat
  BY K8sAssumption DEF TypeOK
<1>2. others' # 0
  BY <1>1
<1> QED
  BY <1>2 DEF AloneInv, Alone

\* Who is at work has been called.
Running == pc \in {"place", "targets", "update"} => runs # 0

LEMMA NextRunning == TypeOK /\ Running /\ [Next]_vars => Running'
<1> SUFFICES ASSUME TypeOK, Running, [Next]_vars PROVE Running'
  OBVIOUS
<1>0. runs \in Nat
  BY K8sAssumption DEF TypeOK
<1>1. CASE BeginRun
  <2>1. runs' = runs + 1
    BY <1>1 DEF BeginRun
  <2> QED
    BY <1>0, <2>1 DEF Running
<1>2. CASE RunStep \/ BeginRollback \/ RollbackStep \/ OthersStep \/ UNCHANGED vars
  BY <1>2 DEF RunStep, NextAction, List, AtPlace, ListFails, NextNamespace, EndRun, Denied,
              GetScaleFails, GetScale, Delete, Take, UpdateScale, BeginRollback, RollbackStep,
              RestoreFails, RestoreGetScale, RestoreUpdate, EndRollback, OthersStep, OthersScale,
              OthersRemove, vars, counts, Running
<1> QED
  BY <1>1, <1>2 DEF Next, Finished

LEMMA NextAlone ==
  TypeOK /\ AtTargets /\ AtUpdate /\ AtReupdate /\ ScaleDownsRecorded /\ CapInv /\ Running /\ AloneInv
    /\ [Next]_vars => AloneInv'
<1> SUFFICES ASSUME TypeOK, AtTargets, AtUpdate, AtReupdate, ScaleDownsRecorded, CapInv, Running,
                    AloneInv, [Next]_vars
             PROVE  AloneInv'
  OBVIOUS
<1>1. CASE BeginRun
  BY <1>1, AloneBegin
<1>2. CASE List
  BY <1>2, AloneList
<1>3. ASSUME NEW n \in Names, GetScale(n) PROVE AloneInv'
  <2>1. runs # 0
    BY <1>3 DEF Running, GetScale, Take
  <2> QED
    BY <1>3, <2>1, AloneGet
<1>4. ASSUME NEW done \in BOOLEAN, NEW ok \in BOOLEAN, UpdateScale(done, ok) PROVE AloneInv'
  BY <1>4, AloneUpdate
<1>5. ASSUME NEW done \in BOOLEAN, NEW ok \in BOOLEAN, RestoreUpdate(done, ok) PROVE AloneInv'
  BY <1>5, AloneRestore
<1>6. CASE NextAction \/ NextNamespace
  <2>1. /\ UNCHANGED <<cfg, scaledDownDeps, replicas, writer, original, runs, others>>
        /\ pc \in {"place", "targets"} /\ pc' = "place"
    BY <1>6 DEF NextAction, NextNamespace, cluster, record, counts, history
  <2>2. \A a, s : Visits(a, s) \subseteq Visits(a, s)'
    BY <1>6, VisitsStay
  <2> QED
    BY <2>1, <2>2, AloneFrame
<1>7. ASSUME NEW n \in Names, \/ Denied(n) \/ GetScaleFails(n)
                              \/ \E done, ok \in BOOLEAN : Delete(n, done, ok)
      PROVE AloneInv'
  <2>1. /\ UNCHANGED <<cfg, scaledDownDeps, replicas, writer, original, runs, others, act, ns, origReplicas, pc>>
        /\ pc = "targets"
    BY <1>7 DEF Denied, GetScaleFails, Delete, Take, cluster, record, counts
  <2>2. \A a, s : Visits(a, s) \subseteq Visits(a, s)'
    BY <2>1, VisitsStay
  <2> QED
    BY <2>1, <2>2, AloneFrame
<1>8. CASE ListFails \/ EndRun \/ BeginRollback \/ RestoreFails \/ RestoreGetScale \/ EndRollback
  <2>1. /\ UNCHANGED <<cfg, scaledDownDeps, replicas, writer, original, runs, others>>
        /\ pc' \notin {"place", "targets", "update"}
    BY <1>8 DEF ListFails, EndRun, BeginRollback, RestoreFails, RestoreGetScale, EndRollback,
                cluster, record, counts, history
  <2> QED
    BY <2>1, AloneFrame
<1>9. CASE UNCHANGED vars \/ \E a \in Actions, p \in Places : OthersRemove(a, p)
  <2>1. \/ UNCHANGED <<cfg, scaledDownDeps, replicas, writer, original, runs, others, act, ns, origReplicas, pc>>
        \/ UNCHANGED <<scaledDownDeps, runs>> /\ others' = others + 1
    BY <1>9 DEF OthersRemove, vars, loop, cluster, record, counts, history
  <2>2. CASE UNCHANGED <<cfg, scaledDownDeps, replicas, writer, original, runs, others, act, ns, origReplicas, pc>>
    <3>1. \A a, s : Visits(a, s) \subseteq Visits(a, s)'
      BY <2>2, VisitsStay
    <3> QED
      BY <2>2, <3>1, AloneFrame
  <2>3. CASE UNCHANGED <<scaledDownDeps, runs>> /\ others' = others + 1
    BY <2>3, OthersCount
  <2> QED
    BY <2>1, <2>2, <2>3
<1>10. ASSUME NEW d \in Places, NEW n \in 0 .. MaxReplicas, OthersScale(d, n) PROVE AloneInv'
  <2>1. UNCHANGED <<scaledDownDeps, runs>> /\ others' = others + 1
    BY <1>10 DEF OthersScale, record
  <2> QED
    BY <2>1, OthersCount
<1> QED
  BY <1>1, <1>2, <1>3, <1>4, <1>5, <1>6, <1>7, <1>8, <1>9, <1>10
  DEF Next, RunStep, RollbackStep, OthersStep, Finished

LEMMA AloneInit ==
  ASSUME Init
  PROVE  AloneInv /\ Running
BY DEF Init, AloneInv, Running, Untouched, RecordsTrue, SetWhereVisited, ListTrue

\* What is restored to its last record is restored to what it was.
LEMMA AloneGives ==
  ASSUME TypeOK, ScaleDownsRecorded, BestInv, AloneInv
  PROVE  RestoresAfterOneRun
<1> SUFFICES ASSUME Alone, pc = "done", NEW d \in Places, writer[d] = "chaos", d \notin failed
             PROVE  replicas[d] = original[d]
  BY DEF RestoresAfterOneRun, RestoresOriginal, Alone, OneVisitEach
<1>1. PICK i \in DOMAIN scaledDownDeps :
        scaledDownDeps[i].dep = d /\ replicas[d] = scaledDownDeps[i].orig
  BY BestGives
<1> QED
  BY <1>1 DEF AloneInv, RecordsTrue

-----------------------------------------------------------------------------
\* The inductive invariant holds.
THEOREM Invariance == Spec => []IInv
<1>1. IInv /\ [Next]_vars => IInv'
  BY NextTypeOK, NextAtTargets, NextAtUpdate, NextAtReupdate, NextRecorded, NextProtected DEF IInv
<1> QED  BY InitIInv, <1>1, PTL DEF Spec

\* The cluster, the record and the position of Run and Rollback stay well typed
\* for every configuration, cluster and number of Runs and other clients'
\* changes (k8s.go:20-40, 82-165).
THEOREM TypeCorrect == Spec => []TypeOK
<1>1. IInv => TypeOK
  BY DEF IInv
<1> QED  BY Invariance, <1>1, PTL

\* Whatever fails, whoever else changes the cluster and however often Run is
\* called, Rollback has a record of every deployment this experiment scaled
\* down and nobody has scaled since (k8s.go:258-268).
THEOREM RecordCoversScaleDowns == Spec => []ScaleDownsRecorded
<1>1. IInv => ScaleDownsRecorded
  BY DEF IInv
<1> QED  BY Invariance, <1>1, PTL

\* No Run touches what is excluded, what the policy blocks, or the service of
\* the API server (k8s.go:173, 189, 231, 245, 297-301, 309).
THEOREM ProtectedIsUntouched == Spec => []ProtectedUntouched
<1>1. IInv => ProtectedUntouched
  BY DEF IInv
<1> QED  BY Invariance, <1>1, PTL

\* What was done so far is counted, carried out and recorded as it should be.
THEOREM ProgressInvariance == Spec => [](BestInv /\ CapInv /\ Running /\ AloneInv)
<1> DEFINE PInv == BestInv /\ CapInv /\ Running /\ AloneInv
<1>1. Init => PInv
  <2> SUFFICES ASSUME Init PROVE PInv
    OBVIOUS
  <2>1. TypeOK
    BY InitIInv DEF IInv
  <2>2. BestInv
    <3>1. pc = "idle" /\ Recorded = {}
      BY DEF Init, Recorded
    <3> QED
      BY <3>1 DEF BestInv, LastOnRecord
  <2> QED
    BY <2>1, <2>2, CapInit, AloneInit
<1>2. IInv /\ PInv /\ [Next]_vars => PInv'
  BY NextBest, NextCap, NextRunning, NextAlone DEF IInv
<1> HIDE DEF PInv
<1>3. Spec => []PInv
  BY Invariance, <1>1, <1>2, PTL DEF Spec
<1> QED
  BY <1>3 DEF PInv

\* One Run affects at most MaxTargets resources for each time an action and a
\* namespace are configured, whatever the cluster holds and however many of
\* the calls fail (k8s.go:186, 242, 306, 337-345).
THEOREM TargetsAreCapped == Spec => []CapPerPlace
<1>1. IInv /\ CapInv => CapPerPlace
  BY CapGives DEF IInv
<1> QED
  BY Invariance, ProgressInvariance, <1>1, PTL

\* The failures of others keep no deployment from its last record's count
\* (k8s.go:126-138).
THEOREM RollbackIsBestEffort == Spec => []BestEffort
<1>1. IInv /\ BestInv => BestEffort
  <2> SUFFICES ASSUME IInv, BestInv, pc = "done",
                      NEW d \in Places, writer[d] = "chaos", d \notin failed
               PROVE  replicas[d] = LastRecorded(d)
    BY DEF BestEffort
  <2> QED
    BY BestGives DEF IInv
<1> QED
  BY Invariance, ProgressInvariance, <1>1, PTL

\* After one Run that comes to each namespace once, and with no other client,
\* that count is the original one, whatever failed in between
\* (README.md:118, k8s.go:234-239, 258-262, 133).
THEOREM OneRunIsRestored == Spec => []RestoresAfterOneRun
<1>1. IInv /\ BestInv /\ AloneInv => RestoresAfterOneRun
  BY AloneGives DEF IInv
<1> QED
  BY Invariance, ProgressInvariance, <1>1, PTL
=============================================================================
