--------------------------- MODULE LifecycleProofs ---------------------------
(***************************************************************************)
(* What the safety operators promise for every configuration, and from it  *)
(* that a campaign alters nothing unapproved, is not refused half-way,     *)
(* reports its completion truly, ends with all it could undo undone, and   *)
(* why it ends.                                                            *)
(***************************************************************************)
EXTENDS Lifecycle, FiniteSetTheorems, TLAPS

-----------------------------------------------------------------------------
(* The operators of Safety. *)

\* The number of elements of a list that satisfy a condition is a natural
\* number, and not zero if one does.
LEMMA CountOfSome ==
  ASSUME NEW n \in Nat, NEW S, S \subseteq 1 .. n
  PROVE  Cardinality(S) \in Nat /\ (S # {} => Cardinality(S) > 0)
<1>1. IsFiniteSet(1 .. n)
  BY FS_Interval
<1>2. IsFiniteSet(S)
  BY <1>1, FS_Subset
<1> QED
  BY <1>2, FS_CardinalityType, FS_EmptySet

\* A product of two positive numbers is positive.
LEMMA Product ==
  ASSUME NEW a \in Nat, NEW b \in Nat
  PROVE  a * b \in Nat /\ (a > 0 /\ b > 0 => a * b > 0)
OBVIOUS

\* The preflight's count of Kubernetes actions is a natural number.
LEMMA K8sDestructiveNat ==
  ASSUME NEW c \in Config
  PROVE  K8sDestructive(c) \in Nat
<1> DEFINE D == {i \in DOMAIN c.actions : IsDestructiveK8sAction(c.actions[i])}
<1>1. c.actions \in Seq(K8sActions) /\ c.namespaces \in Seq(Namespaces)
  BY DEF Config
<1>2. Cardinality(D) \in Nat
  BY <1>1, CountOfSome
<1>3. Len(c.namespaces) \in Nat
  BY <1>1
<1>4. Cardinality(D) * Len(c.namespaces) \in Nat
  BY <1>2, <1>3, Product
<1> QED
  BY <1>4 DEF K8sDestructive

\* In a validated configuration a module that may alter something has an action
\* that counts.
LEMMA DestructiveCounts ==
  ASSUME NEW c \in Config, Validate(c), NEW m \in DestructiveModules(c)
  PROVE  DestructiveActionCount(c) > 0
<1> DEFINE D == {i \in DOMAIN c.actions : IsDestructiveK8sAction(c.actions[i])}
<1>1. c.actions \in Seq(K8sActions) /\ c.namespaces \in Seq(Namespaces) /\ c.items \in [Modules -> Nat]
  BY DEF Config
<1>2. K8sDestructive(c) \in Nat /\ Count(c, "network") \in Nat /\ Count(c, "stress") \in Nat
  BY <1>1, K8sDestructiveNat DEF Count, Modules
<1>3. CASE m = "kubernetes"
  <2>1. Has(c, "kubernetes") /\ D # {}
    BY <1>3 DEF DestructiveModules, Has
  <2>2. Cardinality(D) \in Nat /\ Cardinality(D) > 0
    <3>1. Len(c.actions) \in Nat /\ D \subseteq 1 .. Len(c.actions)
      BY <1>1
    <3> QED
      BY <2>1, <3>1, CountOfSome
  <2>3. Len(c.namespaces) \in Nat /\ Len(c.namespaces) > 0
    BY <1>1, <2>1 DEF Validate
  <2>4. K8sDestructive(c) > 0
    BY <2>1, <2>2, <2>3, Product DEF K8sDestructive
  <2> QED
    BY <1>2, <2>4 DEF DestructiveActionCount
<1>4. CASE m \in {"network", "stress"}
  <2>1. Count(c, m) > 0
    BY <1>1, <1>4 DEF DestructiveModules, Validate, Count, Has, Modules
  <2> QED
    BY <1>2, <1>4, <2>1 DEF DestructiveActionCount
<1> QED
  BY <1>3, <1>4 DEF DestructiveModules

\* What the experiments report together is what the preflight counts.
LEMMA CountsAgree ==
  ASSUME NEW c
  PROVE  ReportedActions(c) = DestructiveActionCount(c)
BY DEF ReportedActions, DestructiveActionCount, K8sDestructive, IsDestructiveK8sAction

\* The two checks of permission together, and the one of approval: after a
\* preflight an action that the policy does not deny has both.
LEMMA ActionApproved ==
  ASSUME NEW c \in Config, Validate(c), ~c.dryRun,
         NEW approval, NEW tools, Preflight(c, approval, tools),
         NEW m \in DestructiveModules(c), ~ActionDenied(c, m), c.safety.enabled
  PROVE  c.safety.allow /\ (c.safety.requireApproval => approval)
<1>1. c.safety.allow
  BY DEF ActionDenied
<1>2. DestructiveActionCount(c) > 0
  BY DestructiveCounts
<1> QED
  BY <1>1, <1>2 DEF Preflight

\* With fail_closed no module is denied an action after the preflight.
LEMMA NoneDenied ==
  ASSUME NEW c \in Config, Validate(c), ~c.dryRun, c.safety.failClosed,
         NEW approval, NEW tools, Preflight(c, approval, tools), NEW m
  PROVE  ~ActionDenied(c, m)
<1> SUFFICES ASSUME ActionDenied(c, m) PROVE FALSE
  OBVIOUS
<1>1. c.safety.enabled /\ m \in DestructiveModules(c)
  BY DEF ActionDenied
<1>2. DestructiveActionCount(c) > 0
  BY <1>1, DestructiveCounts
<1>3. c.safety.allow /\ ValidateRun(c, tools)
  BY <1>1, <1>2 DEF Preflight
<1>4. m = "kubernetes" /\ \E i \in DOMAIN c.namespaces : ~NamespacePermitted(c, c.namespaces[i])
  BY <1>3 DEF ActionDenied
<1>5. Has(c, "kubernetes")
  BY <1>1, <1>4 DEF DestructiveModules, Has
<1> QED
  BY <1>3, <1>4, <1>5 DEF ValidateRun

\* The engine's cap refuses no round of a campaign that passed the preflight.
LEMMA NotRefused ==
  ASSUME NEW c \in Config, NEW approval, NEW tools, Preflight(c, approval, tools)
  PROVE  ~EngineRefuses(c)
<1> SUFFICES ASSUME EngineRefuses(c) PROVE FALSE
  OBVIOUS
<1>1. c.safety.maxDestructive \in Int /\ c.items \in [Modules -> Nat]
  BY DEF Config, SafetyConfig
<1>2. DestructiveActionCount(c) \in Nat
  <2>1. Count(c, "network") \in Nat /\ Count(c, "stress") \in Nat
    BY <1>1 DEF Count, Modules
  <2> QED
    BY <2>1, K8sDestructiveNat DEF DestructiveActionCount
<1>3. DestructiveActionCount(c) <= c.safety.maxDestructive
  BY DEF EngineRefuses, Preflight, ValidateRun, WithinLimits
<1>4. DestructiveActionCount(c) > c.safety.maxDestructive
  BY CountsAgree DEF EngineRefuses
<1> QED
  BY <1>1, <1>2, <1>3, <1>4

-----------------------------------------------------------------------------
(* The invariant. *)

Admitted == {"register", "listen", "check", "run", "recheck", "report", "rollback", "undo", "shutdown"}

\* main gets past Validate and the preflight in that way only
AdmittedOK ==
  /\ cfg \in Config
  /\ pc \notin {"load", "exited"} => Validate(cfg)
  /\ pc \in Admitted => \E tools \in BOOLEAN : Preflight(cfg, approved, tools)

\* a Run or a callback is in progress inside a round only, and signals are
\* handled once main comes to the campaign
PhaseOK ==
  /\ pc \in Positions /\ phase \in {"idle", "running", "undoing"}
  /\ phase = "running" => pc = "run"
  /\ phase = "undoing" <=> pc = "undo"
  /\ cleared # {} \/ running # {} => phase = "running" /\ ~cfg.dryRun
  /\ phase # "running" => \A s \in Slots : Idle(s)
  /\ handler = "unset" => pc \in {"load", "ask", "preflight", "register", "listen", "exited"}

\* what is altered belongs to a module that still has its Rollback before it,
\* or had one that could not do it
HarmOK ==
  /\ altered \subseteq Modules
  /\ altered \subseteq touched \cup (IF late THEN Modules ELSE unable)
  /\ late => pc \in {"undo", "shutdown", "exited"}

\* main returns by itself only at the end
EndOK ==
  /\ pc # "exited" => code = 0
  /\ pc = "shutdown" => touched = {}
  /\ pc \in {"rollback", "undo", "shutdown"} => report = entries
  /\ pc = "exited" /\ code = 0 => touched = {} /\ report = entries /\ ~serving

\* the completion is announced after the campaign
AnnouncedOK ==
  "completed" \in outbox \cup heard => pc \in {"report", "rollback", "undo", "shutdown", "exited"}

LInv ==
  /\ AdmittedOK /\ PhaseOK /\ HarmOK /\ EndOK /\ AnnouncedOK
  /\ NothingUnapproved /\ PreflightDecides

-----------------------------------------------------------------------------
(* The initial states, and one lemma for each action.                      *)

USE DEF fixed, campaign, signal, health, after, harm, rounds, ledger, book, notices,
        Untouched, Steady, Goto, Exit, Send, Nothing

LEMMA InitOK ==
  ASSUME Init
  PROVE  LInv
BY LifecycleAssumption
DEF Init, LedgerInit, E!Init, LInv, AdmittedOK, PhaseOK, HarmOK, EndOK, AnnouncedOK,
    NothingUnapproved, PreflightDecides, Admitted, Positions, Idle

LEMMA LoadKeeps ==
  ASSUME LInv, Load
  PROVE  LInv'
BY DEF Load,
  LInv, AdmittedOK, PhaseOK, HarmOK, EndOK, AnnouncedOK, NothingUnapproved, PreflightDecides, Admitted, Positions, Idle

LEMMA AskKeeps ==
  ASSUME LInv, Ask
  PROVE  LInv'
BY DEF Ask,
  LInv, AdmittedOK, PhaseOK, HarmOK, EndOK, AnnouncedOK, NothingUnapproved, PreflightDecides, Admitted, Positions, Idle

LEMMA CheckSafetyKeeps ==
  ASSUME LInv, NEW tools \in BOOLEAN, CheckSafety(tools)
  PROVE  LInv'
BY DEF CheckSafety,
  LInv, AdmittedOK, PhaseOK, HarmOK, EndOK, AnnouncedOK, NothingUnapproved, PreflightDecides, Admitted, Positions, Idle

LEMMA RegisterAllKeeps ==
  ASSUME LInv, NEW ok \in BOOLEAN, RegisterAll(ok)
  PROVE  LInv'
BY DEF RegisterAll,
  LInv, AdmittedOK, PhaseOK, HarmOK, EndOK, AnnouncedOK, NothingUnapproved, PreflightDecides, Admitted, Positions, Idle

LEMMA ListenKeeps ==
  ASSUME LInv, Listen
  PROVE  LInv'
BY DEF Listen,
  LInv, AdmittedOK, PhaseOK, HarmOK, EndOK, AnnouncedOK, NothingUnapproved, PreflightDecides, Admitted, Positions, Idle

LEMMA InterruptKeeps ==
  ASSUME LInv, Interrupt
  PROVE  LInv'
BY DEF Interrupt,
  LInv, AdmittedOK, PhaseOK, HarmOK, EndOK, AnnouncedOK, NothingUnapproved, PreflightDecides, Admitted, Positions, Idle

LEMMA HandleKeeps ==
  ASSUME LInv, Handle
  PROVE  LInv'
BY DEF Handle, E!Stop,
  LInv, AdmittedOK, PhaseOK, HarmOK, EndOK, AnnouncedOK, NothingUnapproved, PreflightDecides, Admitted, Positions, Idle

LEMMA CheckBeforeKeeps ==
  ASSUME LInv, NEW healthy, CheckBefore(healthy)
  PROVE  LInv'
BY DEF CheckBefore,
  LInv, AdmittedOK, PhaseOK, HarmOK, EndOK, AnnouncedOK, NothingUnapproved, PreflightDecides, Admitted, Positions, Idle

LEMMA ClearStepKeeps ==
  ASSUME LInv, NEW s \in Slots, ClearStep(s)
  PROVE  LInv'
BY DEF ClearStep, MayStep, E!Clear,
  LInv, AdmittedOK, PhaseOK, HarmOK, EndOK, AnnouncedOK, NothingUnapproved, PreflightDecides, Admitted, Positions, Idle

LEMMA SkipStepKeeps ==
  ASSUME LInv, NEW s \in Slots, SkipStep(s)
  PROVE  LInv'
BY DEF SkipStep, Deliver,
  LInv, AdmittedOK, PhaseOK, HarmOK, EndOK, AnnouncedOK, NothingUnapproved, PreflightDecides, Admitted, Positions, Idle

LEMMA EndStepKeeps ==
  ASSUME LInv, NEW s \in Slots, NEW ok, EndStep(s, ok)
  PROVE  LInv'
BY DEF EndStep, E!End, Deliver,
  LInv, AdmittedOK, PhaseOK, HarmOK, EndOK, AnnouncedOK, NothingUnapproved, PreflightDecides, Admitted, Positions, Idle

LEMMA FailStepKeeps ==
  ASSUME LInv, NEW s \in Slots, FailStep(s)
  PROVE  LInv'
BY DEF FailStep, E!End,
  LInv, AdmittedOK, PhaseOK, HarmOK, EndOK, AnnouncedOK, NothingUnapproved, PreflightDecides, Admitted, Positions, Idle

LEMMA EndRoundKeeps ==
  ASSUME LInv, EndRound
  PROVE  LInv'
BY DEF EndRound, E!Return,
  LInv, AdmittedOK, PhaseOK, HarmOK, EndOK, AnnouncedOK, NothingUnapproved, PreflightDecides, Admitted, Positions, Idle

LEMMA ReportKeeps ==
  ASSUME LInv, NEW s \in Slots, Report(s)
  PROVE  LInv'
BY DEF Report, Callback, IncTotal, IncVerdict, LoadEntries, StoreEntries, SendDone,
  LInv, AdmittedOK, PhaseOK, HarmOK, EndOK, AnnouncedOK, NothingUnapproved, PreflightDecides, Admitted, Positions, Idle

LEMMA NotifyKeeps ==
  ASSUME LInv, NEW event \in Events, NEW ok, Notify(event, ok)
  PROVE  LInv'
BY DEF Notify, Sent,
  LInv, AdmittedOK, PhaseOK, HarmOK, EndOK, AnnouncedOK, NothingUnapproved, PreflightDecides, Admitted, Positions, Idle

LEMMA EndRunKeeps ==
  ASSUME LInv, EndRun
  PROVE  LInv'
BY DEF EndRun,
  LInv, AdmittedOK, PhaseOK, HarmOK, EndOK, AnnouncedOK, NothingUnapproved, PreflightDecides, Admitted, Positions, Idle

LEMMA CheckAfterKeeps ==
  ASSUME LInv, NEW healthy, CheckAfter(healthy)
  PROVE  LInv'
BY DEF CheckAfter,
  LInv, AdmittedOK, PhaseOK, HarmOK, EndOK, AnnouncedOK, NothingUnapproved, PreflightDecides, Admitted, Positions, Idle

LEMMA BuildReportKeeps ==
  ASSUME LInv, BuildReport
  PROVE  LInv'
BY DEF BuildReport,
  LInv, AdmittedOK, PhaseOK, HarmOK, EndOK, AnnouncedOK, NothingUnapproved, PreflightDecides, Admitted, Positions, Idle

LEMMA BeginRollbackKeeps ==
  ASSUME LInv, BeginRollback
  PROVE  LInv'
BY DEF BeginRollback, E!BeginUndo,
  LInv, AdmittedOK, PhaseOK, HarmOK, EndOK, AnnouncedOK, NothingUnapproved, PreflightDecides, Admitted, Positions, Idle

LEMMA DeadlineKeeps ==
  ASSUME LInv, DeadlinePasses
  PROVE  LInv'
BY DEF DeadlinePasses,
  LInv, AdmittedOK, PhaseOK, HarmOK, EndOK, AnnouncedOK, NothingUnapproved, PreflightDecides, Admitted, Positions, Idle

LEMMA UndoKeeps ==
  ASSUME LInv, NEW m \in Modules, NEW ok \in BOOLEAN, Undo(m, ok)
  PROVE  LInv'
BY DEF Undo, E!Undo,
  LInv, AdmittedOK, PhaseOK, HarmOK, EndOK, AnnouncedOK, NothingUnapproved, PreflightDecides, Admitted, Positions, Idle

LEMMA EndRollbackKeeps ==
  ASSUME LInv, EndRollback
  PROVE  LInv'
BY DEF EndRollback, E!EndUndo,
  LInv, AdmittedOK, PhaseOK, HarmOK, EndOK, AnnouncedOK, NothingUnapproved, PreflightDecides, Admitted, Positions, Idle

LEMMA ShutdownKeeps ==
  ASSUME LInv, Shutdown
  PROVE  LInv'
BY DEF Shutdown,
  LInv, AdmittedOK, PhaseOK, HarmOK, EndOK, AnnouncedOK, NothingUnapproved, PreflightDecides, Admitted, Positions, Idle

\* The cap refuses nothing, so that a round begins.
LEMMA BeginRoundKeeps ==
  ASSUME LInv, BeginRound
  PROVE  LInv'
<1>1. PICK tools \in BOOLEAN : Preflight(cfg, approved, tools)
  BY DEF BeginRound, LInv, AdmittedOK, Admitted
<1>2. ~EngineRefuses(cfg)
  BY <1>1, NotRefused DEF LInv, AdmittedOK
<1> QED
  BY <1>2 DEF BeginRound, E!Begin, LInv, AdmittedOK, PhaseOK, HarmOK, EndOK, AnnouncedOK,
    NothingUnapproved, PreflightDecides, Admitted, Positions, Idle

\* Where something is altered, or an action denied, the preflight was passed and
\* the campaign is live.
LEMMA StartStepKeeps ==
  ASSUME LInv, NEW s \in Slots, NEW m \in Modules, StartStep(s, m)
  PROVE  LInv'
<1>1. pc = "run" /\ phase = "running" /\ ~cfg.dryRun /\ cfg \in Config /\ Validate(cfg)
  BY DEF StartStep, E!Start, LInv, AdmittedOK, PhaseOK, Admitted
<1>2. PICK tools \in BOOLEAN : Preflight(cfg, approved, tools)
  BY <1>1 DEF LInv, AdmittedOK, Admitted
<1>3. UNCHANGED <<cfg, approved, pc, code, phase, late, unable, serving, report, handler, refused, stage, entries, outbox, heard>>
  BY DEF StartStep, E!Start
<1>4. AdmittedOK' /\ EndOK' /\ AnnouncedOK'
  BY <1>1, <1>3 DEF LInv, AdmittedOK, EndOK, AnnouncedOK, Admitted
<1>5. PhaseOK'
  BY <1>1, <1>3 DEF LInv, PhaseOK, StartStep, E!Start, Idle
<1>6. HarmOK'
  BY <1>3 DEF LInv, HarmOK, StartStep, E!Start
<1>7. NothingUnapproved'
  <2>1. CASE altered' = altered
    BY <1>3, <2>1 DEF LInv, NothingUnapproved
  <2>2. CASE m \in DestructiveModules(cfg) /\ ~ActionDenied(cfg, m)
    <3>1. cfg.safety.enabled => cfg.safety.allow /\ (cfg.safety.requireApproval => approved)
      BY <1>1, <1>2, <2>2, ActionApproved
    <3> QED
      BY <1>1, <1>3, <3>1 DEF NothingUnapproved
  <2> QED
    BY <2>1, <2>2 DEF StartStep
<1>8. PreflightDecides'
  <2>1. cfg.safety.failClosed => ~ActionDenied(cfg, m)
    BY <1>1, <1>2, NoneDenied
  <2>2. denied' = (denied \/ ActionDenied(cfg, m))
    BY DEF StartStep
  <2>3. refused' = refused /\ cfg' = cfg
    BY <1>3
  <2> QED
    BY <2>1, <2>2, <2>3 DEF LInv, PreflightDecides
<1> QED
  BY <1>4, <1>5, <1>6, <1>7, <1>8 DEF LInv

-----------------------------------------------------------------------------
(* The specification. *)

\* Every step keeps the invariant.
LEMMA StepKeeps ==
  ASSUME LInv, [Next]_vars
  PROVE  LInv'
<1>1. CASE UNCHANGED vars
  BY <1>1 DEF vars, LInv, AdmittedOK, PhaseOK, HarmOK, EndOK, AnnouncedOK,
    NothingUnapproved, PreflightDecides, Admitted, Idle
<1>2. CASE MainStep
  BY <1>2, LoadKeeps, AskKeeps, CheckSafetyKeeps, RegisterAllKeeps, ListenKeeps, CheckBeforeKeeps,
     EndRunKeeps, CheckAfterKeeps, BuildReportKeeps, BeginRollbackKeeps, UndoKeeps, EndRollbackKeeps,
     ShutdownKeeps
  DEF MainStep
<1>3. CASE BeginRound \/ EndRound \/ Interrupt \/ Handle \/ DeadlinePasses
  BY <1>3, BeginRoundKeeps, EndRoundKeeps, InterruptKeeps, HandleKeeps, DeadlineKeeps
<1>4. ASSUME NEW s \in Slots, ClearStep(s) \/ SlotStep(s)
      PROVE  LInv'
  BY <1>4, ClearStepKeeps, SkipStepKeeps, StartStepKeeps, EndStepKeeps, FailStepKeeps, ReportKeeps
  DEF SlotStep
<1>5. ASSUME NEW event \in Events, NEW ok \in BOOLEAN, Notify(event, ok)
      PROVE  LInv'
  BY <1>5, NotifyKeeps
<1>6. CASE Done \/ Waiting
  BY <1>1, <1>6 DEF Done, Waiting
<1> QED
  BY <1>1, <1>2, <1>3, <1>4, <1>5, <1>6 DEF Next

\* The invariant: how main came to where it is, what may be in progress there,
\* who still answers for what is altered (main.go:75-279).
THEOREM Invariance == Spec => []LInv
<1>1. Init => LInv
  BY InitOK
<1>2. LInv /\ [Next]_vars => LInv'
  BY StepKeeps
<1> QED
  BY <1>1, <1>2, PTL DEF Spec

\* Nothing is altered without permission and approval, whatever the configuration
\* (safety.go:43-78, 247-255, main.go:109-118).
THEOREM NothingIsUnapproved == Spec => []NothingUnapproved
<1>1. LInv => NothingUnapproved
  BY DEF LInv
<1> QED
  BY <1>1, Invariance, PTL

\* What the preflight let pass is not refused a round, nor, with fail_closed,
\* denied an action (safety.go:55, 98, 123, engine.go:100).
THEOREM PreflightIsFinal == Spec => []PreflightDecides
<1>1. LInv => PreflightDecides
  BY DEF LInv
<1> QED
  BY <1>1, Invariance, PTL

\* The process that ends by itself has rolled back all that could be, wherever
\* signals came (main.go:213-279).
THEOREM ExitIsGraceful == Spec => []GracefulExit
<1>1. LInv => GracefulExit
  BY DEF LInv, GracefulExit, PhaseOK, HarmOK, EndOK
<1> QED
  BY <1>1, Invariance, PTL

\* A completion that is announced is one: nothing runs and nothing is still to
\* be reported (main.go:256).
THEOREM CompletionIsFinal == Spec => []CompletedIsFinal
<1>1. LInv => CompletedIsFinal
  BY DEF LInv, CompletedIsFinal, PhaseOK, AnnouncedOK
<1> QED
  BY <1>1, Invariance, PTL

-----------------------------------------------------------------------------
(***************************************************************************)
(* The books of the campaign: what was reported is in the counters, and,   *)
(* with one step at a time, in the entries, or still with a callback that  *)
(* has not come that far.                                                  *)
(***************************************************************************)

\* how many slots are in one of the stages S, by the stages f
Pending(f, S) == Cardinality({t \in Slots : f[t] \in S})

ToCount == {"total"}
ToJudge == {"total", "verdict"}
ToEnter == {"total", "verdict", "load", "store"}

Active(s) == s \in cleared \cup running \/ ~Idle(s)

BooksTyped ==
  /\ stage \in [Slots -> Stages] /\ loaded \in [Slots -> Nat]
  /\ entries \in Nat /\ delivered \in Nat
  /\ counters \in [{"total", "success", "failed"} -> Nat]

\* what is delivered is counted or has yet to be
CountersOK ==
  cfg.metrics =>
    /\ counters.total + Pending(stage, ToCount) = delivered
    /\ counters.success + counters.failed + Pending(stage, ToJudge) = delivered

\* in turn, at most one slot has a step, or a callback, of its own
SoloOK == ~cfg.parallel => \A s, t \in Slots : Active(s) /\ Active(t) => s = t

\* and nothing comes between its load of the entries and its store
EntriesOK ==
  cfg.report /\ ~cfg.parallel =>
    /\ entries + Pending(stage, ToEnter) = delivered
    /\ \A s \in Slots : stage[s] = "store" => loaded[s] = entries

BooksOK == BooksTyped /\ CountersOK /\ SoloOK /\ EntriesOK

-----------------------------------------------------------------------------
(* How the counts change. *)

\* from f to g only slot s goes to another stage
Moves(f, g, s) ==
  /\ f \in [Slots -> Stages] /\ g \in [Slots -> Stages]
  /\ \A t \in Slots : t # s => g[t] = f[t]

\* Slots are finitely many, and so are those in some stages.
LEMMA PendingNat ==
  ASSUME NEW f, NEW S
  PROVE  /\ IsFiniteSet({t \in Slots : f[t] \in S})
         /\ Pending(f, S) \in Nat
<1>1. IsFiniteSet({t \in Slots : f[t] \in S})
  BY LifecycleAssumption, FS_Subset
<1> QED
  BY <1>1, FS_CardinalityType DEF Pending

\* When one slot leaves some stages, one less is in them.
LEMMA PendingFalls ==
  ASSUME NEW f, NEW g, NEW s \in Slots, NEW S,
         Moves(f, g, s), f[s] \in S, g[s] \notin S
  PROVE  Pending(g, S) \in Nat /\ Pending(f, S) = Pending(g, S) + 1
<1> DEFINE F == {t \in Slots : f[t] \in S}
           G == {t \in Slots : g[t] \in S}
<1>1. s \in F /\ G = F \ {s}
  BY DEF Moves
<1>2. Cardinality(G) = Cardinality(F) - 1
  <2>1. IsFiniteSet(F)
    BY PendingNat
  <2> QED
    BY <1>1, <2>1, FS_RemoveElement
<1>3. Pending(f, S) = Cardinality(F) /\ Pending(g, S) = Cardinality(G)
  BY DEF Pending
<1>4. Pending(f, S) \in Nat /\ Pending(g, S) \in Nat
  BY PendingNat
<1> HIDE DEF F, G
<1> QED
  BY <1>2, <1>3, <1>4

\* When it comes to them, one more is.
LEMMA PendingRises ==
  ASSUME NEW f, NEW g, NEW s \in Slots, NEW S,
         Moves(f, g, s), f[s] \notin S, g[s] \in S
  PROVE  Pending(f, S) \in Nat /\ Pending(g, S) = Pending(f, S) + 1
<1>1. Moves(g, f, s)
  BY DEF Moves
<1> QED
  BY <1>1, PendingFalls

\* Else as many are as before.
LEMMA PendingStays ==
  ASSUME NEW f, NEW g, NEW s \in Slots, NEW S,
         Moves(f, g, s), f[s] \in S <=> g[s] \in S
  PROVE  Pending(g, S) = Pending(f, S)
<1>1. {t \in Slots : f[t] \in S} = {t \in Slots : g[t] \in S}
  BY DEF Moves
<1> QED
  BY <1>1 DEF Pending

\* When all slots are free nothing is pending.
LEMMA NonePending ==
  ASSUME NEW f, \A s \in Slots : f[s] = "free", NEW S, "free" \notin S
  PROVE  Pending(f, S) = 0
<1>1. {t \in Slots : f[t] \in S} = {}
  OBVIOUS
<1> QED
  BY <1>1, FS_EmptySet DEF Pending

-----------------------------------------------------------------------------
(* The initial states and the steps. *)

\* At first the books are empty and nothing is pending.
LEMMA BooksInit ==
  ASSUME Init
  PROVE  BooksOK
<1>1. \A s \in Slots : stage[s] = "free"
  BY DEF Init, LedgerInit
<1>2. /\ Pending(stage, ToCount) = 0 /\ Pending(stage, ToJudge) = 0
      /\ Pending(stage, ToEnter) = 0
  BY <1>1, NonePending DEF ToCount, ToJudge, ToEnter
<1>3. BooksTyped /\ SoloOK
  BY DEF Init, LedgerInit, E!Init, BooksTyped, SoloOK, Active, Idle, Stages
<1>4. CountersOK /\ EntriesOK
  BY <1>2 DEF Init, LedgerInit, CountersOK, EntriesOK
<1> QED
  BY <1>3, <1>4 DEF BooksOK

\* A step that delivers nothing and is no callback's leaves the books alone.
LEMMA BooksRest ==
  ASSUME BooksOK, UNCHANGED <<cfg, stage, book>>, SoloOK'
  PROVE  BooksOK'
BY DEF BooksOK, BooksTyped, CountersOK, EntriesOK, book

\* Where no slot becomes active there is at most one still.
LEMMA SoloRest ==
  ASSUME SoloOK, cfg' = cfg, \A s \in Slots : Active(s)' => Active(s)
  PROVE  SoloOK'
BY DEF SoloOK

\* A slot that delivers a result is pending with everything.
LEMMA DeliverBooks ==
  ASSUME BooksOK, NEW s \in Slots, NEW ok, Deliver(s, ok), cfg' = cfg, SoloOK'
  PROVE  BooksOK'
<1>1. /\ stage[s] = "free" /\ stage' = [stage EXCEPT ![s] = "total"]
      /\ delivered' = delivered + 1
      /\ UNCHANGED <<counters, loaded, entries>>
  BY DEF Deliver, Idle
<1>2. BooksTyped' /\ stage'[s] = "total" /\ Moves(stage, stage', s)
  BY <1>1 DEF BooksOK, BooksTyped, Stages, Moves
<1>3. /\ Pending(stage, ToCount) \in Nat /\ Pending(stage', ToCount) = Pending(stage, ToCount) + 1
      /\ Pending(stage, ToJudge) \in Nat /\ Pending(stage', ToJudge) = Pending(stage, ToJudge) + 1
      /\ Pending(stage, ToEnter) \in Nat /\ Pending(stage', ToEnter) = Pending(stage, ToEnter) + 1
  <2>1. /\ stage[s] \notin ToCount /\ stage'[s] \in ToCount
        /\ stage[s] \notin ToJudge /\ stage'[s] \in ToJudge
        /\ stage[s] \notin ToEnter /\ stage'[s] \in ToEnter
    BY <1>1, <1>2 DEF ToCount, ToJudge, ToEnter
  <2>2. Pending(stage, ToCount) \in Nat /\ Pending(stage', ToCount) = Pending(stage, ToCount) + 1
    BY <2>1, <1>2, PendingRises
  <2>3. Pending(stage, ToJudge) \in Nat /\ Pending(stage', ToJudge) = Pending(stage, ToJudge) + 1
    BY <2>1, <1>2, PendingRises
  <2>4. Pending(stage, ToEnter) \in Nat /\ Pending(stage', ToEnter) = Pending(stage, ToEnter) + 1
    BY <2>1, <1>2, PendingRises
  <2> QED
    BY <2>2, <2>3, <2>4
<1>4. CountersOK'
  BY <1>1, <1>3 DEF BooksOK, BooksTyped, CountersOK
<1>5. EntriesOK'
  <2>1. \A t \in Slots : stage'[t] = "store" => stage[t] = "store"
    BY <1>1 DEF BooksOK, BooksTyped
  <2> QED
    BY <1>1, <1>3, <2>1 DEF BooksOK, BooksTyped, EntriesOK
<1> QED
  BY <1>2, <1>4, <1>5 DEF BooksOK

\* What the callback of slot s does: no other slot moves, and no slot becomes
\* active.
LEMMA OneMoves ==
  ASSUME BooksOK, NEW s \in Slots, NEW q \in Stages, ~Idle(s),
         stage' = [stage EXCEPT ![s] = q], UNCHANGED <<cfg, cleared, running>>
  PROVE  SoloOK' /\ stage'[s] = q /\ Moves(stage, stage', s)
<1>1. stage \in [Slots -> Stages]
  BY DEF BooksOK, BooksTyped
<1>2. \A t \in Slots : Active(t)' => Active(t)
  BY <1>1 DEF Active, Idle
<1>3. SoloOK'
  BY <1>2, SoloRest DEF BooksOK
<1> QED
  BY <1>1, <1>3 DEF Moves

\* A result is counted once and has its verdict and its entry before it still.
LEMMA IncTotalBooks ==
  ASSUME BooksOK, NEW s \in Slots, IncTotal(s), UNCHANGED <<cfg, cleared, running>>
  PROVE  BooksOK'
<1>1. /\ stage[s] = "total" /\ stage' = [stage EXCEPT ![s] = "verdict"]
      /\ UNCHANGED <<loaded, entries, delivered>>
  BY DEF IncTotal
<1>2. /\ counters' \in [{"total", "success", "failed"} -> Nat]
      /\ cfg.metrics => counters'.total = counters.total + 1
      /\ counters'.success = counters.success /\ counters'.failed = counters.failed
  BY DEF IncTotal, Bump, BooksOK, BooksTyped
<1>3. SoloOK' /\ stage'[s] = "verdict" /\ Moves(stage, stage', s)
  BY <1>1, OneMoves DEF Idle, Stages
<1>4. /\ Pending(stage', ToCount) \in Nat /\ Pending(stage, ToCount) = Pending(stage', ToCount) + 1
      /\ Pending(stage', ToJudge) = Pending(stage, ToJudge)
      /\ Pending(stage', ToEnter) = Pending(stage, ToEnter)
  <2>1. /\ stage[s] \in ToCount /\ stage'[s] \notin ToCount
        /\ stage[s] \in ToJudge /\ stage'[s] \in ToJudge
        /\ stage[s] \in ToEnter /\ stage'[s] \in ToEnter
    BY <1>1, <1>3 DEF ToCount, ToJudge, ToEnter
  <2>2. Pending(stage', ToCount) \in Nat /\ Pending(stage, ToCount) = Pending(stage', ToCount) + 1
    BY <2>1, <1>3, PendingFalls
  <2>3. Pending(stage', ToJudge) = Pending(stage, ToJudge)
    BY <2>1, <1>3, PendingStays
  <2>4. Pending(stage', ToEnter) = Pending(stage, ToEnter)
    BY <2>1, <1>3, PendingStays
  <2> QED
    BY <2>2, <2>3, <2>4
<1>5. BooksTyped'
  BY <1>1, <1>2, <1>3 DEF BooksOK, BooksTyped, Moves
<1>6. CountersOK'
  BY <1>1, <1>2, <1>4 DEF BooksOK, BooksTyped, CountersOK
<1>7. EntriesOK'
  BY <1>1, <1>3, <1>4 DEF BooksOK, EntriesOK, Moves
<1> QED
  BY <1>3, <1>5, <1>6, <1>7 DEF BooksOK

\* It is a success or a failure.
LEMMA IncVerdictBooks ==
  ASSUME BooksOK, NEW s \in Slots, IncVerdict(s), UNCHANGED <<cfg, cleared, running>>
  PROVE  BooksOK'
<1>1. /\ stage[s] = "verdict" /\ stage' = [stage EXCEPT ![s] = "load"]
      /\ UNCHANGED <<loaded, entries, delivered>>
  BY DEF IncVerdict
<1>2. /\ counters' \in [{"total", "success", "failed"} -> Nat]
      /\ counters'.total = counters.total
      /\ cfg.metrics =>
           \/ counters'.success = counters.success + 1 /\ counters'.failed = counters.failed
           \/ counters'.success = counters.success /\ counters'.failed = counters.failed + 1
  <2>1. CASE verdict[s]
    BY <2>1 DEF IncVerdict, Bump, BooksOK, BooksTyped
  <2>2. CASE ~verdict[s]
    BY <2>2 DEF IncVerdict, Bump, BooksOK, BooksTyped
  <2> QED
    BY <2>1, <2>2
<1>3. SoloOK' /\ stage'[s] = "load" /\ Moves(stage, stage', s)
  BY <1>1, OneMoves DEF Idle, Stages
<1>4. /\ Pending(stage', ToCount) = Pending(stage, ToCount)
      /\ Pending(stage', ToJudge) \in Nat /\ Pending(stage, ToJudge) = Pending(stage', ToJudge) + 1
      /\ Pending(stage', ToEnter) = Pending(stage, ToEnter)
  <2>1. /\ stage[s] \notin ToCount /\ stage'[s] \notin ToCount
        /\ stage[s] \in ToJudge /\ stage'[s] \notin ToJudge
        /\ stage[s] \in ToEnter /\ stage'[s] \in ToEnter
    BY <1>1, <1>3 DEF ToCount, ToJudge, ToEnter
  <2>2. Pending(stage', ToCount) = Pending(stage, ToCount)
    BY <2>1, <1>3, PendingStays
  <2>3. Pending(stage', ToJudge) \in Nat /\ Pending(stage, ToJudge) = Pending(stage', ToJudge) + 1
    BY <2>1, <1>3, PendingFalls
  <2>4. Pending(stage', ToEnter) = Pending(stage, ToEnter)
    BY <2>1, <1>3, PendingStays
  <2> QED
    BY <2>2, <2>3, <2>4
<1>5. BooksTyped'
  BY <1>1, <1>2, <1>3 DEF BooksOK, BooksTyped, Moves
<1>6. CountersOK'
  BY <1>1, <1>2, <1>4 DEF BooksOK, BooksTyped, CountersOK
<1>7. EntriesOK'
  BY <1>1, <1>3, <1>4 DEF BooksOK, EntriesOK, Moves
<1> QED
  BY <1>3, <1>5, <1>6, <1>7 DEF BooksOK

\* Another slot that is about to store has loaded what is there still.
LEMMA LoadBooks ==
  ASSUME BooksOK, NEW s \in Slots, LoadEntries(s), UNCHANGED <<cfg, cleared, running>>
  PROVE  BooksOK'
<1>1. /\ stage[s] = "load" /\ stage' = [stage EXCEPT ![s] = "store"]
      /\ loaded' = [loaded EXCEPT ![s] = entries]
      /\ UNCHANGED <<counters, entries, delivered>>
  BY DEF LoadEntries
<1>2. SoloOK' /\ stage'[s] = "store" /\ Moves(stage, stage', s)
  BY <1>1, OneMoves DEF Idle, Stages
<1>3. /\ Pending(stage', ToCount) = Pending(stage, ToCount)
      /\ Pending(stage', ToJudge) = Pending(stage, ToJudge)
      /\ Pending(stage', ToEnter) = Pending(stage, ToEnter)
  <2>1. /\ stage[s] \notin ToCount /\ stage'[s] \notin ToCount
        /\ stage[s] \notin ToJudge /\ stage'[s] \notin ToJudge
        /\ stage[s] \in ToEnter /\ stage'[s] \in ToEnter
    BY <1>1, <1>2 DEF ToCount, ToJudge, ToEnter
  <2>2. Pending(stage', ToCount) = Pending(stage, ToCount)
    BY <2>1, <1>2, PendingStays
  <2>3. Pending(stage', ToJudge) = Pending(stage, ToJudge)
    BY <2>1, <1>2, PendingStays
  <2>4. Pending(stage', ToEnter) = Pending(stage, ToEnter)
    BY <2>1, <1>2, PendingStays
  <2> QED
    BY <2>2, <2>3, <2>4
<1>4. BooksTyped'
  BY <1>1, <1>2 DEF BooksOK, BooksTyped, Moves
<1>5. CountersOK'
  BY <1>1, <1>3 DEF BooksOK, CountersOK
<1>6. EntriesOK'
  BY <1>1, <1>2, <1>3 DEF BooksOK, BooksTyped, EntriesOK, Moves
<1> QED
  BY <1>2, <1>4, <1>5, <1>6 DEF BooksOK

\* In turn, nothing came between the load and this store, and no other slot is
\* about to store.
LEMMA StoreBooks ==
  ASSUME BooksOK, NEW s \in Slots, StoreEntries(s), UNCHANGED <<cfg, cleared, running>>
  PROVE  BooksOK'
<1>1. /\ stage[s] = "store" /\ stage' = [stage EXCEPT ![s] = "send"]
      /\ entries' = IF cfg.report THEN loaded[s] + 1 ELSE entries
      /\ loaded' = [loaded EXCEPT ![s] = 0]
      /\ UNCHANGED <<counters, delivered>>
  BY DEF StoreEntries
<1>2. SoloOK' /\ stage'[s] = "send" /\ Moves(stage, stage', s)
  BY <1>1, OneMoves DEF Idle, Stages
<1>3. /\ Pending(stage', ToCount) = Pending(stage, ToCount)
      /\ Pending(stage', ToJudge) = Pending(stage, ToJudge)
      /\ Pending(stage', ToEnter) \in Nat /\ Pending(stage, ToEnter) = Pending(stage', ToEnter) + 1
  <2>1. /\ stage[s] \notin ToCount /\ stage'[s] \notin ToCount
        /\ stage[s] \notin ToJudge /\ stage'[s] \notin ToJudge
        /\ stage[s] \in ToEnter /\ stage'[s] \notin ToEnter
    BY <1>1, <1>2 DEF ToCount, ToJudge, ToEnter
  <2>2. Pending(stage', ToCount) = Pending(stage, ToCount)
    BY <2>1, <1>2, PendingStays
  <2>3. Pending(stage', ToJudge) = Pending(stage, ToJudge)
    BY <2>1, <1>2, PendingStays
  <2>4. Pending(stage', ToEnter) \in Nat /\ Pending(stage, ToEnter) = Pending(stage', ToEnter) + 1
    BY <2>1, <1>2, PendingFalls
  <2> QED
    BY <2>2, <2>3, <2>4
<1>4. BooksTyped'
  BY <1>1, <1>2 DEF BooksOK, BooksTyped, Moves
<1>5. CountersOK'
  BY <1>1, <1>3 DEF BooksOK, CountersOK
<1>6. EntriesOK'
  <2> SUFFICES ASSUME cfg.report, ~cfg.parallel
               PROVE  /\ entries' + Pending(stage', ToEnter) = delivered
                      /\ \A t \in Slots : stage'[t] # "store"
    BY <1>1 DEF EntriesOK
  <2>1. entries' = entries + 1
    BY <1>1 DEF BooksOK, BooksTyped, EntriesOK
  <2>2. entries + Pending(stage, ToEnter) = delivered /\ entries \in Nat
    BY DEF BooksOK, BooksTyped, EntriesOK
  <2>3. ASSUME NEW t \in Slots, stage'[t] = "store" PROVE FALSE
    <3>1. t # s /\ stage[t] = "store"
      BY <1>2, <2>3 DEF Moves
    <3>2. Active(s) /\ Active(t)
      BY <1>1, <3>1 DEF Active, Idle
    <3> QED
      BY <3>1, <3>2 DEF BooksOK, SoloOK
  <2> QED
    BY <1>3, <2>1, <2>2, <2>3
<1> QED
  BY <1>2, <1>4, <1>5, <1>6 DEF BooksOK

\* The callback returns with nothing pending.
LEMMA SendDoneBooks ==
  ASSUME BooksOK, NEW s \in Slots, SendDone(s), UNCHANGED <<cfg, cleared, running>>
  PROVE  BooksOK'
<1>1. /\ stage[s] = "send" /\ stage' = [stage EXCEPT ![s] = "free"]
      /\ UNCHANGED <<counters, loaded, entries, delivered>>
  BY DEF SendDone, book
<1>2. SoloOK' /\ stage'[s] = "free" /\ Moves(stage, stage', s)
  BY <1>1, OneMoves DEF Idle, Stages
<1>3. /\ Pending(stage', ToCount) = Pending(stage, ToCount)
      /\ Pending(stage', ToJudge) = Pending(stage, ToJudge)
      /\ Pending(stage', ToEnter) = Pending(stage, ToEnter)
  <2>1. /\ stage[s] \notin ToCount /\ stage'[s] \notin ToCount
        /\ stage[s] \notin ToJudge /\ stage'[s] \notin ToJudge
        /\ stage[s] \notin ToEnter /\ stage'[s] \notin ToEnter
    BY <1>1, <1>2 DEF ToCount, ToJudge, ToEnter
  <2>2. Pending(stage', ToCount) = Pending(stage, ToCount)
    BY <2>1, <1>2, PendingStays
  <2>3. Pending(stage', ToJudge) = Pending(stage, ToJudge)
    BY <2>1, <1>2, PendingStays
  <2>4. Pending(stage', ToEnter) = Pending(stage, ToEnter)
    BY <2>1, <1>2, PendingStays
  <2> QED
    BY <2>2, <2>3, <2>4
<1>4. BooksTyped'
  BY <1>1, <1>2 DEF BooksOK, BooksTyped, Moves
<1>5. CountersOK'
  BY <1>1, <1>3 DEF BooksOK, CountersOK
<1>6. EntriesOK'
  BY <1>1, <1>2, <1>3 DEF BooksOK, EntriesOK, Moves
<1> QED
  BY <1>2, <1>4, <1>5, <1>6 DEF BooksOK

-----------------------------------------------------------------------------
(* The specification. *)

USE DEF fixed, campaign, signal, health, after, harm, rounds, ledger, book, notices,
        Untouched, Steady, Goto, Exit, Send

\* A slot whose step is cleared or skipped was not active, nor, in turn, was
\* any other.
LEMMA AloneWhenFree ==
  ASSUME NEW s \in Slots, MayStep(s), ~cfg.parallel, NEW t \in Slots
  PROVE  ~Active(t)
BY DEF MayStep, Active

\* A step of a slot keeps the books in order, whatever the others do.
LEMMA SlotBooks ==
  ASSUME BooksOK, NEW s \in Slots, ClearStep(s) \/ SlotStep(s)
  PROVE  BooksOK'
<1>1. CASE ClearStep(s)
  <2>1. UNCHANGED <<cfg, stage, book, running>> /\ cleared' = cleared \cup {s} /\ MayStep(s)
    BY <1>1 DEF ClearStep, E!Clear
  <2>2. SoloOK'
    BY <2>1, AloneWhenFree DEF SoloOK, Active, Idle
  <2> QED
    BY <2>1, <2>2, BooksRest
<1>2. CASE SkipStep(s)
  <2>1. Deliver(s, TRUE) /\ MayStep(s) /\ UNCHANGED <<cfg, cleared, running>>
    BY <1>2 DEF SkipStep
  <2>2. stage \in [Slots -> Stages] /\ stage' = [stage EXCEPT ![s] = "total"]
    BY <2>1 DEF Deliver, BooksOK, BooksTyped
  <2>3. SoloOK'
    BY <2>1, <2>2, AloneWhenFree DEF SoloOK, Active, Idle
  <2> QED
    BY <2>1, <2>3, DeliverBooks
<1>3. ASSUME NEW m \in Modules, StartStep(s, m)
      PROVE  BooksOK'
  <2>1. /\ UNCHANGED <<cfg, stage, book>> /\ s \in cleared
        /\ cleared' = cleared \ {s} /\ running' = running \cup {s}
    BY <1>3 DEF StartStep, E!Start
  <2>2. \A t \in Slots : Active(t)' => Active(t)
    BY <2>1 DEF Active, Idle
  <2> QED
    BY <2>1, <2>2, SoloRest, BooksRest DEF BooksOK
<1>4. ASSUME NEW ok \in BOOLEAN, EndStep(s, ok)
      PROVE  BooksOK'
  <2>1. /\ Deliver(s, ok) /\ UNCHANGED <<cfg, cleared>>
        /\ s \in running /\ running' = running \ {s}
    BY <1>4 DEF EndStep, E!End
  <2>2. stage \in [Slots -> Stages] /\ stage' = [stage EXCEPT ![s] = "total"]
    BY <2>1 DEF Deliver, BooksOK, BooksTyped
  <2>3. \A t \in Slots : Active(t)' => Active(t)
    BY <2>1, <2>2 DEF Active, Idle
  <2> QED
    BY <2>1, <2>3, SoloRest, DeliverBooks DEF BooksOK
<1>5. CASE FailStep(s)
  <2>1. UNCHANGED <<cfg, stage, book, cleared>> /\ running' = running \ {s}
    BY <1>5 DEF FailStep, E!End
  <2>2. \A t \in Slots : Active(t)' => Active(t)
    BY <2>1 DEF Active, Idle
  <2> QED
    BY <2>1, <2>2, SoloRest, BooksRest DEF BooksOK
<1>6. CASE Report(s)
  <2>1. Callback(s) /\ UNCHANGED <<cfg, cleared, running>>
    BY <1>6 DEF Report
  <2> QED
    BY <2>1, IncTotalBooks, IncVerdictBooks, LoadBooks, StoreBooks, SendDoneBooks DEF Callback
<1> QED
  BY <1>1, <1>2, <1>3, <1>4, <1>5, <1>6 DEF SlotStep

\* So does every step.
LEMMA StepBooks ==
  ASSUME BooksOK, [Next]_vars
  PROVE  BooksOK'
<1>1. ASSUME UNCHANGED <<cfg, stage, book, cleared, running>>
      PROVE  BooksOK'
  <2>1. \A t \in Slots : Active(t)' => Active(t)
    BY <1>1 DEF Active, Idle
  <2> QED
    BY <1>1, <2>1, SoloRest, BooksRest DEF BooksOK
<1>2. CASE UNCHANGED vars
  BY <1>1, <1>2 DEF vars
<1>3. CASE MainStep
  <2>1. UNCHANGED <<cfg, stage, book, cleared, running>>
    BY <1>3 DEF MainStep, Load, Ask, Listen, EndRun, BuildReport, BeginRollback, EndRollback,
       Shutdown, CheckSafety, RegisterAll, CheckBefore, CheckAfter, Undo,
       E!BeginUndo, E!EndUndo, E!Undo
  <2> QED
    BY <1>1, <2>1
<1>4. CASE BeginRound \/ EndRound \/ Interrupt \/ Handle \/ DeadlinePasses
  <2>1. UNCHANGED <<cfg, stage, book, cleared, running>>
    BY <1>4 DEF BeginRound, EndRound, Interrupt, Handle, DeadlinePasses, E!Begin, E!Return, E!Stop
  <2> QED
    BY <1>1, <2>1
<1>5. ASSUME NEW s \in Slots, ClearStep(s) \/ SlotStep(s)
      PROVE  BooksOK'
  BY <1>5, SlotBooks
<1>6. ASSUME NEW event \in Events, NEW ok \in BOOLEAN, Notify(event, ok)
      PROVE  BooksOK'
  <2>1. UNCHANGED <<cfg, stage, book, cleared, running>>
    BY <1>6 DEF Notify, Sent
  <2> QED
    BY <1>1, <2>1
<1>7. CASE Done \/ Waiting
  BY <1>2, <1>7 DEF Done, Waiting
<1> QED
  BY <1>2, <1>3, <1>4, <1>5, <1>6, <1>7 DEF Next

\* After the campaign no callback is in progress, so that nothing is pending.
LEMMA BooksClosed ==
  ASSUME LInv, BooksOK
  PROVE  LedgerAgrees
<1> SUFFICES ASSUME pc \in {"recheck", "report", "rollback", "undo", "shutdown"}
             PROVE  /\ cfg.metrics => /\ counters.total = delivered
                                      /\ counters.success + counters.failed = delivered
                    /\ cfg.report /\ ~cfg.parallel => entries = delivered
  BY DEF LedgerAgrees
<1>1. \A s \in Slots : stage[s] = "free"
  BY DEF LInv, PhaseOK, Idle
<1>2. /\ Pending(stage, ToCount) = 0 /\ Pending(stage, ToJudge) = 0
      /\ Pending(stage, ToEnter) = 0
  BY <1>1, NonePending DEF ToCount, ToJudge, ToEnter
<1> QED
  BY <1>2 DEF BooksOK, BooksTyped, CountersOK, EntriesOK

\* However the goroutines interleaved, after the campaign the metrics count
\* every result once, as a success or as a failure, and with one step at a time
\* the report has an entry for each (main.go:145-168, report.go:68-88).
THEOREM BooksAgree == Spec => []LedgerAgrees
<1>1. Init => BooksOK
  BY BooksInit
<1>2. BooksOK /\ [Next]_vars => BooksOK'
  BY StepBooks
<1>3. LInv /\ BooksOK => LedgerAgrees
  BY BooksClosed
<1> QED
  BY <1>1, <1>2, <1>3, Invariance, PTL DEF Spec
-----------------------------------------------------------------------------
(* The comparison of the health checks. *)

\* Each endpoint is in one class, told by its health and that of its name.
LEMMA Classes ==
  ASSUME NEW i, NEW healthy
  PROVE  /\ Class(i, healthy) \in {"degraded", "still down"} <=> ~healthy[i]
         /\ Class(i, healthy) = "recovered" <=> ~BeforeOf(i) /\ healthy[i]
<1>1. CASE healthy[i] /\ BeforeOf(i)
  BY <1>1 DEF Class
<1>2. CASE healthy[i] /\ ~BeforeOf(i)
  BY <1>2 DEF Class
<1>3. CASE ~healthy[i] /\ BeforeOf(i)
  BY <1>3 DEF Class
<1>4. CASE ~healthy[i] /\ ~BeforeOf(i)
  BY <1>4 DEF Class
<1> QED
  BY <1>1, <1>2, <1>3, <1>4

\* An endpoint that shares its name with no other is compared with itself.
LEMMA OwnBefore ==
  ASSUME DOMAIN before = DOMAIN cfg.endpoints, NEW i \in DOMAIN before,
         \A j \in DOMAIN before : cfg.endpoints[j] = cfg.endpoints[i] => j = i,
         i \in Nat
  PROVE  BeforeOf(i) = before[i]
<1> DEFINE same == {j \in DOMAIN before : cfg.endpoints[j] = cfg.endpoints[i]}
           Last(j) == \A k \in same : k <= j
<1>1. same = {i}
  OBVIOUS
<1>2. Last(i)
  BY <1>1
<1>3. PICK l : l = CHOOSE j \in same : Last(j)
  OBVIOUS
<1>4. l \in same
  <2>1. \E j \in same : Last(j)
    BY <1>1, <1>2
  <2> HIDE DEF same, Last
  <2> QED
    BY <1>3, <2>1
<1>5. BeforeOf(i) = before[l]
  BY <1>3 DEF BeforeOf
<1> QED
  BY <1>1, <1>4, <1>5

LEMMA CompareCounts ==
  ASSUME cfg \in Config, before \in [DOMAIN cfg.endpoints -> BOOLEAN],
         NEW healthy \in [DOMAIN cfg.endpoints -> BOOLEAN]
  PROVE  LET out == Compare(healthy)
             N   == DOMAIN healthy
         IN  /\ out.degraded = Cardinality({i \in N : ~healthy[i]})
             /\ out.degraded + out.recovered + out.stable = Cardinality(N)
             /\ (\A i, j \in N : cfg.endpoints[i] = cfg.endpoints[j] => i = j)
                  => out.recovered = Cardinality({i \in N : ~before[i] /\ healthy[i]})
             /\ out \in [DOMAIN Nothing -> Int]
<1> DEFINE N == DOMAIN healthy
           D == {i \in N : Class(i, healthy) \in {"degraded", "still down"}}
           R == {i \in N : Class(i, healthy) \in {"recovered"}}
           d == Tally(healthy, {"degraded", "still down"})
           r == Tally(healthy, {"recovered"})
<1>1. /\ N = 1 .. Len(cfg.endpoints) /\ Len(cfg.endpoints) \in Nat
      /\ DOMAIN cfg.endpoints = N /\ DOMAIN before = N
  <2>1. cfg.endpoints \in Seq(EndpointNames)
    BY DEF Config
  <2> QED
    BY <2>1
<1>2. Len(healthy) = Len(cfg.endpoints) /\ Cardinality(N) = Len(healthy)
  <2>1. healthy \in Seq(BOOLEAN) /\ Len(healthy) = Len(cfg.endpoints)
    BY <1>1
  <2>2. Cardinality(1 .. Len(cfg.endpoints)) = Len(cfg.endpoints)
    BY <1>1, FS_Interval
  <2> QED
    BY <1>1, <2>1, <2>2
<1>3. d = Cardinality(D) /\ r = Cardinality(R) /\ d \in Nat /\ r \in Nat
  <2>1. d = Cardinality(D) /\ r = Cardinality(R)
    BY DEF Tally
  <2>2. D \subseteq 1 .. Len(cfg.endpoints) /\ R \subseteq 1 .. Len(cfg.endpoints)
    BY <1>1
  <2> HIDE DEF D, R, d, r
  <2> QED
    BY <1>1, <2>1, <2>2, CountOfSome
<1>4. /\ Compare(healthy).degraded = d /\ Compare(healthy).recovered = r
      /\ Compare(healthy).stable = Len(healthy) - d - r
      /\ Compare(healthy) = [degraded |-> d, recovered |-> r, stable |-> Len(healthy) - d - r]
  BY DEF Compare
<1>5. D = {i \in N : ~healthy[i]}
  BY Classes
<1>6. ASSUME \A i, j \in N : cfg.endpoints[i] = cfg.endpoints[j] => i = j
      PROVE  R = {i \in N : ~before[i] /\ healthy[i]}
  <2>1. ASSUME NEW i \in N
        PROVE  BeforeOf(i) = before[i]
    BY <1>1, <1>6, OwnBefore
  <2>2. ASSUME NEW i \in N
        PROVE  i \in R <=> (~before[i] /\ healthy[i])
    BY <2>1, Classes
  <2> QED
    BY <2>2
<1> HIDE DEF D, R, d, r
<1>7. d + r + (Len(healthy) - d - r) = Cardinality(N)
  BY <1>1, <1>2, <1>3
<1>8. Compare(healthy) \in [DOMAIN Nothing -> Int]
  <2>1. Len(healthy) - d - r \in Int /\ d \in Int /\ r \in Int
    BY <1>1, <1>2, <1>3
  <2>2. Len(healthy) \in Int
    BY <1>1, <1>2
  <2> QED
    BY <1>4, <2>1 DEF Nothing
<1> QED
  BY <1>3, <1>4, <1>5, <1>6, <1>7, <1>8

\* The endpoints were checked before the campaign, and the second check is
\* compared with the first.
HealthOK ==
  /\ cfg \in Config
  /\ pc \in {"load", "ask", "preflight", "register", "listen", "check", "run", "recheck"} => again = <<>>
  /\ pc \in {"run", "recheck"} => before \in [DOMAIN cfg.endpoints -> BOOLEAN]
  /\ ComparisonRight

LEMMA HealthStays ==
  ASSUME HealthOK, UNCHANGED <<cfg, before, again, outcome>>,
         \/ pc' = pc
         \/ pc' = "exited"
         \/ pc' \in {"ask", "preflight", "register", "listen", "check"}
            /\ pc \in {"load", "ask", "preflight", "register", "listen"}
         \/ pc' = "recheck" /\ pc = "run"
         \/ pc' \in {"rollback", "undo", "shutdown"}
  PROVE  HealthOK'
<1>1. ComparisonRight'
  BY DEF HealthOK, ComparisonRight
<1> QED
  BY <1>1 DEF HealthOK

LEMMA HealthKeeps ==
  ASSUME HealthOK, [Next]_vars
  PROVE  HealthOK'
<1>1. ASSUME UNCHANGED <<cfg, pc, before, again, outcome>>
      PROVE  HealthOK'
  BY <1>1, HealthStays
<1>2. CASE UNCHANGED vars \/ Done \/ Waiting
  BY <1>1, <1>2 DEF vars, Done, Waiting
<1>3. CASE \/ Load \/ Ask \/ Listen \/ EndRun \/ BuildReport \/ BeginRollback \/ EndRollback \/ Shutdown
           \/ \E ok \in BOOLEAN : CheckSafety(ok) \/ RegisterAll(ok)
  BY <1>3, HealthStays DEF Load, Ask, Listen, EndRun, BuildReport, BeginRollback, EndRollback, Shutdown,
     CheckSafety, RegisterAll
<1>4. ASSUME NEW healthy \in [DOMAIN cfg.endpoints -> BOOLEAN], CheckBefore(healthy)
      PROVE  HealthOK'
  <2>1. pc = "check" /\ pc' = "run" /\ before' = healthy /\ UNCHANGED <<cfg, again, outcome>>
    BY <1>4 DEF CheckBefore
  <2>2. again = <<>>
    BY <2>1 DEF HealthOK
  <2> QED
    BY <1>4, <2>1, <2>2 DEF HealthOK, ComparisonRight
<1>5. ASSUME NEW healthy \in [DOMAIN cfg.endpoints -> BOOLEAN], CheckAfter(healthy)
      PROVE  HealthOK'
  <2>1. /\ pc = "recheck" /\ pc' = "report" /\ again' = healthy /\ UNCHANGED <<cfg, before>>
        /\ healthy # <<>> => outcome' = Compare(healthy)
    BY <1>5 DEF CheckAfter
  <2>2. cfg \in Config /\ before \in [DOMAIN cfg.endpoints -> BOOLEAN]
    BY <2>1 DEF HealthOK
  <2>3. PICK out : out = Compare(healthy)
    OBVIOUS
  <2>4. /\ out.degraded = Cardinality({i \in DOMAIN healthy : ~healthy[i]})
        /\ out.degraded + out.recovered + out.stable = Cardinality(DOMAIN healthy)
        /\ (\A i, j \in DOMAIN healthy : cfg.endpoints[i] = cfg.endpoints[j] => i = j)
             => out.recovered = Cardinality({i \in DOMAIN healthy : ~before[i] /\ healthy[i]})
    BY <2>2, <2>3, CompareCounts
  <2>5. ComparisonRight'
    <3>1. healthy # <<>> => outcome' = out
      BY <2>1, <2>3
    <3> QED
      BY <2>1, <2>4, <3>1 DEF ComparisonRight
  <2> QED
    BY <2>1, <2>2, <2>5 DEF HealthOK
<1>6. ASSUME NEW m \in Modules, NEW ok \in BOOLEAN, Undo(m, ok)
      PROVE  HealthOK'
  BY <1>1, <1>6 DEF Undo
<1>7. CASE BeginRound \/ EndRound \/ Handle \/ DeadlinePasses
  BY <1>1, <1>7 DEF BeginRound, EndRound, Handle, DeadlinePasses
<1>8. CASE Interrupt
  BY <1>8, HealthStays DEF Interrupt
<1>9. ASSUME NEW s \in Slots, ClearStep(s) \/ SlotStep(s)
      PROVE  HealthOK'
  BY <1>1, <1>9 DEF ClearStep, SlotStep, SkipStep, StartStep, EndStep, FailStep, Report
<1>10. ASSUME NEW event \in Events, NEW ok \in BOOLEAN, Notify(event, ok)
       PROVE  HealthOK'
  BY <1>1, <1>10 DEF Notify
<1> QED
  BY <1>2, <1>3, <1>4, <1>5, <1>6, <1>7, <1>8, <1>9, <1>10 DEF Next, MainStep

\* Whatever names the endpoints have and share, the comparison counts every
\* endpoint once, as degraded those that are unhealthy now and, with names of
\* their own, as recovered those that were and are not (healthcheck.go:72-114).
THEOREM ComparisonIsRight == Spec => []ComparisonRight
<1>1. Init => HealthOK
  BY LifecycleAssumption DEF Init, HealthOK, ComparisonRight
<1>2. HealthOK /\ [Next]_vars => HealthOK'
  BY HealthKeeps
<1>3. HealthOK => ComparisonRight
  BY DEF HealthOK
<1> QED
  BY <1>1, <1>2, <1>3, PTL DEF Spec

-----------------------------------------------------------------------------
(* The types that the invariants above leave open. *)

FlagsTyped ==
  /\ cfg \in Configs /\ approved \in BOOLEAN
  /\ stopped \in BOOLEAN /\ pending \in BOOLEAN /\ serving \in BOOLEAN
  /\ late \in BOOLEAN /\ denied \in BOOLEAN /\ refused \in BOOLEAN

NumbersTyped ==
  /\ code \in {-1, 0, 1} /\ handler \in {"unset", "waiting", "returned"}
  /\ left \in 0 .. MaxSteps /\ round \in 0 .. MaxRounds /\ signals \in 0 .. MaxSignals
  /\ report \in Nat

SetsTyped ==
  /\ cleared \subseteq Slots /\ running \subseteq Slots /\ touched \subseteq Modules
  /\ unable \subseteq Modules
  /\ verdict \in [Slots -> BOOLEAN] /\ outbox \subseteq Events /\ heard \subseteq Events

ChecksTyped ==
  /\ before \in Seq(BOOLEAN) /\ again \in Seq(BOOLEAN)
  /\ outcome \in [DOMAIN Nothing -> Int]

TInv == FlagsTyped /\ NumbersTyped /\ SetsTyped /\ ChecksTyped

LEMMA TypesInit ==
  ASSUME Init
  PROVE  TInv
<1>1. FlagsTyped
  BY DEF Init, E!Init, FlagsTyped
<1>2. NumbersTyped
  <2>1. 0 \in 0 .. MaxSteps /\ 0 \in 0 .. MaxRounds /\ 0 \in 0 .. MaxSignals
    BY LifecycleAssumption
  <2> QED
    BY <2>1 DEF Init, NumbersTyped
<1>3. SetsTyped
  BY DEF Init, E!Init, LedgerInit, SetsTyped
<1>4. ChecksTyped
  <2>1. <<>> \in Seq(BOOLEAN)
    OBVIOUS
  <2>2. Nothing \in [DOMAIN Nothing -> Int]
    OBVIOUS
  <2> QED
    BY <2>1, <2>2 DEF Init, ChecksTyped
<1> QED
  BY <1>1, <1>2, <1>3, <1>4 DEF TInv

LEMMA FlagsKeep ==
  ASSUME FlagsTyped, [Next]_vars, cfg \in Config
  PROVE  FlagsTyped'
<1>1. CASE UNCHANGED vars \/ Done \/ Waiting
  BY <1>1 DEF vars, Done, Waiting, FlagsTyped
<1>2. CASE MainStep
  <2>1. UNCHANGED <<cfg, stopped, pending, denied, refused>>
    BY <1>2 DEF MainStep, Load, Ask, Listen, EndRun, BuildReport, BeginRollback, EndRollback, Shutdown,
       CheckSafety, RegisterAll, CheckBefore, CheckAfter, Undo, E!BeginUndo, E!EndUndo, E!Undo
  <2>2. approved' \in BOOLEAN
    BY <1>2 DEF MainStep, Load, Ask, Listen, EndRun, BuildReport, BeginRollback, EndRollback, Shutdown,
       CheckSafety, RegisterAll, CheckBefore, CheckAfter, Undo, FlagsTyped
  <2>3. serving' \in BOOLEAN
    <3>1. serving' \in {serving, FALSE, cfg.metrics}
      BY <1>2 DEF MainStep, Load, Ask, Listen, EndRun, BuildReport, BeginRollback, EndRollback, Shutdown,
         CheckSafety, RegisterAll, CheckBefore, CheckAfter, Undo
    <3>2. cfg.metrics \in BOOLEAN
      BY DEF Config
    <3> QED
      BY <3>1, <3>2 DEF FlagsTyped
  <2>4. late' \in BOOLEAN
    <3>1. late' = late \/ late' = (cfg.interval = "none")
      BY <1>2 DEF MainStep, Load, Ask, Listen, EndRun, BuildReport, BeginRollback, EndRollback, Shutdown,
         CheckSafety, RegisterAll, CheckBefore, CheckAfter, Undo
    <3> QED
      BY <3>1 DEF FlagsTyped
  <2> QED
    BY <2>1, <2>2, <2>3, <2>4 DEF FlagsTyped
<1>3. CASE BeginRound \/ EndRound \/ Interrupt \/ Handle \/ DeadlinePasses
  <2>1. UNCHANGED <<cfg, approved, denied>>
    BY <1>3 DEF BeginRound, EndRound, Interrupt, Handle, DeadlinePasses
  <2>2. stopped' \in {stopped, TRUE} /\ pending' \in {pending, TRUE, FALSE} /\ serving' \in {serving, FALSE}
        /\ late' \in {late, TRUE} /\ refused' \in {refused, TRUE}
    BY <1>3 DEF BeginRound, EndRound, Interrupt, Handle, DeadlinePasses, E!Begin, E!Return, E!Stop
  <2> QED
    BY <2>1, <2>2 DEF FlagsTyped
<1>4. ASSUME NEW s \in Slots, ClearStep(s) \/ SlotStep(s)
      PROVE  FlagsTyped'
  <2>1. UNCHANGED <<cfg, approved, stopped, pending, serving, late, refused>>
    BY <1>4 DEF ClearStep, SlotStep, SkipStep, StartStep, EndStep, FailStep, Report, E!Clear, E!Start, E!End
  <2>2. denied' = denied \/ \E m \in Modules : denied' = (denied \/ ActionDenied(cfg, m))
    BY <1>4 DEF ClearStep, SlotStep, SkipStep, StartStep, EndStep, FailStep, Report
  <2>3. denied' \in BOOLEAN
    BY <2>2 DEF FlagsTyped
  <2> QED
    BY <2>1, <2>3 DEF FlagsTyped
<1>5. ASSUME NEW event \in Events, NEW ok \in BOOLEAN, Notify(event, ok)
      PROVE  FlagsTyped'
  BY <1>5 DEF Notify, FlagsTyped
<1> QED
  BY <1>1, <1>2, <1>3, <1>4, <1>5 DEF Next

LEMMA NumbersKeep ==
  ASSUME NumbersTyped, entries \in Nat, [Next]_vars
  PROVE  NumbersTyped'
<1>0. MaxSteps \in Nat /\ MaxRounds \in Nat /\ MaxSignals \in Nat
  BY LifecycleAssumption
<1>1. CASE UNCHANGED vars \/ Done \/ Waiting
  BY <1>1 DEF vars, Done, Waiting, NumbersTyped
<1>2. CASE MainStep
  <2>1. /\ UNCHANGED <<left, round, signals>>
        /\ handler' \in {handler, "waiting"} /\ report' \in {report, entries}
        /\ code' \in {code, 0, 1}
    BY <1>2 DEF MainStep, Load, Ask, Listen, EndRun, BuildReport, BeginRollback, EndRollback, Shutdown,
       CheckSafety, RegisterAll, CheckBefore, CheckAfter, Undo
  <2> QED
    BY <2>1 DEF NumbersTyped
<1>3. CASE BeginRound
  <2>1. /\ UNCHANGED <<code, handler, signals, report>>
        /\ round' = round + 1 /\ round < MaxRounds /\ left' \in {left, MaxSteps}
    BY <1>3 DEF BeginRound
  <2> QED
    BY <1>0, <2>1 DEF NumbersTyped
<1>4. CASE Interrupt
  <2>1. /\ UNCHANGED <<left, round, handler, report>>
        /\ signals' = signals + 1 /\ signals < MaxSignals /\ code' \in {code, -1}
    BY <1>4 DEF Interrupt
  <2> QED
    BY <1>0, <2>1 DEF NumbersTyped
<1>5. CASE EndRound \/ Handle \/ DeadlinePasses
  <2>1. UNCHANGED <<code, left, round, signals, report>> /\ handler' \in {handler, "returned"}
    BY <1>5 DEF EndRound, Handle, DeadlinePasses
  <2> QED
    BY <2>1 DEF NumbersTyped
<1>6. ASSUME NEW s \in Slots, ClearStep(s) \/ SlotStep(s)
      PROVE  NumbersTyped'
  <2>1. UNCHANGED <<code, handler, round, signals, report>>
    BY <1>6 DEF ClearStep, SlotStep, SkipStep, StartStep, EndStep, FailStep, Report
  <2>2. left' = left \/ (left > 0 /\ left' = left - 1)
    BY <1>6 DEF ClearStep, SlotStep, SkipStep, StartStep, EndStep, FailStep, Report, MayStep
  <2> QED
    BY <1>0, <2>1, <2>2 DEF NumbersTyped
<1>7. ASSUME NEW event \in Events, NEW ok \in BOOLEAN, Notify(event, ok)
      PROVE  NumbersTyped'
  BY <1>7 DEF Notify, NumbersTyped
<1> QED
  BY <1>1, <1>2, <1>3, <1>4, <1>5, <1>6, <1>7 DEF Next

LEMMA SetsKeep ==
  ASSUME SetsTyped, [Next]_vars
  PROVE  SetsTyped'
<1>1. CASE UNCHANGED vars \/ Done \/ Waiting
  BY <1>1 DEF vars, Done, Waiting, SetsTyped
<1>2. CASE MainStep
  <2>1. /\ UNCHANGED <<cleared, running, verdict>> /\ touched' \subseteq touched
        /\ unable' \subseteq unable \cup Modules
        /\ outbox' \subseteq outbox \cup {"starting", "completed"} /\ heard' = heard
    BY <1>2 DEF MainStep, Load, Ask, Listen, EndRun, BuildReport, BeginRollback, EndRollback, Shutdown,
       CheckSafety, RegisterAll, CheckBefore, CheckAfter, Undo, E!BeginUndo, E!EndUndo, E!Undo
  <2> QED
    BY <2>1 DEF SetsTyped, Events
<1>3. CASE BeginRound \/ EndRound \/ Interrupt \/ Handle \/ DeadlinePasses
  <2>1. UNCHANGED <<cleared, running, touched, unable, verdict, outbox, heard>>
    BY <1>3 DEF BeginRound, EndRound, Interrupt, Handle, DeadlinePasses, E!Begin, E!Return, E!Stop
  <2> QED
    BY <2>1 DEF SetsTyped
<1>4. ASSUME NEW s \in Slots, ClearStep(s) \/ SlotStep(s)
      PROVE  SetsTyped'
  <2>1. /\ cleared' \subseteq cleared \cup {s} /\ running' \subseteq running \cup {s}
        /\ touched' \subseteq touched \cup Modules /\ unable' = unable
        /\ outbox' \subseteq outbox \cup {"done"} /\ heard' = heard
    BY <1>4 DEF ClearStep, SlotStep, SkipStep, StartStep, EndStep, FailStep, Report, E!Clear, E!Start, E!End,
       Deliver, Callback, IncTotal, IncVerdict, LoadEntries, StoreEntries, SendDone
  <2>2. verdict' = verdict \/ \E ok \in BOOLEAN : verdict' = [verdict EXCEPT ![s] = ok]
    BY <1>4 DEF ClearStep, SlotStep, SkipStep, StartStep, EndStep, FailStep, Report,
       Deliver, Callback, IncTotal, IncVerdict, LoadEntries, StoreEntries, SendDone
  <2>3. verdict' \in [Slots -> BOOLEAN]
    BY <2>2 DEF SetsTyped
  <2> QED
    BY <2>1, <2>3 DEF SetsTyped, Events
<1>5. ASSUME NEW event \in Events, NEW ok \in BOOLEAN, Notify(event, ok)
      PROVE  SetsTyped'
  BY <1>5 DEF Notify, Sent, SetsTyped
<1> QED
  BY <1>1, <1>2, <1>3, <1>4, <1>5 DEF Next

LEMMA ChecksKeep ==
  ASSUME ChecksTyped, HealthOK, [Next]_vars
  PROVE  ChecksTyped'
<1>0. ASSUME NEW healthy \in [DOMAIN cfg.endpoints -> BOOLEAN]
      PROVE  healthy \in Seq(BOOLEAN)
  <2>1. cfg.endpoints \in Seq(EndpointNames)
    BY DEF HealthOK, Config
  <2> QED
    BY <1>0, <2>1
<1>1. ASSUME NEW healthy \in [DOMAIN cfg.endpoints -> BOOLEAN], CheckBefore(healthy)
      PROVE  ChecksTyped'
  <2>1. before' = healthy /\ UNCHANGED <<again, outcome>>
    BY <1>1 DEF CheckBefore
  <2> QED
    BY <1>0, <2>1 DEF ChecksTyped
<1>2. ASSUME NEW healthy \in [DOMAIN cfg.endpoints -> BOOLEAN], CheckAfter(healthy)
      PROVE  ChecksTyped'
  <2>1. pc = "recheck" /\ again' = healthy /\ before' = before
        /\ outcome' = IF healthy = <<>> THEN Nothing ELSE Compare(healthy)
    BY <1>2 DEF CheckAfter
  <2>2. cfg \in Config /\ before \in [DOMAIN cfg.endpoints -> BOOLEAN]
    BY <2>1 DEF HealthOK
  <2>3. Compare(healthy) \in [DOMAIN Nothing -> Int] /\ Nothing \in [DOMAIN Nothing -> Int]
    <3>1. Compare(healthy) \in [DOMAIN Nothing -> Int]
      BY <2>2, CompareCounts
    <3> QED
      BY <3>1
  <2>4. outcome' \in [DOMAIN Nothing -> Int]
    BY <2>1, <2>3
  <2> QED
    BY <1>0, <2>1, <2>4 DEF ChecksTyped
<1>3. CASE UNCHANGED <<before, again, outcome>>
  BY <1>3 DEF ChecksTyped
<1>4. CASE \/ UNCHANGED vars \/ Done \/ Waiting
           \/ Load \/ Ask \/ Listen \/ EndRun \/ BuildReport \/ BeginRollback \/ EndRollback \/ Shutdown
           \/ (\E ok \in BOOLEAN : CheckSafety(ok) \/ RegisterAll(ok))
           \/ (\E m \in Modules, ok \in BOOLEAN : Undo(m, ok))
           \/ BeginRound \/ EndRound \/ Interrupt \/ Handle \/ DeadlinePasses
           \/ (\E s \in Slots : ClearStep(s) \/ SlotStep(s))
           \/ (\E event \in Events, ok \in BOOLEAN : Notify(event, ok))
  BY <1>3, <1>4 DEF vars, Done, Waiting, Load, Ask, Listen, EndRun, BuildReport, BeginRollback, EndRollback,
     Shutdown, CheckSafety, RegisterAll, Undo, BeginRound, EndRound, Interrupt, Handle, DeadlinePasses,
     ClearStep, SlotStep, SkipStep, StartStep, EndStep, FailStep, Report, Notify
<1> QED
  BY <1>1, <1>2, <1>4 DEF Next, MainStep

\* The variables keep their types (main.go:31-279).
THEOREM LifecycleTyped == Spec => []TypeOK
<1>1. Init => BooksOK /\ HealthOK /\ TInv
  BY BooksInit, TypesInit, LifecycleAssumption DEF Init, HealthOK, ComparisonRight
<1>2. BooksOK /\ HealthOK /\ TInv /\ [Next]_vars => (BooksOK /\ HealthOK /\ TInv)'
  <2> SUFFICES ASSUME BooksOK, HealthOK, TInv, [Next]_vars
               PROVE  BooksOK' /\ HealthOK' /\ TInv'
    OBVIOUS
  <2>1. BooksOK' /\ HealthOK'
    BY StepBooks, HealthKeeps
  <2>2. cfg \in Config /\ entries \in Nat
    BY DEF HealthOK, BooksOK, BooksTyped
  <2>3. FlagsTyped' /\ NumbersTyped' /\ SetsTyped' /\ ChecksTyped'
    BY <2>2, FlagsKeep, NumbersKeep, SetsKeep, ChecksKeep DEF TInv
  <2> QED
    BY <2>1, <2>3 DEF TInv
<1>3. LInv /\ BooksOK /\ TInv => TypeOK
  BY DEF LInv, PhaseOK, HarmOK, BooksOK, BooksTyped, TInv, FlagsTyped, NumbersTyped, SetsTyped,
     ChecksTyped, TypeOK
<1> QED
  BY <1>1, <1>2, <1>3, Invariance, PTL DEF Spec

-----------------------------------------------------------------------------
(* The process as a campaign.                                              *)

\* What a step of the process does to the engine's state the campaign does.
LEMMA StepIsCampaigns ==
  ASSUME [Next]_vars
  PROVE  [E!Next]_(E!vars)
<1>1. ASSUME NEW s \in Slots, ClearStep(s) \/ SlotStep(s)
      PROVE  E!Next \/ UNCHANGED E!vars
  <2>1. CASE ClearStep(s)
    BY <2>1 DEF ClearStep, E!Next
  <2>2. CASE SkipStep(s) \/ Report(s)
    BY <2>2 DEF SkipStep, Report, campaign, E!vars
  <2>3. CASE FailStep(s)
    BY <2>3 DEF FailStep, E!Next
  <2>4. ASSUME NEW ok \in BOOLEAN, EndStep(s, ok)
        PROVE  E!End(s)
    BY <2>4 DEF EndStep
  <2>5. ASSUME NEW m \in Modules, StartStep(s, m)
        PROVE  E!Start(s)
    BY <2>5 DEF StartStep
  <2> QED
    BY <1>1, <2>1, <2>2, <2>3, <2>4, <2>5 DEF SlotStep, E!Next
<1>2. CASE BeginRound
  BY <1>2 DEF BeginRound, campaign, E!Next, E!vars
<1>3. CASE EndRound \/ Handle
  BY <1>3 DEF EndRound, Handle, E!Next
<1>4. CASE Interrupt \/ DeadlinePasses \/ \E event \in Events, ok \in BOOLEAN : Notify(event, ok)
  BY <1>4 DEF Interrupt, DeadlinePasses, Notify, Untouched, campaign, E!vars
<1>5. CASE BeginRollback \/ EndRollback \/ \E m \in Modules, ok \in BOOLEAN : Undo(m, ok)
  BY <1>5 DEF BeginRollback, EndRollback, Undo, E!Next
<1>6. CASE Load \/ Ask \/ Listen \/ EndRun \/ BuildReport \/ Shutdown
  BY <1>6 DEF Load, Ask, Listen, EndRun, BuildReport, Shutdown, Untouched, campaign, E!vars
<1>7. CASE \E ok \in BOOLEAN : CheckSafety(ok) \/ RegisterAll(ok)
  BY <1>7 DEF CheckSafety, RegisterAll, Untouched, campaign, E!vars
<1>8. CASE \E healthy \in [DOMAIN cfg.endpoints -> BOOLEAN] : CheckBefore(healthy) \/ CheckAfter(healthy)
  BY <1>8 DEF CheckBefore, CheckAfter, campaign, E!vars
<1>9. CASE Done \/ Waiting \/ UNCHANGED vars
  BY <1>9 DEF Done, Waiting, vars, campaign, E!vars
<1> QED
  BY <1>1, <1>2, <1>3, <1>4, <1>5, <1>6, <1>7, <1>8, <1>9 DEF Next, MainStep

\* The process, whatever signals come in whatever phase, is a campaign: what it
\* does to the engine's state is a step of Campaign, which module Engine
\* implements too, or none (main.go:235, 271).
THEOREM ProcessIsCampaign == Spec => E!SafeSpec
<1>1. Init => E!Init
  BY DEF Init
<1>2. [Next]_vars => [E!Next]_(E!vars)
  BY StepIsCampaigns
<1> QED
  BY <1>1, <1>2, PTL DEF Spec, E!SafeSpec

-----------------------------------------------------------------------------
(* Why the process ends: who can move, and what is left to do.             *)

\* The guards of main's own steps, of the rounds and of the goroutines.
MainCan ==
  \/ pc \in {"load", "ask", "preflight", "register", "listen", "check", "recheck", "report", "shutdown"}
  \/ pc = "rollback" /\ phase = "idle"
  \/ pc = "undo" /\ phase = "undoing"

BetweenRounds == pc = "run" /\ phase = "idle"

EndRunCan == BetweenRounds /\ (~MoreRounds \/ (stopped /\ (round > 0 \/ cfg.mode = "cron")))

BeginRoundCan == BetweenRounds /\ MoreRounds /\ round < MaxRounds

EndRoundCan == phase = "running" /\ cleared = {} /\ running = {} /\ \A s \in Slots : Idle(s)

SlotCan(s) == (s \in cleared /\ cfg.enabled # {}) \/ s \in running \/ ~Idle(s)

\* the bound of the rounds is reached by a campaign without an end, which waits
\* for a signal
WaitsForSignal == BetweenRounds /\ MoreRounds /\ round = MaxRounds /\ ~EndRunCan

\* Only an experiment that is enabled is cleared to start.
SomethingEnabled == cleared # {} => cfg.enabled # {}

LEMMA EnabledStays ==
  ASSUME SomethingEnabled, [Next]_vars
  PROVE  SomethingEnabled'
<1>1. CASE \E s \in Slots : ClearStep(s)
  BY <1>1 DEF ClearStep, MayStep, SomethingEnabled
<1>2. ASSUME NEW s \in Slots, SlotStep(s)
      PROVE  cfg' = cfg /\ cleared' \subseteq cleared
  BY <1>2 DEF SlotStep, SkipStep, StartStep, EndStep, FailStep, Report, E!Start, E!End
<1>3. CASE ~(\E s \in Slots : ClearStep(s)) /\ ~(\E s \in Slots : SlotStep(s))
  <2>1. cfg' = cfg /\ cleared' = cleared
    <3>1. CASE MainStep
      BY <3>1 DEF MainStep, Load, Ask, Listen, EndRun, BuildReport, BeginRollback, EndRollback, Shutdown,
         CheckSafety, RegisterAll, CheckBefore, CheckAfter, Undo, E!BeginUndo, E!EndUndo, E!Undo
    <3>2. CASE BeginRound \/ EndRound \/ Interrupt \/ Handle \/ DeadlinePasses
      BY <3>2 DEF BeginRound, EndRound, Interrupt, Handle, DeadlinePasses, E!Begin, E!Return, E!Stop
    <3>3. CASE Done \/ Waiting \/ UNCHANGED vars
      BY <3>3 DEF Done, Waiting, vars
    <3>4. CASE \E event \in Events, ok \in BOOLEAN : Notify(event, ok)
      BY <3>4 DEF Notify
    <3> QED
      BY <1>3, <3>1, <3>2, <3>3, <3>4 DEF Next
  <2> QED
    BY <2>1 DEF SomethingEnabled
<1> QED
  BY <1>1, <1>2, <1>3 DEF SomethingEnabled

\* Until the process has ended main, the scheduler or a goroutine can move,
\* signals or not, unless a campaign without an end waits for one: no phase
\* waits for what does not come (main.go:75-279).
THEOREM ProcessIsNeverStuck ==
  Spec => [](pc # "exited" =>
               \/ MainCan \/ BeginRoundCan \/ EndRoundCan \/ EndRunCan
               \/ \E s \in Slots : SlotCan(s)
               \/ WaitsForSignal)
<1>1. Init => SomethingEnabled
  BY DEF Init, E!Init, SomethingEnabled
<1>2. ASSUME LInv, TypeOK, SomethingEnabled, pc # "exited", pc = "run"
      PROVE  \/ BeginRoundCan \/ EndRoundCan \/ EndRunCan
             \/ \E s \in Slots : SlotCan(s)
             \/ WaitsForSignal
  <2>1. CASE phase = "running"
    <3>1. cleared \subseteq Slots /\ running \subseteq Slots
      BY <1>2 DEF TypeOK
    <3> QED
      BY <1>2, <2>1, <3>1 DEF EndRoundCan, SlotCan, SomethingEnabled
  <2>2. CASE phase = "idle"
    <3>1. round < MaxRounds \/ round = MaxRounds
      BY <1>2, LifecycleAssumption DEF TypeOK
    <3> QED
      BY <1>2, <2>2, <3>1 DEF BetweenRounds, BeginRoundCan, EndRunCan, WaitsForSignal
  <2>3. phase \in {"running", "idle"}
    BY <1>2 DEF LInv, PhaseOK
  <2> QED
    BY <2>1, <2>2, <2>3
<1>3. ASSUME LInv, pc # "exited", pc # "run"
      PROVE  MainCan
  BY <1>3 DEF LInv, PhaseOK, Positions, MainCan
<1>4. LInv /\ TypeOK /\ SomethingEnabled =>
        (pc # "exited" => \/ MainCan \/ BeginRoundCan \/ EndRoundCan \/ EndRunCan
                          \/ \E s \in Slots : SlotCan(s)
                          \/ WaitsForSignal)
  BY <1>2, <1>3
<1> QED
  BY <1>1, <1>4, EnabledStays, Invariance, LifecycleTyped, PTL DEF Spec

\* main's way to its end, with the Rollbacks still to make where they are made
Rank(p) ==
  CASE p = "load"     -> 12 [] p = "ask"    -> 11 [] p = "preflight" -> 10
    [] p = "register" ->  9 [] p = "listen" ->  8 [] p = "check"     ->  7
    [] p = "run"      ->  6 [] p = "recheck" -> 5 [] p = "report"    ->  4
    [] p = "rollback" ->  3 [] p = "undo"   ->  2 [] p = "shutdown"  ->  1
    [] OTHER          ->  0

ToUndo == IF pc = "undo" THEN Cardinality(touched) ELSE 0

MainLeft == 7 * Rank(pc) + ToUndo

\* what the goroutine in a slot has left to do: its Run, then the callback
CallbackLeft(s) ==
  CASE stage[s] = "total" -> 5 [] stage[s] = "verdict" -> 4 [] stage[s] = "load" -> 3
    [] stage[s] = "store" -> 2 [] stage[s] = "send"    -> 1 [] OTHER             -> 0

SlotLeft(s) ==
  (IF s \in cleared THEN 7 ELSE 0) + (IF s \in running THEN 6 ELSE 0) + CallbackLeft(s)

LEMMA TouchedCounts ==
  ASSUME NEW S \in SUBSET Modules
  PROVE  IsFiniteSet(S) /\ Cardinality(S) \in 0 .. 6
<1>1. IsFiniteSet(Modules) /\ Cardinality(Modules) <= 6
  <2> DEFINE T(n) == CASE n = 1 -> "kubernetes" [] n = 2 -> "http" [] n = 3 -> "grpc"
                       [] n = 4 -> "mq" [] n = 5 -> "network" [] OTHER -> "stress"
             f == [n \in 1 .. 6 |-> T(n)]
  <2>1. IsFiniteSet(1 .. 6) /\ Cardinality(1 .. 6) = 6
    <3>1. \A n \in Nat : n > 0 => IsFiniteSet(1 .. n) /\ Cardinality(1 .. n) = n
      BY FS_Interval
    <3>2. 6 \in Nat /\ 6 > 0
      OBVIOUS
    <3> QED
      BY <3>1, <3>2, Zenon
  <2>2. f \in Surjection(1 .. 6, Modules)
    <3>1. f \in [1 .. 6 -> Modules]
      BY DEF Modules
    <3>2. \A m \in Modules : \E n \in 1 .. 6 : f[n] = m
      <4>1. f[1] = "kubernetes" /\ f[2] = "http" /\ f[3] = "grpc" /\ f[4] = "mq" /\ f[5] = "network" /\ f[6] = "stress"
        OBVIOUS
      <4> QED
        BY <4>1 DEF Modules
    <3> QED
      BY <3>1, <3>2 DEF Surjection
  <2> QED
    BY <2>1, <2>2, FS_Surjection
<1>2. IsFiniteSet(S) /\ Cardinality(S) <= Cardinality(Modules)
  BY <1>1, FS_Subset
<1> QED
  BY <1>1, <1>2, FS_CardinalityType

LEMMA LeftTyped ==
  ASSUME TypeOK
  PROVE  /\ MainLeft \in Nat /\ Rank(pc) \in Nat /\ ToUndo \in 0 .. 6
         /\ \A s \in Slots : SlotLeft(s) \in Nat /\ CallbackLeft(s) \in Nat
<1>1. Rank(pc) \in Nat
  BY DEF Rank
<1>2. ToUndo \in 0 .. 6
  BY TouchedCounts DEF TypeOK, ToUndo
<1>3. \A s \in Slots : CallbackLeft(s) \in Nat
  BY DEF CallbackLeft
<1>4. \A s \in Slots : SlotLeft(s) \in Nat
  BY <1>3 DEF SlotLeft
<1> QED
  BY <1>1, <1>2, <1>3, <1>4 DEF MainLeft

\* Every step of main brings it on.
LEMMA MainAdvances ==
  ASSUME TypeOK, LInv, MainStep, TypeOK'
  PROVE  MainLeft' < MainLeft /\ UNCHANGED <<left, round, cleared, running, stage>>
<1>1. UNCHANGED <<left, round, cleared, running, stage>>
  BY DEF MainStep, Load, Ask, Listen, EndRun, BuildReport, BeginRollback, EndRollback, Shutdown,
     CheckSafety, RegisterAll, CheckBefore, CheckAfter, Undo, E!BeginUndo, E!EndUndo, E!Undo
<1>2. CASE \E m \in Modules, ok \in BOOLEAN : Undo(m, ok)
  <2>1. PICK m \in Modules : m \in touched /\ touched' = touched \ {m} /\ pc = "undo" /\ pc' = pc
    BY <1>2 DEF Undo, E!Undo
  <2>2. Cardinality(touched') < Cardinality(touched)
    <3>1. IsFiniteSet(touched) /\ Cardinality(touched) \in Nat
      <4>1. touched \in SUBSET Modules
        BY DEF TypeOK
      <4> QED
        BY <4>1, TouchedCounts
    <3> QED
      BY <2>1, <3>1, FS_RemoveElement
  <2>3. ToUndo' < ToUndo /\ Rank(pc') = Rank(pc)
    BY <2>1, <2>2 DEF ToUndo
  <2>4. ToUndo' \in Int /\ ToUndo \in Int /\ Rank(pc) \in Nat
    <3>1. touched \in SUBSET Modules /\ touched' \in SUBSET Modules
      BY DEF TypeOK
    <3>2. ToUndo \in 0 .. 6 /\ ToUndo' \in 0 .. 6
      BY <3>1, TouchedCounts DEF ToUndo
    <3> QED
      BY <3>2, LeftTyped
  <2>5. Rank(pc)' = Rank(pc)
    BY <2>1 DEF Rank
  <2> QED
    BY <1>1, <2>3, <2>4, <2>5 DEF MainLeft
<1>3. CASE ~(\E m \in Modules, ok \in BOOLEAN : Undo(m, ok))
  <2>1. Rank(pc') < Rank(pc)
    BY <1>3 DEF MainStep, Load, Ask, Listen, EndRun, BuildReport, BeginRollback, EndRollback, Shutdown,
       CheckSafety, RegisterAll, CheckBefore, CheckAfter, Rank
  <2>2. ToUndo' \in 0 .. 6 /\ ToUndo \in 0 .. 6 /\ Rank(pc) \in Nat /\ Rank(pc') \in Nat
    <3>1. touched \in SUBSET Modules /\ touched' \in SUBSET Modules
      BY DEF TypeOK
    <3>2. ToUndo \in 0 .. 6 /\ ToUndo' \in 0 .. 6
      BY <3>1, TouchedCounts DEF ToUndo
    <3> QED
      BY <3>2 DEF Rank
  <2>3. 7 * Rank(pc') + ToUndo' < 7 * Rank(pc) + ToUndo
    BY <2>1, <2>2
  <2> QED
    BY <1>1, <2>3 DEF MainLeft, Rank
<1> QED
  BY <1>2, <1>3

\* A goroutine's step brings it on, and one that starts is one of those left.
LEMMA SlotAdvances ==
  ASSUME TypeOK, NEW s \in Slots, ClearStep(s) \/ SlotStep(s)
  PROVE  /\ IF ClearStep(s) \/ SkipStep(s) THEN left' = left - 1
            ELSE left' = left /\ SlotLeft(s)' < SlotLeft(s)
         /\ \A t \in Slots \ {s} : SlotLeft(t)' = SlotLeft(t)
         /\ UNCHANGED <<pc, round, phase>>
<1>0. stage \in [Slots -> Stages]
  BY DEF TypeOK
<1>1. UNCHANGED <<pc, round, phase>>
  BY DEF ClearStep, SlotStep, SkipStep, StartStep, EndStep, FailStep, Report, E!Clear, E!Start, E!End
<1>2. \A t \in Slots \ {s} : /\ t \in cleared' <=> t \in cleared
                             /\ t \in running' <=> t \in running
                             /\ stage'[t] = stage[t]
  <2>1. CASE ClearStep(s)
    BY <2>1 DEF ClearStep, E!Clear
  <2>2. CASE SkipStep(s)
    BY <1>0, <2>2 DEF SkipStep, Deliver
  <2>3. ASSUME NEW m \in Modules, StartStep(s, m)
        PROVE  \A t \in Slots \ {s} : /\ t \in cleared' <=> t \in cleared
                                      /\ t \in running' <=> t \in running
                                      /\ stage'[t] = stage[t]
    BY <2>3 DEF StartStep, E!Start
  <2>4. ASSUME NEW ok \in BOOLEAN, EndStep(s, ok)
        PROVE  \A t \in Slots \ {s} : /\ t \in cleared' <=> t \in cleared
                                      /\ t \in running' <=> t \in running
                                      /\ stage'[t] = stage[t]
    BY <1>0, <2>4 DEF EndStep, E!End, Deliver
  <2>5. CASE FailStep(s)
    BY <2>5 DEF FailStep, E!End
  <2>6. CASE Report(s)
    BY <1>0, <2>6 DEF Report, Callback, IncTotal, IncVerdict, LoadEntries, StoreEntries, SendDone
  <2> QED
    BY <2>1, <2>2, <2>3, <2>4, <2>5, <2>6 DEF SlotStep
<1>3. \A t \in Slots \ {s} : SlotLeft(t)' = SlotLeft(t)
  BY <1>2 DEF SlotLeft, CallbackLeft
<1>4. ASSUME ~ClearStep(s), ~SkipStep(s)
      PROVE  left' = left /\ SlotLeft(s)' < SlotLeft(s)
  <2>1. ASSUME NEW m \in Modules, StartStep(s, m)
        PROVE  left' = left /\ SlotLeft(s)' < SlotLeft(s)
    <3>1. left' = left /\ stage' = stage /\ s \in cleared /\ s \notin cleared' /\ s \in running'
      BY <2>1 DEF StartStep, E!Start
    <3>2. CallbackLeft(s)' = CallbackLeft(s) /\ CallbackLeft(s) \in Nat
      BY <3>1 DEF CallbackLeft
    <3> QED
      BY <3>1, <3>2 DEF SlotLeft
  <2>2. ASSUME NEW ok \in BOOLEAN, EndStep(s, ok)
        PROVE  left' = left /\ SlotLeft(s)' < SlotLeft(s)
    <3>1. left' = left /\ cleared' = cleared /\ s \in running /\ s \notin running'
          /\ stage[s] = "free" /\ stage'[s] = "total"
      BY <1>0, <2>2 DEF EndStep, E!End, Deliver, Idle
    <3>2. CallbackLeft(s)' = 5 /\ CallbackLeft(s) = 0
      BY <3>1 DEF CallbackLeft
    <3> QED
      BY <3>1, <3>2 DEF SlotLeft
  <2>3. CASE FailStep(s)
    <3>1. left' = left /\ cleared' = cleared /\ s \in running /\ s \notin running' /\ stage' = stage
      BY <2>3 DEF FailStep, E!End
    <3>2. CallbackLeft(s)' = CallbackLeft(s) /\ CallbackLeft(s) \in Nat
      BY <3>1 DEF CallbackLeft
    <3> QED
      BY <3>1, <3>2 DEF SlotLeft
  <2>4. CASE Report(s)
    <3>1. left' = left /\ cleared' = cleared /\ running' = running
      BY <2>4 DEF Report
    <3>2. \/ stage[s] = "total" /\ stage'[s] = "verdict"
          \/ stage[s] = "verdict" /\ stage'[s] = "load"
          \/ stage[s] = "load" /\ stage'[s] = "store"
          \/ stage[s] = "store" /\ stage'[s] = "send"
          \/ stage[s] = "send" /\ stage'[s] = "free"
      BY <1>0, <2>4 DEF Report, Callback, IncTotal, IncVerdict, LoadEntries, StoreEntries, SendDone
    <3>3. CallbackLeft(s)' = CallbackLeft(s) - 1 /\ CallbackLeft(s) \in Nat
      BY <3>2 DEF CallbackLeft
    <3> QED
      BY <3>1, <3>3 DEF SlotLeft
  <2> QED
    BY <1>4, <2>1, <2>2, <2>3, <2>4 DEF SlotStep
<1>5. ClearStep(s) \/ SkipStep(s) => left' = left - 1
  BY DEF ClearStep, SkipStep
<1> QED
  BY <1>1, <1>3, <1>4, <1>5

\* What is not a step of main or a goroutine gives neither of them more to do,
\* but for the rounds, of which each is one less to come.
LEMMA OthersAddNothing ==
  ASSUME TypeOK, LInv, NEW event \in Events, NEW ok \in BOOLEAN,
         BeginRound \/ EndRound \/ Interrupt \/ Handle \/ DeadlinePasses \/ Notify(event, ok)
  PROVE  /\ UNCHANGED <<cleared, running, stage>>
         /\ MainLeft' <= MainLeft
         /\ IF BeginRound THEN round' = round + 1 ELSE UNCHANGED <<round, left>>
<1>1. UNCHANGED <<cleared, running, stage, touched>>
  BY DEF BeginRound, EndRound, Interrupt, Handle, DeadlinePasses, Notify, Sent, E!Begin, E!Return, E!Stop
<1>2. pc' = pc \/ pc' = "exited"
  BY DEF BeginRound, EndRound, Interrupt, Handle, DeadlinePasses, Notify
<1>3. MainLeft' <= MainLeft
  <2>1. CASE pc' = pc
    BY <1>1, <2>1, LeftTyped DEF MainLeft, ToUndo, Rank
  <2>2. CASE pc' = "exited"
    <3>1. MainLeft' = 0
      BY <2>2 DEF MainLeft, ToUndo, Rank
    <3> QED
      BY <3>1, LeftTyped
  <2> QED
    BY <1>2, <2>1, <2>2
<1>4. IF BeginRound THEN round' = round + 1 ELSE UNCHANGED <<round, left>>
  BY DEF BeginRound, EndRound, Interrupt, Handle, DeadlinePasses, Notify
<1> QED
  BY <1>1, <1>3, <1>4

LEMMA SlotLeavesMain ==
  ASSUME TypeOK, LInv, NEW s \in Slots, ClearStep(s) \/ SlotStep(s)
  PROVE  MainLeft' = MainLeft
<1>1. pc' = pc
  BY SlotAdvances
<1>2. CASE touched' = touched
  BY <1>1, <1>2 DEF MainLeft, ToUndo, Rank
<1>3. CASE \E m \in Modules : StartStep(s, m)
  <2>1. s \in cleared
    BY <1>3 DEF StartStep, E!Start
  <2>2. pc = "run"
    BY <2>1 DEF LInv, PhaseOK
  <2> QED
    BY <1>1, <2>2 DEF MainLeft, ToUndo, Rank
<1>4. touched' = touched \/ \E m \in Modules : StartStep(s, m)
  BY DEF ClearStep, SlotStep, SkipStep, EndStep, FailStep, Report, E!Clear, E!End
<1> QED
  BY <1>2, <1>3, <1>4

\* The process gets on: every step of main brings it nearer to its end and no
\* other step takes it back; in a round every step that is begun is one less to
\* begin, and what is begun comes nearer to its callback's return with every
\* step of its goroutine; only a further round brings new ones
\* (main.go:75-279).
THEOREM ProcessGetsOn ==
  Spec =>
    /\ [](MainLeft \in Nat /\ \A s \in Slots : SlotLeft(s) \in Nat)
    /\ [][/\ IF MainStep THEN MainLeft' < MainLeft ELSE MainLeft' <= MainLeft
          /\ \A s \in Slots :
               CASE ClearStep(s) \/ SkipStep(s) -> left' < left
                 [] ~ClearStep(s) /\ ~SkipStep(s) /\ SlotStep(s) -> SlotLeft(s)' < SlotLeft(s)
                 [] OTHER -> SlotLeft(s)' = SlotLeft(s)
          /\ left' <= left \/ BeginRound
          /\ IF BeginRound THEN round' = round + 1 ELSE round' = round]_vars
<1> DEFINE SlotOn(s) ==
             CASE ClearStep(s) \/ SkipStep(s) -> left' < left
               [] ~ClearStep(s) /\ ~SkipStep(s) /\ SlotStep(s) -> SlotLeft(s)' < SlotLeft(s)
               [] OTHER -> SlotLeft(s)' = SlotLeft(s)
           On == /\ IF MainStep THEN MainLeft' < MainLeft ELSE MainLeft' <= MainLeft
                 /\ \A s \in Slots : SlotOn(s)
                 /\ left' <= left \/ BeginRound
                 /\ IF BeginRound THEN round' = round + 1 ELSE round' = round
<1>1. ASSUME LInv, TypeOK, TypeOK', Next
      PROVE  On \/ UNCHANGED vars
  <2>0. left \in Nat /\ MainLeft \in Nat
    <3>1. left \in Nat
      BY <1>1, LifecycleAssumption DEF TypeOK
    <3> QED
      BY <1>1, <3>1, LeftTyped
  <2>1. ASSUME NEW s \in Slots, ClearStep(s) \/ SlotStep(s)
        PROVE  SlotOn(s)
    BY <1>1, <2>0, <2>1, SlotAdvances
  <2>2. ASSUME NEW s \in Slots, ~ClearStep(s), ~SlotStep(s), SlotLeft(s)' = SlotLeft(s)
        PROVE  SlotOn(s)
    BY <2>2 DEF SlotStep
  <2>3. BeginRound => ~MainStep
    BY <1>1 DEF MainStep, Load, Ask, Listen, EndRun, BuildReport, BeginRollback, EndRollback, Shutdown,
       CheckSafety, RegisterAll, CheckBefore, CheckAfter, Undo, BeginRound, LInv, PhaseOK
  <2>4. ASSUME NEW s \in Slots, ClearStep(s) \/ SlotStep(s)
        PROVE  On
    <3>1. MainLeft' = MainLeft /\ left' <= left /\ pc' = pc /\ phase' = phase /\ round' = round
      BY <1>1, <2>0, <2>4, SlotLeavesMain, SlotAdvances
    <3>2. ~MainStep
      BY <1>1, <2>0, <3>1, MainAdvances
    <3>3. ~BeginRound
      BY <1>1, <3>1, LifecycleAssumption DEF BeginRound, TypeOK
    <3>4. \A t \in Slots : SlotOn(t)
      <4>1. ASSUME NEW t \in Slots, t # s, ~ClearStep(t), ~SlotStep(t)
            PROVE  SlotOn(t)
        BY <1>1, <2>2, <2>4, <4>1, SlotAdvances
      <4> QED
        BY <2>1, <2>4, <4>1
    <3> HIDE DEF SlotOn
    <3> QED
      BY <2>0, <3>1, <3>2, <3>3, <3>4
  <2>5. ASSUME UNCHANGED <<cleared, running, stage>>, \A s \in Slots : ~ClearStep(s) /\ ~SlotStep(s)
        PROVE  \A s \in Slots : SlotOn(s)
    <3>1. \A s \in Slots : SlotLeft(s)' = SlotLeft(s)
      BY <2>5 DEF SlotLeft, CallbackLeft
    <3> QED
      BY <2>2, <2>5, <3>1
  <2> HIDE DEF SlotOn
  <2>6. CASE MainStep /\ \A s \in Slots : ~ClearStep(s) /\ ~SlotStep(s)
    <3>1. MainLeft' < MainLeft /\ UNCHANGED <<left, round, cleared, running, stage>>
      BY <1>1, <2>6, MainAdvances
    <3> QED
      BY <2>0, <2>3, <2>5, <2>6, <3>1
  <2>7. CASE /\ ~MainStep /\ \A s \in Slots : ~ClearStep(s) /\ ~SlotStep(s)
             /\ \/ BeginRound \/ EndRound \/ Interrupt \/ Handle \/ DeadlinePasses
                \/ \E event \in Events, ok \in BOOLEAN : Notify(event, ok)
    <3>1. /\ UNCHANGED <<cleared, running, stage>>
          /\ MainLeft' <= MainLeft
          /\ IF BeginRound THEN round' = round + 1 ELSE UNCHANGED <<round, left>>
      <4>1. "starting" \in Events /\ TRUE \in BOOLEAN
        BY DEF Events
      <4> QED
        BY <1>1, <2>7, <4>1, OthersAddNothing
    <3> QED
      BY <2>0, <2>5, <2>7, <3>1
  <2> QED
    BY <1>1, <2>4, <2>6, <2>7 DEF Next, Done, Waiting
<1>2. TypeOK => MainLeft \in Nat /\ \A s \in Slots : SlotLeft(s) \in Nat
  BY LeftTyped
<1>3. LInv /\ TypeOK /\ TypeOK' /\ [Next]_vars => [On]_vars
  BY <1>1
<1> HIDE DEF On
<1>4. Spec => [](MainLeft \in Nat /\ \A s \in Slots : SlotLeft(s) \in Nat) /\ [][On]_vars
  BY <1>2, <1>3, Invariance, LifecycleTyped, PTL DEF Spec
<1> QED
  BY <1>4 DEF On
=============================================================================
