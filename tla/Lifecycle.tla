----------------------------- MODULE Lifecycle -----------------------------
(***************************************************************************)
(* main.go from the loaded configuration to the end of the process: the    *)
(* decisions of module Safety, the registration, the signal handler, the   *)
(* rounds of the scheduler, the callbacks of module Ledger, health checks, *)
(* report, rollback and shutdown.  What the engine does in a round is what *)
(* module Campaign promises of it, and its actions are those of Campaign   *)
(* with their effects on the rest of the process added.                    *)
(***************************************************************************)
EXTENDS Ledger

CONSTANTS
  Configs,    \* configurations the process may be started with
  MaxSteps,   \* bound: Runs, dry or not, in a RunAll
  MaxRounds,  \* bound: rounds when the configuration has no limit
  MaxSignals  \* bound: SIGINTs and SIGTERMs

ASSUME LifecycleAssumption ==
  /\ Configs \subseteq Config /\ IsFiniteSet(Slots)
  /\ MaxSteps \in Nat /\ MaxRounds \in Nat /\ MaxSignals \in Nat

VARIABLES
  pc,        \* where main is
  code,      \* the exit code, -1 when a signal killed the process
  approved,  \* the local of that name
  phase, cleared, running, stopped, touched,  \* the campaign; stopped: ctx is done
  left,      \* steps the RunAll in progress may still make
  round,     \* rounds so far
  handler,   \* of the signals: "unset", "waiting" or "returned"
  pending,   \* a signal is in sigCh
  signals,   \* signals so far
  serving,   \* the metrics server is up
  before,    \* beforeHealth: which endpoints were healthy
  again,     \* afterHealth
  outcome,   \* what CompareResults counts
  report,    \* the total of the report, once it is built
  late,      \* rollbackCtx is done
  altered,   \* history: modules that left something altered
  unable,    \* history: modules whose Rollback failed with time left
  denied,    \* history: the policy refused an action of a Run
  refused    \* history: the engine's cap refused a round

E == INSTANCE Campaign WITH Exps <- Modules

campaign == <<phase, cleared, running, stopped, touched>>
signal   == <<handler, pending, signals>>
health   == <<before, again, outcome>>
after    == <<report, late, unable>>
harm     == <<altered, denied>>
rounds   == <<left, round, refused>>
fixed    == <<cfg, approved>>
vars     == <<fixed, pc, code, campaign, signal, serving, health, after, harm, rounds, ledger>>

Positions == {"load", "ask", "preflight", "register", "listen", "check", "run", "recheck",
              "report", "rollback", "undo", "shutdown", "exited"}

Nothing == [degraded |-> 0, recovered |-> 0, stable |-> 0]

\* approved is the -approve flag at first
Init ==
  /\ cfg \in Configs
  /\ approved \in BOOLEAN
  /\ pc = "load" /\ code = 0
  /\ E!Init
  /\ handler = "unset" /\ pending = FALSE /\ signals = 0
  /\ serving = FALSE
  /\ before = <<>> /\ again = <<>> /\ outcome = Nothing
  /\ report = 0 /\ late = FALSE /\ unable = {}
  /\ altered = {} /\ denied = FALSE
  /\ left = 0 /\ round = 0 /\ refused = FALSE
  /\ LedgerInit

-----------------------------------------------------------------------------
(* Before the campaign.  Exit is os.Exit: nothing deferred is run, and the *)
(* goroutines still sending are cut off.                                   *)

Goto(p) == pc' = p /\ code' = code

Exit(n) == pc' = "exited" /\ code' = n /\ serving' = FALSE

Untouched == UNCHANGED <<cfg, campaign, health, after, harm, rounds, ledger>>

Load ==
  /\ pc = "load"
  /\ IF Validate(cfg) /\ PolicyCompiles(cfg)
     THEN Goto("ask") /\ UNCHANGED serving ELSE Exit(1)
  /\ UNCHANGED <<approved, signal>> /\ Untouched

\* promptForApproval says no by itself when there is no terminal
Ask ==
  /\ pc = "ask"
  /\ approved' \in IF ~approved /\ Asks(cfg) THEN BOOLEAN ELSE {approved}
  /\ Goto("preflight")
  /\ UNCHANGED <<serving, signal>> /\ Untouched

CheckSafety(tools) ==
  /\ pc = "preflight"
  /\ IF Preflight(cfg, approved, tools)
     THEN Goto("register") /\ serving' = cfg.metrics ELSE Exit(1)
  /\ UNCHANGED <<approved, signal>> /\ Untouched

\* only a Kubernetes client may fail to be made
RegisterAll(ok) ==
  /\ pc = "register"
  /\ ~ok => Has(cfg, "kubernetes")
  /\ IF ok THEN Goto("listen") /\ UNCHANGED serving ELSE Exit(1)
  /\ UNCHANGED <<approved, signal>> /\ Untouched

Listen ==
  /\ pc = "listen"
  /\ handler' = "waiting" /\ Goto("check")
  /\ UNCHANGED <<approved, serving, pending, signals>> /\ Untouched

(* Signals: before Listen one kills the process, then sigCh holds one, and *)
(* the handler takes one only.                                             *)

Interrupt ==
  /\ pc # "exited" /\ signals < MaxSignals
  /\ signals' = signals + 1
  /\ IF handler = "unset" THEN Exit(-1) /\ UNCHANGED pending
     ELSE Goto(pc) /\ pending' = TRUE /\ UNCHANGED serving
  /\ UNCHANGED <<approved, handler>> /\ Untouched

Handle ==
  /\ pc # "exited" /\ handler = "waiting" /\ pending
  /\ handler' = "returned" /\ pending' = FALSE
  /\ E!Stop
  /\ UNCHANGED <<fixed, pc, code, signals, serving, health, after, harm, rounds, ledger>>

-----------------------------------------------------------------------------
(* The campaign. *)

Steady == UNCHANGED <<fixed, pc, code, signal, serving, health, after>>

\* a probe whose context is done finds its endpoint unhealthy
CheckBefore(healthy) ==
  /\ pc = "check"
  /\ stopped => \A i \in DOMAIN healthy : ~healthy[i]
  /\ before' = healthy
  /\ Send("starting")
  /\ Goto("run")
  /\ UNCHANGED <<fixed, campaign, signal, serving, again, outcome, after, harm, rounds, stage, verdict, book>>

MoreRounds ==
  IF cfg.mode = "once" THEN round = 0
  ELSE cfg.maxExperiments > 0 => round < cfg.maxExperiments

BeginRound ==
  /\ pc = "run" /\ phase = "idle" /\ MoreRounds /\ round < MaxRounds
  /\ round' = round + 1
  /\ IF EngineRefuses(cfg) THEN refused' = TRUE /\ UNCHANGED <<left, campaign>>
     ELSE E!Begin /\ left' = MaxSteps /\ UNCHANGED refused
  /\ Steady /\ UNCHANGED <<harm, ledger>>

\* in turn, unless the scenario is parallel
MayStep(s) ==
  /\ left > 0 /\ cfg.enabled # {} /\ Idle(s)
  /\ \/ cfg.parallel
     \/ cleared = {} /\ running = {} /\ \A t \in Slots : Idle(t)

ClearStep(s) ==
  /\ MayStep(s) /\ ~cfg.dryRun
  /\ E!Clear(s)
  /\ left' = left - 1
  /\ Steady /\ UNCHANGED <<round, refused, harm, ledger>>

SkipStep(s) ==
  /\ MayStep(s) /\ s \notin cleared \cup running
  /\ cfg.dryRun /\ phase = "running" /\ ~stopped
  /\ Deliver(s, TRUE)
  /\ left' = left - 1
  /\ Steady /\ UNCHANGED <<campaign, round, refused, harm>>

\* Run of module m; one that is not denied may alter something or fail first
StartStep(s, m) ==
  /\ m \in cfg.enabled
  /\ E!Start(s) /\ touched' = touched \cup {m}
  /\ altered' \in IF m \in DestructiveModules(cfg) /\ ~ActionDenied(cfg, m)
                  THEN {altered, altered \cup {m}} ELSE {altered}
  /\ denied' = (denied \/ ActionDenied(cfg, m))
  /\ Steady /\ UNCHANGED <<rounds, ledger>>

EndStep(s, ok) ==
  /\ E!End(s)
  /\ Deliver(s, ok)
  /\ Steady /\ UNCHANGED <<rounds, harm>>

\* a failed attempt: it is retried, or cancelled before the callbacks
FailStep(s) ==
  /\ E!End(s)
  /\ Steady /\ UNCHANGED <<rounds, harm, ledger>>

\* mistake: RunAll does not wait for the callbacks
EndRoundEarly ==
  /\ E!Return
  /\ Steady /\ UNCHANGED <<rounds, harm, ledger>>

EndRound ==
  /\ E!Return /\ \A s \in Slots : Idle(s)
  /\ Steady /\ UNCHANGED <<rounds, harm, ledger>>

Report(s) ==
  /\ pc # "exited" /\ Callback(s)
  /\ UNCHANGED <<cfg, campaign>> /\ Steady /\ UNCHANGED <<rounds, harm>>

Notify(event, ok) ==
  /\ pc # "exited" /\ Sent(event, ok)
  /\ UNCHANGED <<cfg, campaign>> /\ Steady /\ UNCHANGED <<rounds, harm>>

\* mistake: only the count of the rounds ends the run
EndRunDeaf ==
  /\ pc = "run" /\ phase = "idle"
  /\ ~MoreRounds
  /\ Goto("recheck")
  /\ UNCHANGED <<approved, serving, signal>> /\ Untouched

\* sched.Run returns: rounds used up, or cancelled between two of them
EndRun ==
  /\ pc = "run" /\ phase = "idle"
  /\ ~MoreRounds \/ (stopped /\ (round > 0 \/ cfg.mode = "cron"))
  /\ Goto("recheck")
  /\ UNCHANGED <<approved, serving, signal>> /\ Untouched

-----------------------------------------------------------------------------
(* After the campaign. *)

\* beforeMap: of results that share a name the last one counts
BeforeOf(i) ==
  LET same == {j \in DOMAIN before : cfg.endpoints[j] = cfg.endpoints[i]}
  IN  before[CHOOSE j \in same : \A k \in same : k <= j]

Class(i, healthy) ==
  CASE BeforeOf(i) /\ ~healthy[i] -> "degraded"
    [] ~BeforeOf(i) /\ healthy[i] -> "recovered"
    [] BeforeOf(i) /\ healthy[i]  -> "ok"
    [] OTHER                      -> "still down"

Tally(healthy, classes) == Cardinality({i \in DOMAIN healthy : Class(i, healthy) \in classes})

\* mistake: an endpoint that was down already is not counted as degraded
CompareStable(healthy) ==
  LET degraded  == Tally(healthy, {"degraded"})
      recovered == Tally(healthy, {"recovered"})
  IN  [degraded |-> degraded, recovered |-> recovered,
       stable |-> Len(healthy) - degraded - recovered]

Compare(healthy) ==
  LET degraded  == Tally(healthy, {"degraded", "still down"})
      recovered == Tally(healthy, {"recovered"})
  IN  [degraded |-> degraded, recovered |-> recovered,
       stable |-> Len(healthy) - degraded - recovered]

CheckAfter(healthy) ==
  /\ pc = "recheck"
  /\ again' = healthy
  /\ outcome' = IF healthy = <<>> THEN Nothing ELSE Compare(healthy)
  /\ Send("completed")
  /\ Goto("report")
  /\ UNCHANGED <<fixed, campaign, signal, serving, before, after, harm, rounds, stage, verdict, book>>

\* the report is built; whether it can be written is only logged
BuildReport ==
  /\ pc = "report"
  /\ report' = entries
  /\ Goto("rollback")
  /\ UNCHANGED <<fixed, campaign, signal, serving, health, late, unable, harm, rounds, ledger>>

\* mistake: a cancelled campaign is not rolled back
BeginRollbackUnlessStopped ==
  /\ pc = "rollback"
  /\ IF stopped THEN Goto("shutdown") /\ UNCHANGED <<campaign, late>>
     ELSE E!BeginUndo /\ late' = (cfg.interval = "none") /\ Goto("undo")
  /\ UNCHANGED <<fixed, signal, serving, health, report, unable, harm, rounds, ledger>>

\* the time RollbackAll has is the interval between rounds
BeginRollback ==
  /\ pc = "rollback"
  /\ E!BeginUndo
  /\ late' = (cfg.interval = "none")
  /\ Goto("undo")
  /\ UNCHANGED <<fixed, signal, serving, health, report, unable, harm, rounds, ledger>>

DeadlinePasses ==
  /\ pc = "undo" /\ ~late
  /\ late' = TRUE
  /\ UNCHANGED <<fixed, pc, code, campaign, signal, serving, health, report, unable, harm, rounds, ledger>>

\* Rollback of module m; that of stress looks at no context, those of
\* kubernetes and network can do nothing when it is done
Undo(m, ok) ==
  /\ pc = "undo"
  /\ late /\ m # "stress" => ~ok
  /\ E!Undo(m)
  /\ altered' = IF ok THEN altered \ {m} ELSE altered
  /\ unable' = IF ok \/ (late /\ m # "stress") THEN unable ELSE unable \cup {m}
  /\ UNCHANGED <<fixed, pc, code, signal, serving, health, report, late, denied, rounds, ledger>>

EndRollback ==
  /\ pc = "undo"
  /\ E!EndUndo
  /\ Goto("shutdown")
  /\ UNCHANGED <<fixed, signal, serving, health, after, harm, rounds, ledger>>

\* main returns: the metrics server is shut down, and whatever notifications
\* are still being sent are not
Shutdown ==
  /\ pc = "shutdown"
  /\ Exit(0)
  /\ UNCHANGED <<approved, signal>> /\ Untouched

-----------------------------------------------------------------------------
MainStep ==
  \/ Load \/ Ask \/ Listen \/ EndRun \/ BuildReport \/ BeginRollback \/ EndRollback \/ Shutdown
  \/ \E ok \in BOOLEAN : CheckSafety(ok) \/ RegisterAll(ok)
  \/ \E healthy \in [DOMAIN cfg.endpoints -> BOOLEAN] : CheckBefore(healthy) \/ CheckAfter(healthy)
  \/ \E m \in Modules, ok \in BOOLEAN : Undo(m, ok)

SlotStep(s) ==
  \/ SkipStep(s) \/ FailStep(s) \/ Report(s)
  \/ \E m \in Modules : StartStep(s, m)
  \/ \E ok \in BOOLEAN : EndStep(s, ok)

Done == pc = "exited" /\ UNCHANGED vars

\* without an end to its rounds and with no signal main waits beyond the bound
Waiting == pc = "run" /\ phase = "idle" /\ MoreRounds /\ round = MaxRounds /\ UNCHANGED vars

Next ==
  \/ MainStep \/ BeginRound \/ EndRound \/ Interrupt \/ Handle \/ DeadlinePasses
  \/ \E s \in Slots : ClearStep(s) \/ SlotStep(s)
  \/ \E event \in Events, ok \in BOOLEAN : Notify(event, ok)
  \/ Done \/ Waiting

(* main's own steps, the handler's and those of each goroutine are taken   *)
(* in the end, except that a Run need not return; a timer fires, and       *)
(* RunAll, which need not make all the steps it may, returns when it waits *)
(* for nothing.  The select between rounds takes a done context in the     *)
(* end, for Go chooses among ready cases at random.  Nothing obliges the   *)
(* user to interrupt.                                                      *)
Fairness ==
  /\ WF_vars(MainStep) /\ WF_vars(BeginRound) /\ WF_vars(EndRound) /\ WF_vars(Handle)
  /\ SF_vars(EndRun)
  /\ \A s \in Slots : WF_vars(s \notin running /\ SlotStep(s))

Spec == Init /\ [][Next]_vars /\ Fairness
-----------------------------------------------------------------------------
(* Properties. *)

TypeOK ==
  /\ cfg \in Configs /\ approved \in BOOLEAN
  /\ pc \in Positions /\ code \in {-1, 0, 1}
  /\ phase \in {"idle", "running", "undoing"} /\ stopped \in BOOLEAN
  /\ cleared \subseteq Slots /\ running \subseteq Slots /\ touched \subseteq Modules
  /\ left \in 0 .. MaxSteps /\ round \in 0 .. MaxRounds
  /\ handler \in {"unset", "waiting", "returned"} /\ pending \in BOOLEAN /\ signals \in 0 .. MaxSignals
  /\ serving \in BOOLEAN /\ late \in BOOLEAN /\ denied \in BOOLEAN /\ refused \in BOOLEAN
  /\ before \in Seq(BOOLEAN) /\ again \in Seq(BOOLEAN) /\ outcome \in [DOMAIN Nothing -> Int] /\ report \in Nat
  /\ altered \subseteq Modules /\ unable \subseteq Modules
  /\ stage \in [Slots -> Stages] /\ verdict \in [Slots -> BOOLEAN] /\ loaded \in [Slots -> Nat]
  /\ counters \in [{"total", "success", "failed"} -> Nat]
  /\ entries \in Nat /\ delivered \in Nat /\ outbox \subseteq Events /\ heard \subseteq Events

\* Nothing is altered without permission and approval: under an enabled policy
\* only in a live campaign that allows destructive actions and that was
\* approved if that is required, whichever check, the preflight's or the one
\* of each action, is switched off (main.go:109-118, safety.go:55-61, 251).
NothingUnapproved ==
  altered # {} =>
    /\ ~cfg.dryRun
    /\ cfg.safety.enabled =>
         cfg.safety.allow /\ (cfg.safety.requireApproval => approved)

\* The preflight decides for the whole campaign: one that it let pass is not
\* refused a round by the engine's cap, which counts what each experiment
\* reports on its own, and with fail_closed no action of it is denied for its
\* kind or its namespace (safety.go:55, 98, 123; engine.go:100; k8s.go:110).
PreflightDecides ==
  /\ ~refused
  /\ cfg.safety.failClosed => ~denied

\* "Graceful shutdown" (README.md:336): when the process ends by itself after
\* a campaign, interrupted or not, in whatever phase the signals came, no Run
\* is in progress or to come, every module Run has had its Rollback, the
\* report was built, and what is still altered had a Rollback that failed or
\* came too late (main.go:213-223, 260-271).
GracefulExit ==
  pc = "exited" /\ code = 0 =>
    /\ phase = "idle" /\ running = {} /\ cleared = {} /\ touched = {} /\ ~serving
    /\ report = entries
    /\ altered \subseteq IF late THEN Modules ELSE unable

\* After the campaign the books agree: every result that was reported is one
\* success or one failure in the metrics, however the goroutines interleaved,
\* and with one step at a time it is one entry of the report (main.go:145-168,
\* report.go:68-88, metrics.go:36-40).
LedgerAgrees ==
  pc \in {"recheck", "report", "rollback", "undo", "shutdown"} =>
    /\ cfg.metrics => /\ counters.total = delivered
                      /\ counters.success + counters.failed = delivered
    /\ cfg.report /\ ~cfg.parallel => entries = delivered

\* Who hears that the campaign is completed can rely on it: no Run is in
\* progress, cleared to start or still to be reported (main.go:256, notify.go:71).
CompletedIsFinal ==
  "completed" \in outbox \cup heard =>
    phase # "running" /\ running = {} /\ cleared = {} /\ \A s \in Slots : Idle(s)

\* Whatever names the endpoints share, the comparison counts as degraded those
\* that are unhealthy afterwards and puts every endpoint into one class; with
\* distinct names it counts as recovered those that were unhealthy before and
\* are not any more (healthcheck.go:72-114).
ComparisonRight ==
  again # <<>> =>
    LET N == DOMAIN again
        Distinct == \A i, j \in N : cfg.endpoints[i] = cfg.endpoints[j] => i = j
    IN  /\ outcome.degraded = Cardinality({i \in N : ~again[i]})
        /\ outcome.degraded + outcome.recovered + outcome.stable = Cardinality(N)
        /\ Distinct => outcome.recovered = Cardinality({i \in N : ~before[i] /\ again[i]})

\* If every Run returns, a campaign with an end, or one that is interrupted
\* once it listens for signals, is rolled back and the process ends
\* (main.go:213-279).
ProcessEnds ==
  (\A s \in Slots : []<>(s \notin running)) =>
    (handler # "unset" /\ (pending \/ stopped \/ cfg.mode = "once" \/ cfg.maxExperiments \in 1 .. MaxRounds)
      ~> pc = "exited")

\* "Automatic rollback: restores scaled deployments, removes network rules,
\* cleans temp files" (README.md:337): all but what a failing Rollback leaves.
RollbackRestores == pc = "exited" /\ code = 0 => altered \subseteq unable

\* "a timestamped report with full details of every experiment" (report.go:2-3).
ReportComplete == pc = "exited" /\ code = 0 /\ cfg.report => report = delivered
=============================================================================
