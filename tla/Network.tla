------------------------------ MODULE Network ------------------------------
(***************************************************************************)
(* The network experiment of pkg/network/network.go: Run goes through the  *)
(* configured actions and executes tc and iptables, recording after each   *)
(* command the one that undoes it; it then waits for the duration, if one  *)
(* is set, and rolls back.  Rollback executes what is on record, latest    *)
(* first, and drops the record.                                            *)
(*                                                                         *)
(* The kernel is external: it has one root qdisc per interface, so that    *)
(* adding a second one fails, and any number of equal iptables rules, of   *)
(* which a deletion removes one.  A command is not started when its        *)
(* context is done, and killed when the context is done before it ends: a  *)
(* command that is killed may have taken effect.  It may also fail, without*)
(* effect, for reasons of its own.                                         *)
(***************************************************************************)
EXTENDS Naturals, Sequences, FiniteSets

CONSTANTS
  Configs,     \* configurations the experiment may be created with
  MaxRules,    \* bound: equal iptables rules there may be before
  MaxRuns      \* bound: calls of Run, by rounds and retries

\* a root qdisc, and the rules that drop UDP and TCP to port 53
Rules == {"qdisc", "udp", "tcp"}

Shaping == {"latency", "packet_loss", "bandwidth_limit", "corrupt"}
Actions == Shaping \cup {"dns_failure"}

\* permitted: Policy.CheckNetworkAction lets the actions pass, all or none
\* duration: a duration above zero is set
Config == [actions : Seq(Actions \cup {"unknown"}), duration : BOOLEAN, permitted : BOOLEAN]

ASSUME NetworkAssumption ==
  /\ Configs \subseteq Config
  /\ MaxRules \in Nat /\ MaxRuns \in Nat

VARIABLES
  cfg,        \* ChaosNetwork.cfg and its policy
  rules,      \* the kernel: how many of each rule there are
  applied,    \* ChaosNetwork.applied: the rules to remove on rollback
  pc,         \* "idle", "actions" (head of Run's loop), "inject", "adding",
              \* "wait", "undo" (head of Rollback's loop), "undoing", "done"
  act, cmd,   \* the action, and the command within it
  pos,        \* loop index of Rollback
  final,      \* the rollback is main's and not that of Run
  cancelled,  \* the context of Run is done
  expired,    \* the context of main's rollback is done
  runs,       \* calls of Run so far
  before,     \* history: the rules that were there before
  leaks       \* history: what went wrong: "add" if a command took effect and
              \* failed nevertheless, "run" and "end" if one that undoes did
              \* not take effect, in a Run's rollback and in main's

control == <<pc, act, cmd, pos, final>>
context == <<cancelled, expired>>
vars    == <<cfg, rules, applied, control, context, runs, before, leaks>>

Action == cfg.actions[act]

\* the rules an action adds, in this order
Commands(a) == IF a = "dns_failure" THEN <<"udp", "tcp">> ELSE <<"qdisc">>

Rule == Commands(Action)[cmd]

\* the context of the Run or of the rollback in progress
ContextDone == IF final THEN expired ELSE cancelled

Init ==
  /\ cfg \in Configs
  /\ rules \in [Rules -> 0 .. MaxRules] /\ rules["qdisc"] <= 1
  /\ applied = <<>>
  /\ pc = "idle" /\ act = 1 /\ cmd = 1 /\ pos = 0 /\ final = FALSE
  /\ cancelled = FALSE /\ expired = FALSE
  /\ runs = 0
  /\ before = rules /\ leaks = {}

-----------------------------------------------------------------------------
(* Run. *)

\* the engine calls Run after a look at the context
BeginRun ==
  /\ pc = "idle" /\ runs < MaxRuns /\ ~cancelled
  /\ runs' = runs + 1
  /\ pc' = "actions" /\ act' = 1
  /\ UNCHANGED <<cfg, rules, applied, cmd, pos, final, context, before, leaks>>

\* mistake: the wait for the duration does not look at the context
InterruptedBetweenActions ==
  /\ pc = "actions" /\ act <= Len(cfg.actions) /\ cancelled
  /\ pc' = "idle"
  /\ UNCHANGED <<cfg, rules, applied, act, cmd, pos, final, context, runs, before, leaks>>

\* Run returns, from between two actions or from the wait
Interrupted ==
  /\ cancelled
  /\ (pc = "actions" /\ act <= Len(cfg.actions)) \/ pc = "wait"
  /\ pc' = "idle"
  /\ UNCHANGED <<cfg, rules, applied, act, cmd, pos, final, context, runs, before, leaks>>

AtAction(a) == pc = "actions" /\ act <= Len(cfg.actions) /\ ~cancelled /\ a = Action

SkipUnknown ==
  /\ AtAction("unknown")
  /\ act' = act + 1
  /\ UNCHANGED <<cfg, rules, applied, pc, cmd, pos, final, context, runs, before, leaks>>

Denied ==
  /\ \E a \in Actions : AtAction(a)
  /\ ~cfg.permitted
  /\ pc' = "idle"
  /\ UNCHANGED <<cfg, rules, applied, act, cmd, pos, final, context, runs, before, leaks>>

BeginAction ==
  /\ \E a \in Actions : AtAction(a)
  /\ cfg.permitted
  /\ pc' = "inject" /\ cmd' = 1
  /\ UNCHANGED <<cfg, rules, applied, act, pos, final, context, runs, before, leaks>>

StartAdd ==
  /\ pc = "inject"
  /\ pc' = IF cancelled THEN "idle" ELSE "adding"
  /\ UNCHANGED <<cfg, rules, applied, act, cmd, pos, final, context, runs, before, leaks>>

\* what the command does to the kernel
Effect(done) ==
  /\ done /\ Rule = "qdisc" => rules["qdisc"] = 0
  /\ rules' = IF done THEN [rules EXCEPT ![Rule] = @ + 1] ELSE rules

\* mistake: both rules of an action are recorded when both are there
AddSucceedsLate ==
  /\ pc = "adding"
  /\ Effect(TRUE)
  /\ applied' = IF cmd < Len(Commands(Action)) THEN applied ELSE applied \o Commands(Action)
  /\ IF cmd < Len(Commands(Action))
     THEN pc' = "inject" /\ cmd' = cmd + 1 /\ act' = act
     ELSE pc' = "actions" /\ act' = act + 1 /\ cmd' = cmd
  /\ UNCHANGED <<cfg, pos, final, context, runs, before, leaks>>

\* the command ends well: the one that undoes it is put on record
AddSucceeds ==
  /\ pc = "adding"
  /\ Effect(TRUE)
  /\ applied' = Append(applied, Rule)
  /\ IF cmd < Len(Commands(Action))
     THEN pc' = "inject" /\ cmd' = cmd + 1 /\ act' = act
     ELSE pc' = "actions" /\ act' = act + 1 /\ cmd' = cmd
  /\ UNCHANGED <<cfg, pos, final, context, runs, before, leaks>>

\* it fails or is killed, and Run returns
AddFails(done) ==
  /\ pc = "adding"
  /\ done => cancelled
  /\ Effect(done)
  /\ leaks' = IF done THEN leaks \cup {"add"} ELSE leaks
  /\ pc' = "idle"
  /\ UNCHANGED <<cfg, applied, act, cmd, pos, final, context, runs, before>>

EndActions ==
  /\ pc = "actions" /\ act > Len(cfg.actions)
  /\ pc' = IF cfg.duration THEN "wait" ELSE "idle"
  /\ UNCHANGED <<cfg, rules, applied, act, cmd, pos, final, context, runs, before, leaks>>

\* the duration is over, whether or not the context is done as well
Elapse ==
  /\ pc = "wait"
  /\ pc' = "undo" /\ pos' = Len(applied)
  /\ UNCHANGED <<cfg, rules, applied, act, cmd, final, context, runs, before, leaks>>

-----------------------------------------------------------------------------
(* Rollback, called by Run when the duration is over and by main after the *)
(* last Run.                                                               *)

BeginRollback ==
  /\ pc = "idle"
  /\ pc' = "undo" /\ pos' = Len(applied) /\ final' = TRUE
  /\ UNCHANGED <<cfg, rules, applied, act, cmd, context, runs, before, leaks>>

Leaked(done) == leaks' = IF done THEN leaks ELSE leaks \cup {IF final THEN "end" ELSE "run"}

UndoNotStarted ==
  /\ pc = "undo" /\ pos > 0 /\ ContextDone
  /\ pos' = pos - 1
  /\ Leaked(FALSE)
  /\ UNCHANGED <<cfg, rules, applied, pc, act, cmd, final, context, runs, before>>

StartUndo ==
  /\ pc = "undo" /\ pos > 0 /\ ~ContextDone
  /\ pc' = "undoing"
  /\ UNCHANGED <<cfg, rules, applied, act, cmd, pos, final, context, runs, before, leaks>>

\* the error of a command is kept for the end, and the loop goes on
UndoEnds(done) ==
  /\ pc = "undoing"
  /\ done => rules[applied[pos]] > 0
  /\ rules' = IF done THEN [rules EXCEPT ![applied[pos]] = @ - 1] ELSE rules
  /\ pc' = "undo" /\ pos' = pos - 1
  /\ Leaked(done)
  /\ UNCHANGED <<cfg, applied, act, cmd, final, context, runs, before>>

\* mistake: the record is kept when Run rolls back
EndRollbackKeeping ==
  /\ pc = "undo" /\ pos = 0
  /\ applied' = IF final THEN <<>> ELSE applied
  /\ pc' = IF final THEN "done" ELSE "idle"
  /\ UNCHANGED <<cfg, rules, act, cmd, pos, final, context, runs, before, leaks>>

\* nothing stays on record, whatever failed
EndRollback ==
  /\ pc = "undo" /\ pos = 0
  /\ applied' = <<>>
  /\ pc' = IF final THEN "done" ELSE "idle"
  /\ UNCHANGED <<cfg, rules, act, cmd, pos, final, context, runs, before, leaks>>

-----------------------------------------------------------------------------
(* The contexts. *)

Cancel ==
  /\ ~cancelled /\ cancelled' = TRUE
  /\ UNCHANGED <<cfg, rules, applied, control, expired, runs, before, leaks>>

Expire ==
  /\ final /\ ~expired /\ expired' = TRUE
  /\ UNCHANGED <<cfg, rules, applied, control, cancelled, runs, before, leaks>>

-----------------------------------------------------------------------------
RunStep ==
  \/ Interrupted \/ SkipUnknown \/ Denied \/ BeginAction \/ StartAdd
  \/ AddSucceeds \/ (\E done \in BOOLEAN : AddFails(done)) \/ EndActions

RollbackStep ==
  UndoNotStarted \/ StartUndo \/ (\E done \in BOOLEAN : UndoEnds(done)) \/ EndRollback

Finished == pc = "done" /\ UNCHANGED vars

Next == BeginRun \/ RunStep \/ Elapse \/ BeginRollback \/ RollbackStep
        \/ Cancel \/ Expire \/ Finished

\* Commands end, or are killed when the context is done; the duration may be
\* longer than anyone waits.
Fairness == WF_vars(RunStep \/ RollbackStep)

Spec == Init /\ [][Next]_vars /\ Fairness
-----------------------------------------------------------------------------
(* Properties. *)

TypeOK ==
  /\ cfg \in Configs
  /\ rules \in [Rules -> Nat] /\ rules["qdisc"] <= 1
  /\ before \in [Rules -> Nat]
  /\ applied \in Seq(Rules)
  /\ pc \in {"idle", "actions", "inject", "adding", "wait", "undo", "undoing", "done"}
  /\ act \in Nat \ {0} /\ cmd \in {1, 2}
  /\ pos \in 0 .. Len(applied)
  /\ final \in BOOLEAN /\ cancelled \in BOOLEAN /\ expired \in BOOLEAN
  /\ runs \in 0 .. MaxRuns
  /\ leaks \subseteq {"add", "run", "end"}

\* how many records there are to undo: during a rollback, those it has not
\* come to yet
Left == IF pc \in {"undo", "undoing"} THEN pos ELSE Len(applied)

ToUndo(k) == Cardinality({i \in 1 .. Left : applied[i] = k})

\* Whatever is on record and not undone yet is really there, besides what was
\* there before: no undo removes somebody else's qdisc or rule, in whatever
\* order Runs, cancellations, failures and rollbacks come (network.go:122-138).
RecordsAreReal == \A k \in Rules : rules[k] >= before[k] + ToUndo(k)

\* As long as no command had an effect it did not report and none that undoes
\* failed, everything that was injected is on record: after a rollback nothing
\* of it is left (network.go:157-165, 181-189, 198-217, 236-244, 260-268).
InjectedIsRecorded == leaks = {} => \A k \in Rules : rules[k] = before[k] + ToUndo(k)

\* A cancelled Run ends without waiting for the duration, and a rollback ends
\* (network.go:54-59, 105-111, 126-138).
CallsEnd == (cancelled \/ final) /\ pc # "idle" ~> pc \in {"idle", "done"}

\* "Full rollback support (removes all injected rules)" (README.md:168): when
\* every command that injects reported its effect and every command of main's
\* rollback succeeded, nothing is left.
RemovesAllInjected == pc = "done" /\ leaks \cap {"add", "end"} = {} => rules = before
=============================================================================
