------------------------------- MODULE Stress -------------------------------
(***************************************************************************)
(* pkg/stress/stress.go: Run starts a goroutine for each action and waits  *)
(* for all of them; each holds on to its resource until stressCtx is done. *)
(* The disk actions create files, whose names they put on record for       *)
(* Rollback without a lock: an append is a load of the slice and a store.  *)
(*                                                                         *)
(* A thread is a pair of an action's index and a number: 0 is the one of   *)
(* cpu, memory and disk_fill, 1, 2, ... are the workers of disk_io.  The   *)
(* burners of cpu do what its goroutine does, wait, and are left out.      *)
(***************************************************************************)
EXTENDS Naturals, Sequences, FiniteSets

CONSTANTS
  Configs,     \* configurations the experiment may be created with
  MaxActions,  \* bound: actions of a configuration
  MaxWorkers,  \* bound: disk_io workers
  MaxRuns      \* bound: Runs before the rollback

Actions == {"cpu", "memory", "disk_io", "disk_fill", "unknown"}

\* denied: the policy is enabled and allows no destructive action, which is
\* all that CheckStressAction looks at
Config == [actions : Seq(Actions), workers : 1 .. MaxWorkers, denied : BOOLEAN]

ASSUME StressAssumption ==
  /\ MaxActions \in Nat /\ MaxWorkers \in Nat /\ MaxRuns \in Nat
  /\ Configs \subseteq {c \in Config : Len(c.actions) <= MaxActions}

Threads == (1 .. MaxActions) \X (0 .. MaxWorkers)

VARIABLES
  cfg,        \* ChaosStress.cfg
  pc,         \* Run: "idle", "start" (head of its loop), "wait" (wg.Wait);
              \* "over" after Rollback
  next,       \* the loop's index
  runs,       \* Runs so far
  cancelled,  \* the context of Run is done
  expired,    \* stressCtx is done
  stage,      \* where each thread is
  loaded,     \* the tempFiles a thread has loaded for its append
  failed,     \* actions that failed; Run, when it returns, returns an error if any did
  reported,   \* actions whose goroutine has sent to errCh and called wg.Done
  tempFiles,  \* ChaosStress.tempFiles; a name twice on record is as good as once
  files,      \* the temporary files on disk
  lost,       \* history: names an append of another thread overwrote
  stuck       \* history: files whose removal failed

given == <<cfg, cancelled, expired>>
run   == <<pc, next, runs, reported>>
disk  == <<tempFiles, files, lost, stuck>>
vars  == <<given, run, stage, loaded, failed, disk>>

Kind(w) == cfg.actions[w[1]]

\* yacmo-diskio-<id>.tmp and yacmo-diskfill.tmp: the number of the action is
\* no part of the name
File(w) == <<Kind(w), w[2]>>

Known == {i \in DOMAIN cfg.actions : cfg.actions[i] # "unknown"}

\* the goroutines of an action
Crew(i) == IF cfg.actions[i] = "disk_io" THEN {i} \X (1 .. cfg.workers) ELSE {<<i, 0>>}

OfDisk(w) == Kind(w) \in {"disk_io", "disk_fill"}

StressDone == cancelled \/ expired

Init ==
  /\ cfg \in Configs
  /\ pc = "idle" /\ next = 1 /\ runs = 0 /\ reported = {}
  /\ cancelled = FALSE /\ expired = FALSE
  /\ stage = [w \in Threads |-> "none"]
  /\ loaded = [w \in Threads |-> {}]
  /\ failed = {}
  /\ tempFiles = {} /\ files = {} /\ lost = {} /\ stuck = {}

-----------------------------------------------------------------------------
(* Run. *)

\* the duration is the configured one or, if none is, 30 seconds
BeginRun ==
  /\ pc = "idle" /\ runs < MaxRuns
  /\ pc' = "start" /\ next' = 1 /\ runs' = runs + 1
  /\ expired' = FALSE /\ reported' = {} /\ failed' = {}
  /\ stage' = [w \in Threads |-> "none"]
  /\ UNCHANGED <<cfg, cancelled, loaded, disk>>

\* the policy refuses every action or none: the early return leaves nothing
StartDenied ==
  /\ pc = "start" /\ next \in Known /\ cfg.denied
  /\ pc' = "idle" /\ failed' = {next}
  /\ UNCHANGED <<given, next, runs, reported, stage, loaded, disk>>

StartAction ==
  /\ pc = "start" /\ next \in Known /\ ~cfg.denied
  /\ stage' = [w \in Threads |->
                 IF w \notin Crew(next) THEN stage[w]
                 ELSE IF OfDisk(w) THEN "load" ELSE "hold"]
  /\ next' = next + 1
  /\ UNCHANGED <<given, pc, runs, reported, loaded, failed, disk>>

SkipUnknown ==
  /\ pc = "start" /\ next \in DOMAIN cfg.actions \ Known
  /\ next' = next + 1
  /\ UNCHANGED <<given, pc, runs, reported, stage, loaded, failed, disk>>

AllStarted ==
  /\ pc = "start" /\ next > Len(cfg.actions)
  /\ pc' = "wait"
  /\ UNCHANGED <<given, next, runs, reported, stage, loaded, failed, disk>>

\* the goroutine of an action sends its error to errCh, which has room for
\* one of each configured action, and is done
Report(i) ==
  /\ i \in Known \ reported /\ \A w \in Crew(i) : stage[w] = "done"
  /\ Cardinality(reported) < Len(cfg.actions)
  /\ reported' = reported \cup {i}
  /\ UNCHANGED <<given, pc, next, runs, stage, loaded, failed, disk>>

\* mistake: Run waits for the duration instead of the goroutines
EndRunEarly ==
  /\ pc = "wait" /\ (reported = Known \/ StressDone)
  /\ pc' = "idle" /\ expired' = TRUE
  /\ UNCHANGED <<cfg, next, runs, reported, cancelled, stage, loaded, failed, disk>>

\* all are done; the errors are collected and stressCtx is cancelled
EndRun ==
  /\ pc = "wait" /\ reported = Known
  /\ pc' = "idle" /\ expired' = TRUE
  /\ UNCHANGED <<cfg, next, runs, reported, cancelled, stage, loaded, failed, disk>>

\* mistake: the first error ends the loop, and the record is cleared all the same
RollbackUpToError ==
  /\ pc = "idle"
  /\ pc' = "over"
  /\ \E removed \in SUBSET (tempFiles \cap files), bad \in SUBSET (tempFiles \cap files) :
       /\ Cardinality(bad) <= 1 /\ bad = {} => tempFiles \cap files \subseteq removed
       /\ files' = files \ (removed \ bad)
       /\ stuck' = stuck \cup bad
  /\ tempFiles' = {}
  /\ UNCHANGED <<given, next, runs, reported, stage, loaded, failed, lost>>

\* every name on record is removed, one that is gone already is ignored, and
\* the record is cleared whatever failed; the context is not looked at
Rollback ==
  /\ pc = "idle"
  /\ pc' = "over"
  /\ \E bad \in SUBSET (tempFiles \cap files) :
       /\ files' = files \ (tempFiles \ bad)
       /\ stuck' = stuck \cup bad
  /\ tempFiles' = {}
  /\ UNCHANGED <<given, next, runs, reported, stage, loaded, failed, lost>>

-----------------------------------------------------------------------------
(* The threads. *)

Move(w, from, to) == stage[w] = from /\ stage' = [stage EXCEPT ![w] = to]

\* c.tempFiles = append(c.tempFiles, path)
LoadFiles(w) ==
  /\ Move(w, "load", "store")
  /\ loaded' = [loaded EXCEPT ![w] = tempFiles]
  /\ UNCHANGED <<given, run, failed, disk>>

StoreFiles(w) ==
  /\ Move(w, "store", IF Kind(w) = "disk_io" THEN "loop" ELSE "create")
  /\ tempFiles' = loaded[w] \cup {File(w)}
  /\ loaded' = [loaded EXCEPT ![w] = {}]
  /\ lost' = (lost \cup tempFiles) \ tempFiles'
  /\ UNCHANGED <<given, run, failed, files, stuck>>

\* cpu, memory and a filled disk are held until the context is done
LetGo(w) ==
  /\ Move(w, "hold", "done") /\ StressDone
  /\ UNCHANGED <<given, run, loaded, failed, disk>>

\* disk_io, the head of the loop: the worker removes its file and returns
IODone(w, ok) ==
  /\ Move(w, "loop", "done") /\ StressDone
  /\ files' = IF ok THEN files \ {File(w)} ELSE files
  /\ stuck' = IF ~ok /\ File(w) \in files THEN stuck \cup {File(w)} ELSE stuck
  /\ UNCHANGED <<given, run, loaded, failed, tempFiles, lost>>

IOContinue(w) ==
  /\ Move(w, "loop", "write") /\ ~StressDone
  /\ UNCHANGED <<given, run, loaded, failed, disk>>

\* mistake: the next write is not preceded by a look at the context
WriteForEver(w, there) ==
  /\ Move(w, "write", "write")
  /\ files' = IF there THEN files \cup {File(w)} ELSE files
  /\ UNCHANGED <<given, run, loaded, failed, tempFiles, lost, stuck>>

\* a write and a read; of a write that fails the file may be there or not
WriteFile(w, there) ==
  /\ Move(w, "write", "loop")
  /\ files' = IF there THEN files \cup {File(w)} ELSE files
  /\ UNCHANGED <<given, run, loaded, failed, tempFiles, lost, stuck>>

\* disk_fill: the file is created and filled; either may fail, and the
\* filling is left off when the context is done
CreateFails(w) ==
  /\ Move(w, "create", "done")
  /\ failed' = failed \cup {w[1]}
  /\ UNCHANGED <<given, run, loaded, disk>>

CreateFile(w) ==
  /\ Move(w, "create", "fill")
  /\ files' = files \cup {File(w)}
  /\ UNCHANGED <<given, run, loaded, failed, tempFiles, lost, stuck>>

FillFails(w) ==
  /\ Move(w, "fill", "done")
  /\ failed' = failed \cup {w[1]}
  /\ UNCHANGED <<given, run, loaded, disk>>

Filled(w) ==
  /\ Move(w, "fill", "hold")
  /\ UNCHANGED <<given, run, loaded, failed, disk>>

-----------------------------------------------------------------------------
Cancel ==
  /\ ~cancelled /\ cancelled' = TRUE
  /\ UNCHANGED <<cfg, run, expired, stage, loaded, failed, disk>>

Expire ==
  /\ pc \in {"start", "wait"} /\ ~expired /\ expired' = TRUE
  /\ UNCHANGED <<cfg, run, cancelled, stage, loaded, failed, disk>>

RunStep ==
  \/ StartDenied \/ StartAction \/ SkipUnknown \/ AllStarted \/ EndRun
  \/ \E i \in 1 .. MaxActions : Report(i)

ThreadStep(w) ==
  \/ LoadFiles(w) \/ StoreFiles(w) \/ LetGo(w) \/ IOContinue(w)
  \/ CreateFails(w) \/ CreateFile(w) \/ FillFails(w) \/ Filled(w)
  \/ \E b \in BOOLEAN : IODone(w, b) \/ WriteFile(w, b)

Finished == pc = "over" /\ UNCHANGED vars

Next ==
  \/ BeginRun \/ RunStep \/ Rollback \/ Cancel \/ Expire \/ Finished
  \/ \E w \in Threads : ThreadStep(w)

\* Goroutines run on, and the duration, which is never without an end, is over
\* some time.
Fairness ==
  /\ WF_vars(RunStep) /\ WF_vars(Expire)
  /\ \A w \in Threads : WF_vars(ThreadStep(w))

Spec == Init /\ [][Next]_vars /\ Fairness

-----------------------------------------------------------------------------
(* Properties. *)

TypeOK ==
  /\ cfg \in Configs
  /\ pc \in {"idle", "start", "wait", "over"}
  /\ next \in Nat \ {0} /\ runs \in Nat
  /\ cancelled \in BOOLEAN /\ expired \in BOOLEAN
  /\ stage \in [Threads -> {"none", "load", "store", "loop", "write", "create", "fill", "hold", "done"}]
  /\ loaded \in [Threads -> SUBSET (Actions \X Nat)]
  /\ reported \subseteq Known /\ failed \subseteq Known
  /\ tempFiles \subseteq Actions \X Nat /\ files \subseteq Actions \X Nat
  /\ lost \subseteq Actions \X Nat /\ stuck \subseteq Actions \X Nat

\* the threads that may still write
Alive == {w \in Threads : stage[w] \notin {"none", "done"}}

\* No thread survives its Run, and no file of a disk_io worker does unless its
\* removal failed, however often two workers of one name wrote it while the
\* context ended (stress.go:101, 232, 249).
QuietAfterRun ==
  pc \in {"idle", "over"} =>
    /\ Alive = {}
    /\ \A f \in files : f[1] = "disk_io" => f \in stuck

\* A file is on disk only if Rollback will hear of it, or its name was lost to
\* another thread's append, or an attempt to remove it failed: it was put on
\* record before it was created, also by a Run that then failed
\* (stress.go:226, 266-272, 122-130).
LeftoversExplained == files \subseteq tempFiles \cup lost \cup stuck

\* An error of one action does not end the others, and a full errCh blocks
\* nobody: every Run ends, cancelled or not (stress.go:52, 56, 101, 240).
RunEnds == pc \in {"start", "wait"} ~> pc = "idle"
=============================================================================
