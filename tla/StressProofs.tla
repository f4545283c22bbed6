----------------------------- MODULE StressProofs -----------------------------
(***************************************************************************)
(* Machine-checked theorems about module Stress, for every list of         *)
(* actions, any number of workers and of Runs: no goroutine survives its   *)
(* Run, of every file that does it is known why, and no Run gets stuck.    *)
(***************************************************************************)
EXTENDS Stress, FiniteSetTheorems, TLAPS

\* A thread is at work only for an action that Run has started, and only the
\* disk actions put files on record.
ThreadsOK ==
  \A w \in Threads : stage[w] # "none" =>
    /\ w[1] \in Known /\ w \in Crew(w[1]) /\ ~cfg.denied
    /\ stage[w] \in {"load", "store"} => OfDisk(w)
    /\ stage[w] \in {"loop", "write"} => Kind(w) = "disk_io"
    /\ stage[w] \in {"create", "fill"} => Kind(w) = "disk_fill"

\* Run has not come to the actions from next on, and who reported is done.
RunOK ==
  /\ pc \in {"idle", "over"} => \A w \in Threads : stage[w] \in {"none", "done"}
  /\ pc = "start" => \A w \in Threads : stage[w] # "none" => w[1] < next
  /\ \A i \in reported : \A w \in Crew(i) : stage[w] = "done"

\* A file of disk_io has a worker that will remove it, or that failed to; a
\* thread that may write its file has put it on record.
FilesOK ==
  /\ \A f \in files : f[1] = "disk_io" =>
       f \in stuck \/ \E w \in Threads : stage[w] \in {"loop", "write"} /\ File(w) = f
  /\ \A w \in Threads : stage[w] \in {"loop", "write", "create", "fill"} => File(w) \in tempFiles \cup lost
  /\ LeftoversExplained

IInv == TypeOK /\ ThreadsOK /\ RunOK /\ FilesOK

-----------------------------------------------------------------------------
(* Types.                                                                  *)

LEMMA ConfigTyped ==
  ASSUME cfg \in Configs
  PROVE  /\ cfg.actions \in Seq(Actions) /\ Len(cfg.actions) \in Nat
         /\ Known \subseteq DOMAIN cfg.actions /\ Known \subseteq 1 .. MaxActions
         /\ \A i \in Known : Crew(i) \subseteq Threads /\ Crew(i) # {} /\ \A w \in Crew(i) : w[1] = i
         /\ \A i \in Known : cfg.actions[i] \in Actions
<1>1. cfg \in Config /\ Len(cfg.actions) <= MaxActions /\ MaxActions \in Nat /\ MaxWorkers \in Nat
  BY StressAssumption
<1>2. cfg.actions \in Seq(Actions) /\ Len(cfg.actions) \in Nat /\ cfg.workers \in 1 .. MaxWorkers
  BY <1>1 DEF Config
<1>3. Known \subseteq DOMAIN cfg.actions
  BY DEF Known
<1>4. DOMAIN cfg.actions \subseteq 1 .. MaxActions
  BY <1>1, <1>2
<1>5. ASSUME NEW i \in Known
      PROVE  Crew(i) \subseteq Threads /\ Crew(i) # {} /\ \A w \in Crew(i) : w[1] = i
  <2>1. 1 .. cfg.workers \subseteq 0 .. MaxWorkers /\ 1 \in 1 .. cfg.workers /\ 0 \in 0 .. MaxWorkers
    BY <1>1, <1>2
  <2>2. i \in 1 .. MaxActions
    BY <1>3, <1>4
  <2>3. CASE cfg.actions[i] = "disk_io"
    <3>1. Crew(i) = {i} \X (1 .. cfg.workers)
      BY <2>3 DEF Crew
    <3>2. <<i, 1>> \in Crew(i)
      BY <2>1, <3>1
    <3> QED
      BY <2>1, <2>2, <3>1, <3>2 DEF Threads
  <2>4. CASE cfg.actions[i] # "disk_io"
    <3>1. Crew(i) = {<<i, 0>>}
      BY <2>4 DEF Crew
    <3> QED
      BY <2>1, <2>2, <3>1 DEF Threads
  <2> QED
    BY <2>3, <2>4
<1> QED
  BY <1>2, <1>3, <1>4, <1>5

\* The file of a thread that has one is a name and a number.
LEMMA FileTyped ==
  ASSUME TypeOK, ThreadsOK, NEW w \in Threads, stage[w] # "none"
  PROVE  /\ File(w) \in Actions \X Nat
         /\ File(w)[1] = Kind(w)
         /\ w[1] \in Known
<1>1. w[1] \in Known /\ cfg \in Configs
  BY DEF ThreadsOK, TypeOK
<1>2. Kind(w) \in Actions
  BY <1>1, ConfigTyped DEF Kind
<1>3. w[2] \in Nat
  BY StressAssumption DEF Threads
<1> QED
  BY <1>1, <1>2, <1>3 DEF File

\* One thread moves on.
LEMMA Moved ==
  ASSUME TypeOK, NEW w \in Threads, NEW from, NEW to, Move(w, from, to)
  PROVE  /\ stage[w] = from /\ stage'[w] = to
         /\ \A u \in Threads : u # w => stage'[u] = stage[u]
         /\ \A u \in Threads : stage'[u] = IF u = w THEN to ELSE stage[u]
BY DEF TypeOK, Move

\* What a thread that moves from one stage to another may disturb, if Run
\* stands still.
LEMMA MoveKeeps ==
  ASSUME TypeOK, ThreadsOK, RunOK, NEW w \in Threads, NEW from, NEW to, Move(w, from, to),
         UNCHANGED <<cfg, pc, next, reported>>,
         from \notin {"none", "done"}, to # "none",
         to \in {"load", "store"} => OfDisk(w),
         to \in {"loop", "write"} => Kind(w) = "disk_io",
         to \in {"create", "fill"} => Kind(w) = "disk_fill"
  PROVE  ThreadsOK' /\ RunOK'
<1>1. /\ stage[w] = from /\ stage'[w] = to
      /\ \A u \in Threads : u # w => stage'[u] = stage[u]
  BY Moved
<1>2. Known' = Known /\ \A i : Crew(i)' = Crew(i)
  BY DEF Known, Crew
<1>3. \A u \in Threads : OfDisk(u)' = OfDisk(u) /\ Kind(u)' = Kind(u)
  BY DEF OfDisk, Kind
<1>4. ThreadsOK'
  <2> SUFFICES ASSUME NEW u \in Threads, stage'[u] # "none"
               PROVE  /\ u[1] \in Known /\ u \in Crew(u[1]) /\ ~cfg.denied
                      /\ stage'[u] \in {"load", "store"} => OfDisk(u)
                      /\ stage'[u] \in {"loop", "write"} => Kind(u) = "disk_io"
                      /\ stage'[u] \in {"create", "fill"} => Kind(u) = "disk_fill"
    BY <1>2, <1>3 DEF ThreadsOK
  <2>1. stage[u] # "none"
    BY <1>1
  <2> QED
    BY <1>1, <2>1 DEF ThreadsOK
<1>5. RunOK'
  <2>1. pc \notin {"idle", "over"}
    BY <1>1 DEF RunOK
  <2>2. ASSUME NEW i \in reported, NEW u \in Crew(i)
        PROVE  stage'[u] = "done"
    <3>1. u \in Threads /\ stage[u] = "done"
      BY ConfigTyped DEF TypeOK, RunOK
    <3> QED
      BY <1>1, <3>1
  <2>3. pc = "start" => \A u \in Threads : stage'[u] # "none" => u[1] < next
    BY <1>1 DEF RunOK
  <2> QED
    BY <1>2, <2>1, <2>2, <2>3 DEF RunOK
<1> QED
  BY <1>4, <1>5

-----------------------------------------------------------------------------
(* The threads.                                                            *)

\* A thread moves on and leaves the disk alone.
LEMMA FilesFrame ==
  ASSUME TypeOK, FilesOK, NEW w \in Threads, NEW from, NEW to, Move(w, from, to),
         UNCHANGED <<cfg, disk>>,
         from \in {"loop", "write"} => to \in {"loop", "write"},
         to \in {"loop", "write", "create", "fill"} => from \in {"loop", "write", "create", "fill"}
  PROVE  FilesOK'
<1>1. /\ stage[w] = from /\ stage'[w] = to
      /\ \A u \in Threads : u # w => stage'[u] = stage[u]
  BY Moved
<1>2. \A u \in Threads : File(u)' = File(u)
  BY DEF File, Kind
<1>3. ASSUME NEW f \in files, f[1] = "disk_io", f \notin stuck
      PROVE  \E u \in Threads : stage'[u] \in {"loop", "write"} /\ File(u) = f
  <2>1. PICK u \in Threads : stage[u] \in {"loop", "write"} /\ File(u) = f
    BY <1>3 DEF FilesOK
  <2>2. stage'[u] \in {"loop", "write"}
    BY <1>1, <2>1
  <2> QED
    BY <2>1, <2>2
<1>4. ASSUME NEW u \in Threads, stage'[u] \in {"loop", "write", "create", "fill"}
      PROVE  File(u) \in tempFiles \cup lost
  <2>1. stage[u] \in {"loop", "write", "create", "fill"}
    BY <1>1, <1>4
  <2> QED
    BY <2>1 DEF FilesOK
<1> QED
  BY <1>2, <1>3, <1>4 DEF FilesOK, LeftoversExplained, disk

LEMMA StorePreserves ==
  ASSUME IInv, NEW w \in Threads, StoreFiles(w)
  PROVE  FilesOK' /\ tempFiles' \subseteq Actions \X Nat /\ lost' \subseteq Actions \X Nat
<1>1. PICK to \in {"loop", "create"} : Move(w, "store", to)
  BY DEF StoreFiles
<1>2. /\ stage[w] = "store" /\ stage'[w] = to
      /\ \A u \in Threads : u # w => stage'[u] = stage[u]
  BY <1>1, Moved DEF IInv
<1>3. \A u \in Threads : File(u)' = File(u)
  BY DEF File, Kind, StoreFiles, given
<1>4. /\ tempFiles' = loaded[w] \cup {File(w)} /\ lost' = (lost \cup tempFiles) \ tempFiles'
      /\ files' = files /\ stuck' = stuck
  BY DEF StoreFiles
<1>5. File(w) \in Actions \X Nat /\ loaded[w] \subseteq Actions \X Nat
  BY <1>2, FileTyped DEF IInv, TypeOK
<1>6. \A f : f \in tempFiles \cup lost => f \in tempFiles' \cup lost'
  BY <1>4
<1>7. ASSUME NEW f \in files, f[1] = "disk_io", f \notin stuck
      PROVE  \E u \in Threads : stage'[u] \in {"loop", "write"} /\ File(u) = f
  <2>1. PICK u \in Threads : stage[u] \in {"loop", "write"} /\ File(u) = f
    BY <1>7 DEF IInv, FilesOK
  <2>2. u # w
    BY <1>2, <2>1
  <2> QED
    BY <1>2, <2>1, <2>2
<1>8. ASSUME NEW u \in Threads, stage'[u] \in {"loop", "write", "create", "fill"}
      PROVE  File(u) \in tempFiles' \cup lost'
  <2>1. CASE u = w
    BY <1>4, <2>1
  <2>2. CASE u # w
    <3>1. stage[u] \in {"loop", "write", "create", "fill"}
      BY <1>2, <1>8, <2>2
    <3> QED
      BY <1>6, <3>1 DEF IInv, FilesOK
  <2> QED
    BY <2>1, <2>2
<1>9. files' \subseteq tempFiles' \cup lost' \cup stuck'
  BY <1>4, <1>6 DEF IInv, FilesOK, LeftoversExplained
<1>10. tempFiles' \subseteq Actions \X Nat /\ lost' \subseteq Actions \X Nat
  BY <1>4, <1>5 DEF IInv, TypeOK
<1> QED
  BY <1>3, <1>4, <1>7, <1>8, <1>9, <1>10 DEF FilesOK, LeftoversExplained

LEMMA DonePreserves ==
  ASSUME IInv, NEW w \in Threads, NEW ok \in BOOLEAN, IODone(w, ok)
  PROVE  FilesOK' /\ files' \subseteq files /\ stuck' \subseteq Actions \X Nat
<1>1. /\ stage[w] = "loop" /\ stage'[w] = "done"
      /\ \A u \in Threads : u # w => stage'[u] = stage[u]
  BY Moved DEF IODone, IInv
<1>2. \A u \in Threads : File(u)' = File(u)
  BY DEF File, Kind, IODone, given
<1>3. /\ files' = IF ok THEN files \ {File(w)} ELSE files
      /\ stuck' = IF ~ok /\ File(w) \in files THEN stuck \cup {File(w)} ELSE stuck
      /\ UNCHANGED <<tempFiles, lost>>
  BY DEF IODone
<1>4. ASSUME NEW f \in files', f[1] = "disk_io", f \notin stuck'
      PROVE  \E u \in Threads : stage'[u] \in {"loop", "write"} /\ File(u) = f
  <2>1. f \in files /\ f \notin stuck /\ f # File(w)
    BY <1>3, <1>4
  <2>2. PICK u \in Threads : stage[u] \in {"loop", "write"} /\ File(u) = f
    BY <1>4, <2>1 DEF IInv, FilesOK
  <2> QED
    BY <1>1, <2>1, <2>2
<1>5. ASSUME NEW u \in Threads, stage'[u] \in {"loop", "write", "create", "fill"}
      PROVE  File(u) \in tempFiles \cup lost
  <2>1. stage[u] \in {"loop", "write", "create", "fill"}
    BY <1>1, <1>5
  <2> QED
    BY <2>1 DEF IInv, FilesOK
<1>6. files' \subseteq files /\ stuck \subseteq stuck'
  BY <1>3
<1>7. files' \subseteq tempFiles' \cup lost' \cup stuck'
  BY <1>3, <1>6 DEF IInv, FilesOK, LeftoversExplained
<1>8. stuck' \subseteq Actions \X Nat
  BY <1>3 DEF IInv, TypeOK
<1> QED
  BY <1>2, <1>3, <1>4, <1>5, <1>6, <1>7, <1>8 DEF FilesOK, LeftoversExplained

\* A file is written by a thread that has put it on record.
LEMMA WritePreserves ==
  ASSUME IInv, NEW w \in Threads, NEW from, NEW to, Move(w, from, to),
         <<from, to>> \in {<<"write", "loop">>, <<"create", "fill">>},
         files' \in {files, files \cup {File(w)}},
         UNCHANGED <<cfg, tempFiles, lost, stuck>>
  PROVE  FilesOK' /\ files' \subseteq Actions \X Nat
<1>0. from \in {"write", "create"} /\ (from = "write" => to = "loop") /\ (from = "create" => to = "fill")
  OBVIOUS
<1>1. /\ stage[w] = from /\ stage'[w] = to
      /\ \A u \in Threads : u # w => stage'[u] = stage[u]
  BY Moved DEF IInv
<1>2. \A u \in Threads : File(u)' = File(u)
  BY DEF File, Kind
<1>3. /\ File(w) \in Actions \X Nat /\ File(w) \in tempFiles \cup lost
      /\ from = "create" => File(w)[1] = "disk_fill"
  <2>1. File(w) \in Actions \X Nat /\ File(w)[1] = Kind(w)
    BY <1>0, <1>1, FileTyped DEF IInv
  <2>2. from = "create" => Kind(w) = "disk_fill"
    BY <1>1 DEF IInv, ThreadsOK
  <2>3. File(w) \in tempFiles \cup lost
    BY <1>0, <1>1 DEF IInv, FilesOK
  <2> QED
    BY <2>1, <2>2, <2>3
<1>4. ASSUME NEW f \in files', f[1] = "disk_io", f \notin stuck
      PROVE  \E u \in Threads : stage'[u] \in {"loop", "write"} /\ File(u) = f
  <2>1. CASE f = File(w)
    <3>1. from = "write"
      BY <1>0, <1>3, <1>4, <2>1
    <3> QED
      BY <1>0, <1>1, <2>1, <3>1
  <2>2. CASE f # File(w)
    <3>1. f \in files
      BY <2>2
    <3>2. PICK u \in Threads : stage[u] \in {"loop", "write"} /\ File(u) = f
      BY <1>4, <3>1 DEF IInv, FilesOK
    <3> QED
      BY <1>1, <2>2, <3>2
  <2> QED
    BY <2>1, <2>2
<1>5. ASSUME NEW u \in Threads, stage'[u] \in {"loop", "write", "create", "fill"}
      PROVE  File(u) \in tempFiles \cup lost
  <2>1. stage[u] \in {"loop", "write", "create", "fill"}
    BY <1>0, <1>1, <1>5
  <2> QED
    BY <2>1 DEF IInv, FilesOK
<1>6. files' \subseteq tempFiles \cup lost \cup stuck /\ files' \subseteq Actions \X Nat
  BY <1>3 DEF IInv, TypeOK, FilesOK, LeftoversExplained
<1> QED
  BY <1>2, <1>4, <1>5, <1>6 DEF FilesOK, LeftoversExplained

\* The stages stay among those there are.
LEMMA StageTyped ==
  ASSUME TypeOK, NEW w \in Threads, NEW from, NEW to, Move(w, from, to),
         to \in {"none", "load", "store", "loop", "write", "create", "fill", "hold", "done"}
  PROVE  stage' \in [Threads -> {"none", "load", "store", "loop", "write", "create", "fill", "hold", "done"}]
BY DEF TypeOK, Move

LEMMA ThreadPreserves ==
  ASSUME IInv, NEW w \in Threads, ThreadStep(w)
  PROVE  IInv'
<1> DEFINE Rest == UNCHANGED <<cfg, pc, next, runs, reported, cancelled, expired>>
<1>0. TypeOK /\ ThreadsOK /\ RunOK /\ FilesOK
  BY DEF IInv
<1>1. ASSUME Rest, stage' \in [Threads -> {"none", "load", "store", "loop", "write", "create", "fill", "hold", "done"}],
             loaded' \in [Threads -> SUBSET (Actions \X Nat)], failed' \subseteq Known,
             tempFiles' \subseteq Actions \X Nat, files' \subseteq Actions \X Nat,
             lost' \subseteq Actions \X Nat, stuck' \subseteq Actions \X Nat
      PROVE  TypeOK'
  BY <1>0, <1>1 DEF TypeOK, Known
<1>2. CASE LoadFiles(w)
  <2>1. Rest /\ Move(w, "load", "store") /\ UNCHANGED <<failed, disk>>
        /\ loaded' = [loaded EXCEPT ![w] = tempFiles]
    BY <1>2 DEF LoadFiles, given, run
  <2>2. OfDisk(w)
    BY <1>0, <2>1, Moved DEF ThreadsOK
  <2>3. ThreadsOK' /\ RunOK' /\ FilesOK'
    BY <1>0, <2>1, <2>2, MoveKeeps, FilesFrame
  <2>4. TypeOK'
    BY <1>0, <1>1, <2>1, StageTyped DEF TypeOK, disk
  <2> QED
    BY <2>3, <2>4 DEF IInv
<1>3. CASE StoreFiles(w)
  <2>1. Rest /\ UNCHANGED <<failed, files, stuck>> /\ loaded' = [loaded EXCEPT ![w] = {}]
        /\ Move(w, "store", IF Kind(w) = "disk_io" THEN "loop" ELSE "create")
    BY <1>3 DEF StoreFiles, given, run
  <2>2. PICK to \in {"loop", "create"} : Move(w, "store", to) /\ (to = "loop" <=> Kind(w) = "disk_io")
    BY <2>1
  <2>3. OfDisk(w)
    BY <1>0, <2>2, Moved DEF ThreadsOK
  <2>4. ThreadsOK' /\ RunOK'
    BY <1>0, <2>1, <2>2, <2>3, MoveKeeps DEF OfDisk
  <2>5. FilesOK' /\ tempFiles' \subseteq Actions \X Nat /\ lost' \subseteq Actions \X Nat
    BY <1>3, StorePreserves
  <2>6. loaded' \in [Threads -> SUBSET (Actions \X Nat)] /\ stage' \in [Threads -> {"none", "load", "store", "loop", "write", "create", "fill", "hold", "done"}]
    BY <1>0, <2>1, <2>2, StageTyped DEF TypeOK
  <2>7. TypeOK'
    BY <1>0, <1>1, <2>1, <2>5, <2>6 DEF TypeOK
  <2> QED
    BY <2>4, <2>5, <2>7 DEF IInv
<1>4. CASE LetGo(w) \/ IOContinue(w) \/ Filled(w)
  <2>1. Rest /\ UNCHANGED <<loaded, failed, disk>>
    BY <1>4 DEF LetGo, IOContinue, Filled, given, run
  <2>2. PICK from, to : /\ Move(w, from, to)
                        /\ <<from, to>> \in {<<"hold", "done">>, <<"loop", "write">>, <<"fill", "hold">>}
    BY <1>4 DEF LetGo, IOContinue, Filled
  <2>3. /\ \/ from = "hold" /\ to = "done"
           \/ from = "loop" /\ to = "write"
           \/ from = "fill" /\ to = "hold"
        /\ stage[w] = from
    <3>1. stage[w] = from
      BY <1>0, <2>2, Moved
    <3>2. (from = "hold" /\ to = "done") \/ (from = "loop" /\ to = "write") \/ (from = "fill" /\ to = "hold")
      BY <2>2
    <3> QED
      BY <3>1, <3>2
  <2>4. to = "write" => Kind(w) = "disk_io"
    BY <1>0, <2>3 DEF ThreadsOK
  <2>5. ThreadsOK' /\ RunOK'
    BY <1>0, <2>1, <2>2, <2>3, <2>4, MoveKeeps
  <2>6. FilesOK'
    BY <1>0, <2>1, <2>2, <2>3, FilesFrame
  <2>7. TypeOK'
    BY <1>0, <1>1, <2>1, <2>2, <2>3, StageTyped DEF TypeOK, disk
  <2> QED
    BY <2>5, <2>6, <2>7 DEF IInv
<1>5. CASE CreateFails(w) \/ FillFails(w)
  <2>1. Rest /\ UNCHANGED <<loaded, disk>> /\ failed' = failed \cup {w[1]}
    BY <1>5 DEF CreateFails, FillFails, given, run
  <2>2. PICK from \in {"create", "fill"} : Move(w, from, "done")
    BY <1>5 DEF CreateFails, FillFails
  <2>3. ThreadsOK' /\ RunOK' /\ FilesOK'
    BY <1>0, <2>1, <2>2, MoveKeeps, FilesFrame
  <2>4. w[1] \in Known
    BY <1>0, <2>2, Moved DEF ThreadsOK
  <2>5. TypeOK'
    BY <1>0, <1>1, <2>1, <2>2, <2>4, StageTyped DEF TypeOK, disk
  <2> QED
    BY <2>3, <2>5 DEF IInv
<1>6. CASE CreateFile(w)
  <2>1. Rest /\ UNCHANGED <<loaded, failed, tempFiles, lost, stuck>> /\ Move(w, "create", "fill")
        /\ files' = files \cup {File(w)}
    BY <1>6 DEF CreateFile, given, run
  <2>2. Kind(w) = "disk_fill"
    BY <1>0, <2>1, Moved DEF ThreadsOK
  <2>3. ThreadsOK' /\ RunOK'
    BY <1>0, <2>1, <2>2, MoveKeeps
  <2>4. FilesOK' /\ files' \subseteq Actions \X Nat
    BY <2>1, WritePreserves
  <2>5. TypeOK'
    BY <1>0, <1>1, <2>1, <2>4, StageTyped DEF TypeOK
  <2> QED
    BY <2>3, <2>4, <2>5 DEF IInv
<1>7. ASSUME NEW b \in BOOLEAN, WriteFile(w, b)
      PROVE  IInv'
  <2>1. Rest /\ UNCHANGED <<loaded, failed, tempFiles, lost, stuck>> /\ Move(w, "write", "loop")
        /\ files' \in {files, files \cup {File(w)}}
    BY <1>7 DEF WriteFile, given, run
  <2>2. Kind(w) = "disk_io"
    BY <1>0, <2>1, Moved DEF ThreadsOK
  <2>3. ThreadsOK' /\ RunOK'
    BY <1>0, <2>1, <2>2, MoveKeeps
  <2>4. FilesOK' /\ files' \subseteq Actions \X Nat
    BY <2>1, WritePreserves
  <2>5. TypeOK'
    BY <1>0, <1>1, <2>1, <2>4, StageTyped DEF TypeOK
  <2> QED
    BY <2>3, <2>4, <2>5 DEF IInv
<1>8. ASSUME NEW b \in BOOLEAN, IODone(w, b)
      PROVE  IInv'
  <2>1. Rest /\ UNCHANGED <<loaded, failed, tempFiles, lost>> /\ Move(w, "loop", "done")
    BY <1>8 DEF IODone, given, run
  <2>2. ThreadsOK' /\ RunOK'
    BY <1>0, <2>1, MoveKeeps
  <2>3. FilesOK' /\ files' \subseteq files /\ stuck' \subseteq Actions \X Nat
    BY <1>8, DonePreserves
  <2>4. TypeOK'
    BY <1>0, <1>1, <2>1, <2>3, StageTyped DEF TypeOK
  <2> QED
    BY <2>2, <2>3, <2>4 DEF IInv
<1> QED
  BY <1>2, <1>3, <1>4, <1>5, <1>6, <1>7, <1>8 DEF ThreadStep

-----------------------------------------------------------------------------
(* Run, Rollback and the contexts.                                         *)

\* Nothing but Run's own position changes.
LEMMA FilesStay ==
  ASSUME FilesOK, UNCHANGED <<cfg, disk>>,
         \A w \in Threads : stage[w] \in {"loop", "write"} => stage'[w] = stage[w],
         \A w \in Threads : stage'[w] \in {"loop", "write", "create", "fill"} => stage'[w] = stage[w]
  PROVE  FilesOK'
<1>1. \A u \in Threads : File(u)' = File(u)
  BY DEF File, Kind
<1>2. ASSUME NEW f \in files, f[1] = "disk_io", f \notin stuck
      PROVE  \E u \in Threads : stage'[u] \in {"loop", "write"} /\ File(u) = f
  <2>1. PICK u \in Threads : stage[u] \in {"loop", "write"} /\ File(u) = f
    BY <1>2 DEF FilesOK
  <2> QED
    BY <2>1
<1>3. \A u \in Threads : stage'[u] \in {"loop", "write", "create", "fill"} => File(u) \in tempFiles \cup lost
  BY DEF FilesOK
<1> QED
  BY <1>1, <1>2, <1>3 DEF FilesOK, LeftoversExplained, disk

LEMMA BeginRunPreserves ==
  ASSUME IInv, BeginRun
  PROVE  IInv'
<1>1. /\ \A w \in Threads : stage[w] \in {"none", "done"} /\ stage'[w] = "none"
      /\ UNCHANGED <<cfg, cancelled, loaded, disk>>
      /\ pc' = "start" /\ reported' = {} /\ failed' = {}
  BY DEF IInv, RunOK, BeginRun
<1>2. FilesOK'
  BY <1>1, FilesStay DEF IInv
<1>3. ThreadsOK' /\ RunOK'
  BY <1>1 DEF ThreadsOK, RunOK
<1>4. TypeOK'
  <2>1. stage' \in [Threads -> {"none", "load", "store", "loop", "write", "create", "fill", "hold", "done"}]
    BY DEF BeginRun
  <2>2. next' \in Nat \ {0} /\ expired' \in BOOLEAN
    <3>1. next' = 1 /\ expired' = FALSE
      BY DEF BeginRun
    <3>2. next' \in Nat \ {0}
      BY <3>1
    <3> QED
      BY <3>1, <3>2
  <2>3. runs' \in Nat
    <3>1. runs \in Nat /\ runs' = runs + 1
      BY DEF BeginRun, IInv, TypeOK
    <3> QED
      BY <3>1
  <2> QED
    BY <1>1, <2>1, <2>2, <2>3 DEF IInv, TypeOK, disk
<1> QED
  BY <1>2, <1>3, <1>4 DEF IInv

LEMMA StartPreserves ==
  ASSUME IInv, StartAction
  PROVE  IInv'
<1>1. /\ pc = "start" /\ pc' = "start" /\ next \in Known /\ ~cfg.denied /\ next' = next + 1
      /\ UNCHANGED <<cfg, cancelled, expired, runs, reported, loaded, failed, disk>>
  BY DEF StartAction, given
<1>2. next \in Nat /\ cfg \in Configs
  BY DEF IInv, TypeOK
<1>3. /\ \A w \in Threads : stage'[w] = IF w \notin Crew(next) THEN stage[w]
                                        ELSE IF OfDisk(w) THEN "load" ELSE "hold"
      /\ \A w \in Crew(next) : stage[w] = "none"
  <2>1. \A w \in Threads : stage'[w] = IF w \notin Crew(next) THEN stage[w]
                                       ELSE IF OfDisk(w) THEN "load" ELSE "hold"
    BY DEF StartAction
  <2>2. ASSUME NEW w \in Crew(next)
        PROVE  stage[w] = "none"
    <3>1. w \in Threads /\ w[1] = next
      BY <1>1, <1>2, ConfigTyped
    <3>2. ~(w[1] < next)
      BY <1>2, <3>1
    <3> QED
      BY <1>1, <3>1, <3>2 DEF IInv, RunOK
  <2> QED
    BY <2>1, <2>2
<1>4. ThreadsOK'
  <2>1. Known' = Known /\ (\A i : Crew(i)' = Crew(i)) /\ (\A u : OfDisk(u)' = OfDisk(u) /\ Kind(u)' = Kind(u))
    BY <1>1 DEF Known, Crew, OfDisk, Kind
  <2> SUFFICES ASSUME NEW w \in Threads, stage'[w] # "none"
               PROVE  /\ w[1] \in Known /\ w \in Crew(w[1]) /\ ~cfg.denied
                      /\ stage'[w] \in {"load", "store"} => OfDisk(w)
                      /\ stage'[w] \in {"loop", "write"} => Kind(w) = "disk_io"
                      /\ stage'[w] \in {"create", "fill"} => Kind(w) = "disk_fill"
    BY <1>1, <2>1 DEF ThreadsOK
  <2>2. CASE w \in Crew(next)
    <3>1. w[1] = next
      BY <1>1, <1>2, <2>2, ConfigTyped
    <3> QED
      BY <1>1, <1>3, <2>2, <3>1
  <2>3. CASE w \notin Crew(next)
    BY <1>3, <2>3 DEF IInv, ThreadsOK
  <2> QED
    BY <2>2, <2>3
<1>5. RunOK'
  <2>1. ASSUME NEW w \in Threads, stage'[w] # "none"
        PROVE  w[1] < next'
    <3>1. CASE w \in Crew(next)
      <4>1. w[1] = next
        BY <1>1, <1>2, <3>1, ConfigTyped
      <4> QED
        BY <1>1, <1>2, <4>1
    <3>2. CASE w \notin Crew(next)
      <4>1. w[1] < next /\ w[1] \in Nat
        BY <1>1, <1>3, <2>1, <3>2 DEF IInv, RunOK, Threads
      <4> QED
        BY <1>1, <1>2, <4>1
    <3> QED
      BY <3>1, <3>2
  <2>2. ASSUME NEW i \in reported, NEW w \in Crew(i)
        PROVE  stage'[w] = "done"
    <3>1. w \in Threads /\ stage[w] = "done"
      BY <1>2, ConfigTyped DEF IInv, RunOK, TypeOK
    <3> QED
      BY <1>3, <3>1
  <2>3. \A i : Crew(i)' = Crew(i)
    BY <1>1 DEF Crew
  <2> QED
    BY <1>1, <2>1, <2>2, <2>3 DEF RunOK
<1>6. FilesOK'
  BY <1>1, <1>3, FilesStay DEF IInv
<1>7. TypeOK'
  <2>1. stage' \in [Threads -> {"none", "load", "store", "loop", "write", "create", "fill", "hold", "done"}]
    <3>1. \A w \in Threads : stage'[w] \in {"none", "load", "store", "loop", "write", "create", "fill", "hold", "done"}
      BY <1>3 DEF IInv, TypeOK
    <3>2. stage' = [w \in Threads |-> stage'[w]]
      BY DEF StartAction
    <3> QED
      BY <3>1, <3>2
  <2>2. Known' = Known
    BY <1>1 DEF Known
  <2> QED
    BY <1>1, <1>2, <2>1, <2>2 DEF IInv, TypeOK, disk
<1> QED
  BY <1>4, <1>5, <1>6, <1>7 DEF IInv

LEMMA RunPreserves ==
  ASSUME IInv, SkipUnknown \/ AllStarted \/ EndRun \/ StartDenied \/ (\E i \in 1 .. MaxActions : Report(i))
               \/ Cancel \/ Expire \/ UNCHANGED vars
  PROVE  IInv'
<1>1. UNCHANGED <<cfg, stage, loaded, disk, runs>>
  BY DEF SkipUnknown, AllStarted, EndRun, StartDenied, Report, Cancel, Expire, vars, given, run
<1>2. FilesOK'
  BY <1>1, FilesStay DEF IInv
<1>3. ThreadsOK'
  BY <1>1 DEF IInv, ThreadsOK, Known, Crew, OfDisk, Kind
<1>4. Known' = Known /\ \A i : Crew(i)' = Crew(i)
  BY <1>1 DEF Known, Crew
<1>5. TypeOK' /\ RunOK'
  <2>1. CASE SkipUnknown \/ AllStarted
    <3>1. next \in Nat \ {0} /\ next' \in Nat \ {0} /\ next' >= next
      BY <2>1 DEF IInv, TypeOK, SkipUnknown, AllStarted
    <3>2. \A w \in Threads : w[1] < next => w[1] < next'
      BY <3>1 DEF Threads
    <3> QED
      BY <1>1, <1>4, <2>1, <3>1, <3>2 DEF IInv, TypeOK, RunOK, SkipUnknown, AllStarted, given, run, disk
  <2>2. CASE EndRun
    <3>1. ASSUME NEW w \in Threads
          PROVE  stage[w] \in {"none", "done"}
      BY <2>2 DEF EndRun, IInv, ThreadsOK, RunOK
    <3> QED
      BY <1>1, <1>4, <2>2, <3>1 DEF IInv, TypeOK, RunOK, EndRun, disk
  <2>3. CASE StartDenied
    <3>1. \A w \in Threads : stage[w] = "none"
      BY <2>3 DEF StartDenied, IInv, ThreadsOK
    <3> QED
      BY <1>1, <1>4, <2>3, <3>1 DEF IInv, TypeOK, RunOK, StartDenied, given, disk
  <2>4. ASSUME NEW i \in 1 .. MaxActions, Report(i)
        PROVE  TypeOK' /\ RunOK'
    BY <1>1, <1>4, <2>4 DEF IInv, TypeOK, RunOK, Report, given, disk
  <2>5. CASE Cancel \/ Expire \/ UNCHANGED vars
    BY <1>1, <1>4, <2>5 DEF IInv, TypeOK, RunOK, Cancel, Expire, vars, given, run, disk
  <2> QED
    BY <2>1, <2>2, <2>3, <2>4, <2>5
<1> QED
  BY <1>2, <1>3, <1>5 DEF IInv

LEMMA RollbackPreserves ==
  ASSUME IInv, Rollback
  PROVE  IInv'
<1>1. PICK bad \in SUBSET (tempFiles \cap files) :
         files' = files \ (tempFiles \ bad) /\ stuck' = stuck \cup bad
  BY DEF Rollback
<1>2. /\ UNCHANGED <<cfg, cancelled, expired, next, runs, reported, stage, loaded, failed, lost>>
      /\ pc = "idle" /\ pc' = "over" /\ tempFiles' = {}
  BY DEF Rollback, given
<1>3. \A w \in Threads : stage[w] \in {"none", "done"}
  BY <1>2 DEF IInv, RunOK
<1>4. \A f \in files : f[1] = "disk_io" => f \in stuck
  BY <1>3 DEF IInv, FilesOK
<1>5. FilesOK'
  BY <1>1, <1>2, <1>3, <1>4 DEF IInv, FilesOK, LeftoversExplained
<1>6. Known' = Known /\ (\A i : Crew(i)' = Crew(i)) /\ ThreadsOK'
  BY <1>2, <1>3 DEF Known, Crew, IInv, ThreadsOK, OfDisk, Kind
<1>7. TypeOK' /\ RunOK'
  BY <1>1, <1>2, <1>6 DEF IInv, TypeOK, RunOK
<1> QED
  BY <1>5, <1>6, <1>7 DEF IInv

-----------------------------------------------------------------------------
(* The theorems.                                                           *)

\* The invariant of the goroutines and their files.
THEOREM StressInvariance == Spec => []IInv
<1>1. ASSUME Init
      PROVE  IInv
  <2>1. stage = [w \in Threads |-> "none"] /\ (\A w \in Threads : stage[w] = "none")
    BY <1>1 DEF Init
  <2>2. loaded \in [Threads -> SUBSET (Actions \X Nat)]
    BY <1>1 DEF Init
  <2>3. cfg \in Configs /\ pc = "idle" /\ next = 1 /\ runs = 0 /\ reported = {} /\ failed = {}
        /\ cancelled = FALSE /\ expired = FALSE
        /\ tempFiles = {} /\ files = {} /\ lost = {} /\ stuck = {}
    BY <1>1 DEF Init
  <2>4. TypeOK
    <3>1. stage \in [Threads -> {"none", "load", "store", "loop", "write", "create", "fill", "hold", "done"}]
      BY <2>1
    <3>2. next \in Nat \ {0} /\ runs \in Nat
      BY <2>3
    <3>3. cancelled \in BOOLEAN /\ expired \in BOOLEAN
      BY <2>3
    <3> QED
      BY <2>2, <2>3, <3>1, <3>2, <3>3 DEF TypeOK
  <2>5. ThreadsOK /\ RunOK /\ FilesOK
    BY <2>1, <2>3 DEF ThreadsOK, RunOK, FilesOK, LeftoversExplained
  <2> QED
    BY <2>4, <2>5 DEF IInv
<1>2. IInv /\ [Next]_vars => IInv'
  BY ThreadPreserves, BeginRunPreserves, StartPreserves, RunPreserves, RollbackPreserves
  DEF Next, RunStep, Finished
<1> QED
  BY <1>1, <1>2, PTL DEF Spec

\* The variables keep their types.
THEOREM StressTyped == Spec => []TypeOK
<1>1. IInv => TypeOK
  BY DEF IInv
<1> QED
  BY <1>1, StressInvariance, PTL

\* No goroutine survives its Run, and no file of disk_io does unless its
\* removal failed (stress.go:101, 232, 249).
THEOREM RunsEndQuiet == Spec => []QuietAfterRun
<1>1. IInv => QuietAfterRun
  BY DEF IInv, RunOK, FilesOK, QuietAfterRun, Alive
<1> QED
  BY <1>1, StressInvariance, PTL

\* Of every file that is left it is known why (stress.go:226, 266-272, 122-130).
THEOREM LeftoversAreKnown == Spec => []LeftoversExplained
<1>1. IInv => LeftoversExplained
  BY DEF IInv, FilesOK
<1> QED
  BY <1>1, StressInvariance, PTL

-----------------------------------------------------------------------------
(* Why a Run ends: Run or a thread can always go on or the context is not  *)
(* done yet, and once it is every step brings a thread closer to its end.  *)
(* RunCan and ThreadCan say when RunStep and ThreadStep can be taken.      *)

ReportCan(i) ==
  /\ i \in Known \ reported /\ \A w \in Crew(i) : stage[w] = "done"
  /\ Cardinality(reported) < Len(cfg.actions)

RunCan == pc = "start" \/ (pc = "wait" /\ reported = Known) \/ \E i \in Known : ReportCan(i)

ThreadCan(w) == stage[w] \notin {"none", "hold", "done"} \/ (stage[w] = "hold" /\ StressDone)

\* the steps a thread may take once the context is done
ThreadLeft(w) ==
  [load |-> 5, store |-> 4, create |-> 3, fill |-> 2, hold |-> 1,
   write |-> 2, loop |-> 1, none |-> 0, done |-> 0][stage[w]]

\* The actions Run has come to have their threads.
StartedOK ==
  /\ pc = "start" => \A i \in Known : i < next => \A w \in Crew(i) : stage[w] # "none"
  /\ pc = "wait" => \A i \in Known : \A w \in Crew(i) : stage[w] # "none"

StartedInv == IInv /\ StartedOK

LEMMA StartedPreserved ==
  ASSUME IInv, StartedOK, [Next]_vars
  PROVE  StartedOK'
<1>1. cfg \in Configs /\ next \in Nat \ {0} /\ stage \in [Threads -> {"none", "load", "store", "loop", "write", "create", "fill", "hold", "done"}]
  BY DEF IInv, TypeOK
<1>2. \A i \in Known : Crew(i) \subseteq Threads /\ i \in Nat /\ i <= Len(cfg.actions)
  BY <1>1, ConfigTyped
<1>3. ASSUME NEW w \in Threads, ThreadStep(w)
      PROVE  StartedOK'
  <2>1. UNCHANGED <<cfg, pc, next>>
    BY <1>3 DEF ThreadStep, LoadFiles, StoreFiles, LetGo, IOContinue, CreateFails, CreateFile, FillFails,
       Filled, IODone, WriteFile, given, run
  <2>2. stage'[w] # "none" /\ \A u \in Threads : u # w => stage'[u] = stage[u]
    BY <1>1, <1>3 DEF ThreadStep, LoadFiles, StoreFiles, LetGo, IOContinue, CreateFails, CreateFile, FillFails,
       Filled, IODone, WriteFile, Move
  <2>3. Known' = Known /\ \A i : Crew(i)' = Crew(i)
    BY <2>1 DEF Known, Crew
  <2> QED
    BY <1>2, <2>1, <2>2, <2>3 DEF StartedOK
<1>4. CASE StartAction
  <2>1. /\ UNCHANGED <<cfg, pc>> /\ next' = next + 1 /\ pc = "start"
        /\ \A u \in Threads : stage'[u] = stage[u] \/ stage'[u] # "none"
        /\ \A u \in Crew(next) \cap Threads : stage'[u] # "none"
    BY <1>4 DEF StartAction, given
  <2>2. Known' = Known /\ \A i : Crew(i)' = Crew(i)
    BY <2>1 DEF Known, Crew
  <2>3. \A i \in Known : i < next + 1 => (i < next \/ i = next)
    BY <1>1, <1>2
  <2> QED
    BY <1>2, <2>1, <2>2, <2>3 DEF StartedOK
<1>5. CASE BeginRun
  <2>1. pc' = "start" /\ next' = 1 /\ cfg' = cfg
    BY <1>5 DEF BeginRun
  <2>2. \A i \in Known : i >= 1
    BY <1>1, ConfigTyped
  <2>3. \A i \in Known' : ~(i < 1)
    BY <2>1, <2>2, <1>2 DEF Known
  <2> QED
    BY <2>1, <2>3 DEF StartedOK
<1>6. CASE SkipUnknown \/ AllStarted
  <2>1. UNCHANGED <<cfg, stage>> /\ pc = "start"
        /\ \/ pc' = "start" /\ next' = next + 1 /\ next \notin Known
           \/ pc' = "wait" /\ next' = next /\ next > Len(cfg.actions)
    BY <1>6 DEF SkipUnknown, AllStarted, given
  <2>2. Known' = Known /\ \A i : Crew(i)' = Crew(i)
    BY <2>1 DEF Known, Crew
  <2>3. \A i \in Known : /\ (next \notin Known /\ i < next + 1) => i < next
                         /\ next > Len(cfg.actions) => i < next
    BY <1>1, <1>2, ConfigTyped
  <2> QED
    BY <2>1, <2>2, <2>3 DEF StartedOK
<1>7. CASE StartDenied \/ EndRun \/ Rollback
  BY <1>7 DEF StartDenied, EndRun, Rollback, StartedOK
<1>8. CASE (\E i \in 1 .. MaxActions : Report(i)) \/ Cancel \/ Expire \/ UNCHANGED vars
  <2>1. UNCHANGED <<cfg, pc, next, stage>>
    BY <1>8 DEF Report, Cancel, Expire, vars, given, run
  <2> QED
    BY <2>1 DEF StartedOK, Known, Crew
<1> QED
  BY <1>3, <1>4, <1>5, <1>6, <1>7, <1>8 DEF Next, RunStep, Finished

LEMMA StartedInvariance == Spec => []StartedInv
<1>1. Init => StartedOK
  BY DEF Init, StartedOK
<1>2. IInv /\ StartedOK /\ [Next]_vars => StartedOK'
  BY StartedPreserved
<1> QED
  BY <1>1, <1>2, StressInvariance, PTL DEF Spec, StartedInv

\* Nobody waits for ever: while Run waits, an action has still to report and may,
\* for errCh has room for it, or one of its threads may go on, or the context
\* is not done yet (stress.go:52, 56-101).
THEOREM NoRunIsStuck ==
  Spec => [](pc \in {"start", "wait"} =>
               RunCan \/ (\E w \in Threads : ThreadCan(w)) \/ ~StressDone)
<1>1. ASSUME StartedInv, pc = "wait", StressDone, reported # Known,
             \A w \in Threads : ~ThreadCan(w)
      PROVE  \E i \in Known : ReportCan(i)
  <2>1. cfg \in Configs /\ reported \subseteq Known
    BY <1>1 DEF StartedInv, IInv, TypeOK
  <2>2. PICK i \in Known : i \notin reported
    BY <1>1, <2>1
  <2>3. \A w \in Crew(i) : stage[w] = "done"
    <3>1. \A w \in Crew(i) : w \in Threads
      BY <2>1, ConfigTyped
    <3> QED
      BY <1>1, <3>1 DEF StartedInv, StartedOK, ThreadCan
  <2>4. Cardinality(reported) < Len(cfg.actions)
    <3> DEFINE n == Len(cfg.actions)
    <3>1. Known \subseteq 1 .. n /\ n \in Nat
      BY <2>1, ConfigTyped
    <3>2. reported \subseteq 1 .. n /\ reported # 1 .. n
      BY <2>1, <2>2, <3>1
    <3> HIDE DEF n
    <3>3. IsFiniteSet(1 .. n) /\ Cardinality(1 .. n) = n
      BY <3>1, FS_Interval
    <3>4. Cardinality(reported) \in Nat
      BY <3>2, <3>3, FS_Subset, FS_CardinalityType
    <3>5. Cardinality(reported) <= n /\ Cardinality(reported) # n
      BY <3>2, <3>3, FS_Subset
    <3>6. Cardinality(reported) < n
      BY <3>1, <3>4, <3>5
    <3> QED
      BY <3>6 DEF n
  <2> QED
    BY <2>2, <2>3, <2>4 DEF ReportCan
<1>2. StartedInv => (pc \in {"start", "wait"} => RunCan \/ (\E w \in Threads : ThreadCan(w)) \/ ~StressDone)
  BY <1>1 DEF RunCan
<1> QED
  BY StartedInvariance, <1>2, PTL

\* Once the context is done it stays so until Run returns, and every step of a
\* thread is one nearer to its end; a thread goes back only as disk_io does,
\* to its next write, and only before (stress.go:101, 226-272).
THEOREM ThreadsComeToAnEnd ==
  Spec => /\ [](\A w \in Threads : ThreadLeft(w) \in Nat)
          /\ [][/\ pc # "idle" /\ StressDone => StressDone'
                /\ \A w \in Threads :
                     IF ThreadStep(w)
                     THEN ThreadLeft(w)' < ThreadLeft(w) \/ (IOContinue(w) /\ ~StressDone)
                     ELSE ThreadLeft(w)' = ThreadLeft(w) \/ StartAction]_vars
<1>1. IInv => \A w \in Threads : ThreadLeft(w) \in Nat
  BY DEF IInv, TypeOK, ThreadLeft
<1>2. ASSUME IInv, Next, NEW w \in Threads
      PROVE  IF ThreadStep(w)
             THEN ThreadLeft(w)' < ThreadLeft(w) \/ (IOContinue(w) /\ ~StressDone)
             ELSE ThreadLeft(w)' = ThreadLeft(w) \/ StartAction
  <2>1. TypeOK /\ RunOK /\ ThreadsOK
    BY <1>2 DEF IInv
  <2>2. CASE ThreadStep(w)
    <3>1. PICK from, to : /\ Move(w, from, to)
                          /\ \/ from = "load" /\ to = "store"
                             \/ from = "store" /\ to \in {"loop", "create"}
                             \/ from = "hold" /\ to = "done"
                             \/ from = "loop" /\ to = "done"
                             \/ from = "loop" /\ to = "write" /\ IOContinue(w) /\ ~StressDone
                             \/ from = "write" /\ to = "loop"
                             \/ from = "create" /\ to \in {"done", "fill"}
                             \/ from = "fill" /\ to \in {"done", "hold"}
      BY <2>2 DEF ThreadStep, LoadFiles, StoreFiles, LetGo, IOContinue, CreateFails, CreateFile, FillFails,
         Filled, IODone, WriteFile
    <3>2. stage[w] = from /\ stage'[w] = to
      BY <2>1, <3>1, Moved
    <3> QED
      BY <2>2, <3>1, <3>2 DEF ThreadLeft
  <2>3. CASE ~ThreadStep(w) /\ ~StartAction
    <3>1. CASE BeginRun
      <4>1. stage[w] \in {"none", "done"} /\ stage'[w] = "none"
        BY <2>1, <3>1 DEF BeginRun, RunOK
      <4> QED
        BY <2>3, <4>1 DEF ThreadLeft
    <3>2. CASE RunStep \/ Rollback \/ Cancel \/ Expire \/ Finished
      <4>1. stage' = stage
        BY <2>3, <3>2 DEF RunStep, StartDenied, SkipUnknown, AllStarted, EndRun, Report, Rollback, Cancel, Expire,
           Finished, vars
      <4> QED
        BY <2>3, <4>1 DEF ThreadLeft
    <3>3. ASSUME NEW u \in Threads, ThreadStep(u)
          PROVE  ThreadLeft(w)' = ThreadLeft(w)
      <4>1. u # w
        BY <2>3, <3>3
      <4>2. PICK from, to : Move(u, from, to)
        BY <3>3 DEF ThreadStep, LoadFiles, StoreFiles, LetGo, IOContinue, CreateFails, CreateFile, FillFails,
           Filled, IODone, WriteFile
      <4>3. stage'[w] = stage[w]
        BY <2>1, <4>1, <4>2, Moved
      <4> QED
        BY <4>3 DEF ThreadLeft
    <3> QED
      BY <1>2, <2>3, <3>1, <3>2, <3>3 DEF Next
  <2>4. CASE ~ThreadStep(w) /\ StartAction
    BY <2>4
  <2> QED
    BY <2>2, <2>3, <2>4
<1>3. ASSUME Next, pc # "idle", StressDone
      PROVE  StressDone'
  <2>1. ASSUME NEW w \in Threads, ThreadStep(w)
        PROVE  cancelled' = cancelled /\ expired' = expired
    BY <2>1 DEF ThreadStep, LoadFiles, StoreFiles, LetGo, IOContinue, CreateFails, CreateFile, FillFails,
       Filled, IODone, WriteFile, given
  <2>2. ~BeginRun /\ ~Rollback
    BY <1>3 DEF BeginRun, Rollback
  <2>3. CASE RunStep \/ Cancel \/ Expire \/ Finished
    BY <1>3, <2>3 DEF RunStep, StartDenied, StartAction, SkipUnknown, AllStarted, EndRun, Report, Cancel, Expire,
       Finished, vars, given, StressDone
  <2> QED
    BY <1>3, <2>1, <2>2, <2>3 DEF Next, StressDone
<1>4. IInv /\ [Next]_vars =>
        [/\ pc # "idle" /\ StressDone => StressDone'
         /\ \A w \in Threads :
              IF ThreadStep(w)
              THEN ThreadLeft(w)' < ThreadLeft(w) \/ (IOContinue(w) /\ ~StressDone)
              ELSE ThreadLeft(w)' = ThreadLeft(w) \/ StartAction]_vars
  BY <1>2, <1>3
<1> QED
  BY StressInvariance, <1>1, <1>4, PTL DEF Spec
=============================================================================
