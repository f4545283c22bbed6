--------------------------- MODULE NetworkProofs ---------------------------
(***************************************************************************)
(* For every configuration, state of the kernel beforehand and behaviour   *)
(* of the commands, and any number of Runs: what is on record is there to  *)
(* be undone, as long as nothing leaks all that was injected is on record, *)
(* and every step of a call brings it closer to its end.                   *)
(***************************************************************************)
EXTENDS Network, FiniteSetTheorems, SequenceTheorems, TLAPS

\* Where a command is executed there is one.
AtCommand ==
  pc \in {"inject", "adding"} => /\ Action \in Actions
                                 /\ cmd \in DOMAIN Commands(Action)

AtUndo == pc = "undoing" => pos > 0

IInv == TypeOK /\ AtCommand /\ AtUndo /\ RecordsAreReal /\ InjectedIsRecorded

-----------------------------------------------------------------------------
(* Counting the records of a rule. *)

Count(s, n, k) == Cardinality({i \in 1 .. n : s[i] = k})

LEMMA CountNat ==
  ASSUME NEW s, NEW n \in Nat, NEW k
  PROVE  /\ IsFiniteSet({i \in 1 .. n : s[i] = k})
         /\ Count(s, n, k) \in Nat
<1>1. IsFiniteSet(1 .. n)
  BY FS_Interval
<1>2. IsFiniteSet({i \in 1 .. n : s[i] = k})
  BY <1>1, FS_Subset
<1> QED  BY <1>2, FS_CardinalityType DEF Count

LEMMA CountNone == ASSUME NEW s, NEW k PROVE Count(s, 0, k) = 0
<1>1. {i \in 1 .. 0 : s[i] = k} = {}
  OBVIOUS
<1> QED  BY <1>1, FS_EmptySet DEF Count

\* one index more
LEMMA CountStep ==
  ASSUME NEW s, NEW n \in Nat, NEW k
  PROVE  /\ s[n + 1] = k => Count(s, n + 1, k) = Count(s, n, k) + 1
         /\ s[n + 1] # k => Count(s, n + 1, k) = Count(s, n, k)
<1> DEFINE T == {i \in 1 .. n : s[i] = k}
           U == {i \in 1 .. n + 1 : s[i] = k}
<1>1. IsFiniteSet(T) /\ Cardinality(T) \in Nat
  BY CountNat DEF Count
<1>2. CASE s[n + 1] = k
  <2>1. U = T \cup {n + 1} /\ n + 1 \notin T
    BY <1>2
  <2>2. Cardinality(U) = Cardinality(T) + 1
    BY <1>1, <2>1, FS_AddElement
  <2> QED  BY <1>2, <2>2 DEF Count
<1>3. CASE s[n + 1] # k
  <2>1. U = T
    BY <1>3
  <2> QED  BY <1>1, <1>3, <2>1 DEF Count
<1> QED  BY <1>2, <1>3

\* a record made is counted, and only for its rule
LEMMA CountAppend ==
  ASSUME NEW s \in Seq(Rules), NEW r \in Rules, NEW k
  PROVE  /\ Append(s, r) \in Seq(Rules)
         /\ Len(Append(s, r)) = Len(s) + 1
         /\ r = k => Count(Append(s, r), Len(s) + 1, k) = Count(s, Len(s), k) + 1
         /\ r # k => Count(Append(s, r), Len(s) + 1, k) = Count(s, Len(s), k)
<1> DEFINE t == Append(s, r)
           n == Len(s)
<1>1. /\ t \in Seq(Rules) /\ Len(t) = n + 1 /\ n \in Nat
      /\ \A i \in 1 .. n : t[i] = s[i]
      /\ t[n + 1] = r
  BY AppendProperties, LenProperties
<1> HIDE DEF t, n
<1>2. {i \in 1 .. n : t[i] = k} = {i \in 1 .. n : s[i] = k}
  BY <1>1
<1>3. Count(t, n, k) = Count(s, n, k)
  BY <1>2 DEF Count
<1>4. /\ t[n + 1] = k => Count(t, n + 1, k) = Count(t, n, k) + 1
      /\ t[n + 1] # k => Count(t, n + 1, k) = Count(t, n, k)
  BY <1>1, CountStep
<1>5. /\ t \in Seq(Rules) /\ Len(t) = n + 1
      /\ r = k => Count(t, n + 1, k) = Count(s, n, k) + 1
      /\ r # k => Count(t, n + 1, k) = Count(s, n, k)
  BY <1>1, <1>3, <1>4
<1> QED  BY <1>5 DEF t, n

-----------------------------------------------------------------------------
LEMMA LeftTyped == TypeOK => Left \in Nat /\ Left <= Len(applied) /\ Len(applied) \in Nat
BY LenProperties DEF TypeOK, Left

LEMMA RuleTyped ==
  ASSUME TypeOK, AtCommand, pc \in {"inject", "adding"}
  PROVE  Rule \in Rules
BY DEF AtCommand, Rule, Commands, Rules

LEMMA InitIInv == Init => IInv
<1> SUFFICES ASSUME Init PROVE IInv
  OBVIOUS
<1> USE NetworkAssumption
<1>1. /\ rules \in [Rules -> Nat] /\ rules["qdisc"] <= 1 /\ before = rules
      /\ applied = <<>> /\ pc = "idle"
  BY DEF Init
<1>2. <<>> \in Seq(Rules) /\ Len(<<>>) = 0
  OBVIOUS
<1>3. TypeOK
  <2>1. applied \in Seq(Rules) /\ Len(applied) = 0 /\ pos = 0
    BY <1>1, <1>2 DEF Init
  <2>2. pos \in 0 .. Len(applied)
    BY <2>1
  <2>3. runs \in 0 .. MaxRuns /\ act \in Nat \ {0} /\ cmd \in {1, 2}
    BY DEF Init
  <2>4. cfg \in Configs /\ final = FALSE /\ cancelled = FALSE /\ expired = FALSE /\ leaks = {}
    BY DEF Init
  <2> QED  BY <1>1, <2>1, <2>2, <2>3, <2>4 DEF TypeOK
<1>4. AtCommand /\ AtUndo
  BY <1>1 DEF AtCommand, AtUndo
<1>5. \A k \in Rules : ToUndo(k) = 0
  BY <1>1, <1>2, CountNone DEF ToUndo, Left, Count
<1>6. \A k \in Rules : rules[k] = before[k] /\ rules[k] \in Nat
  BY <1>1
<1> QED  BY <1>3, <1>4, <1>5, <1>6 DEF IInv, RecordsAreReal, InjectedIsRecorded

LEMMA NextTypeOK == TypeOK /\ AtCommand /\ AtUndo /\ [Next]_vars => TypeOK'
<1> SUFFICES ASSUME TypeOK, AtCommand, AtUndo, [Next]_vars PROVE TypeOK'
  OBVIOUS
<1> USE NetworkAssumption
<1>1. CASE BeginRun
  BY <1>1 DEF TypeOK, BeginRun, context
<1>2. CASE Interrupted \/ Denied \/ BeginAction \/ StartAdd \/ EndActions
  BY <1>2 DEF TypeOK, Interrupted, Denied, BeginAction, StartAdd, EndActions, context
<1>3. CASE SkipUnknown
  BY <1>3 DEF TypeOK, SkipUnknown, context
<1>4. CASE AddSucceeds
  <2>1. Rule \in Rules
    BY <1>4, RuleTyped DEF AddSucceeds
  <2>2. applied' \in Seq(Rules) /\ Len(applied') = Len(applied) + 1 /\ Len(applied) \in Nat
    BY <1>4, <2>1, CountAppend, LenProperties DEF AddSucceeds, TypeOK
  <2>3. rules' \in [Rules -> Nat] /\ rules'["qdisc"] <= 1
    BY <1>4, <2>1 DEF AddSucceeds, Effect, TypeOK
  <2>4. cmd' \in {1, 2} /\ act' \in Nat \ {0} /\ pc' \in {"inject", "actions"}
    BY <1>4, <2>1 DEF AddSucceeds, TypeOK, AtCommand, Commands
  <2>5. pos' \in 0 .. Len(applied')
    BY <1>4, <2>2 DEF TypeOK, AddSucceeds
  <2>6. UNCHANGED <<cfg, final, cancelled, expired, runs, before, leaks>>
    BY <1>4 DEF AddSucceeds, context
  <2> QED  BY <2>2, <2>3, <2>4, <2>5, <2>6 DEF TypeOK
<1>5. ASSUME NEW done \in BOOLEAN, AddFails(done) PROVE TypeOK'
  <2>1. Rule \in Rules
    BY <1>5, RuleTyped DEF AddFails
  <2>2. rules' \in [Rules -> Nat] /\ rules'["qdisc"] <= 1
    BY <1>5, <2>1 DEF AddFails, Effect, TypeOK
  <2> QED  BY <1>5, <2>2 DEF TypeOK, AddFails, context
<1>6. CASE Elapse \/ BeginRollback
  <2>1. Len(applied) \in Nat
    BY LenProperties DEF TypeOK
  <2>2. UNCHANGED <<cfg, rules, applied, act, cmd, cancelled, expired, runs, before, leaks>>
    BY <1>6 DEF Elapse, BeginRollback, context
  <2>3. pos' = Len(applied) /\ pc' = "undo" /\ final' \in BOOLEAN
    BY <1>6 DEF TypeOK, Elapse, BeginRollback
  <2>4. pos' \in 0 .. Len(applied)
    BY <2>1, <2>3
  <2> QED  BY <2>2, <2>3, <2>4 DEF TypeOK
<1>7. CASE UndoNotStarted
  BY <1>7, LenProperties DEF TypeOK, UndoNotStarted, Leaked, context
<1>8. CASE StartUndo
  BY <1>8 DEF TypeOK, StartUndo, context
<1>9. ASSUME NEW done \in BOOLEAN, UndoEnds(done) PROVE TypeOK'
  <2>1. pos \in 1 .. Len(applied) /\ Len(applied) \in Nat /\ applied[pos] \in Rules
    BY <1>9, LenProperties, ElementOfSeq DEF UndoEnds, AtUndo, TypeOK
  <2>2. rules' \in [Rules -> Nat] /\ rules'["qdisc"] <= 1
    BY <1>9, <2>1 DEF UndoEnds, TypeOK
  <2>3. pos' \in 0 .. Len(applied')
    BY <1>9, <2>1 DEF UndoEnds
  <2> QED  BY <1>9, <2>2, <2>3 DEF TypeOK, UndoEnds, Leaked, context
<1>10. CASE EndRollback
  <2>1. <<>> \in Seq(Rules) /\ Len(<<>>) = 0
    OBVIOUS
  <2> QED  BY <1>10, <2>1 DEF TypeOK, EndRollback, context
<1>11. CASE Cancel \/ Expire
  BY <1>11 DEF TypeOK, Cancel, Expire, control
<1>12. CASE UNCHANGED vars
  BY <1>12 DEF TypeOK, vars, control, context
<1> QED
  BY <1>1, <1>2, <1>3, <1>4, <1>5, <1>6, <1>7, <1>8, <1>9, <1>10, <1>11, <1>12
  DEF Next, RunStep, RollbackStep, Finished

LEMMA NextAt == TypeOK /\ AtCommand /\ AtUndo /\ [Next]_vars => AtCommand' /\ AtUndo'
<1> SUFFICES ASSUME TypeOK, AtCommand, AtUndo, [Next]_vars PROVE AtCommand' /\ AtUndo'
  OBVIOUS
<1>1. CASE BeginRun \/ Interrupted \/ SkipUnknown \/ Denied \/ EndActions \/ Elapse
           \/ BeginRollback \/ UndoNotStarted \/ EndRollback
           \/ (\E done \in BOOLEAN : AddFails(done) \/ UndoEnds(done))
  BY <1>1 DEF AtCommand, AtUndo, BeginRun, Interrupted, SkipUnknown, Denied, EndActions, Elapse,
              BeginRollback, UndoNotStarted, EndRollback, AddFails, UndoEnds, AtAction
<1>2. CASE BeginAction
  BY <1>2 DEF AtCommand, AtUndo, BeginAction, AtAction, Action, Commands
<1>3. CASE StartAdd
  BY <1>3 DEF AtCommand, AtUndo, StartAdd, Action
<1>4. CASE AddSucceeds
  BY <1>4 DEF AtCommand, AtUndo, AddSucceeds, Action, Commands
<1>5. CASE StartUndo
  BY <1>5 DEF AtCommand, AtUndo, StartUndo
<1>6. CASE Cancel \/ Expire \/ UNCHANGED vars
  BY <1>6 DEF AtCommand, AtUndo, Cancel, Expire, vars, control, Action
<1> QED
  BY <1>1, <1>2, <1>3, <1>4, <1>5, <1>6 DEF Next, RunStep, RollbackStep, Finished

-----------------------------------------------------------------------------
(* The records and the kernel. *)

Records == RecordsAreReal /\ InjectedIsRecorded

\* Steps that leave the kernel, the record and what is left of it alone
LEMMA SameRecords ==
  ASSUME Records, UNCHANGED <<rules, before, leaks, applied>>, Left' = Left
  PROVE  Records'
<1>1. \A k : ToUndo(k)' = ToUndo(k)
  BY DEF ToUndo
<1> QED  BY <1>1 DEF Records, RecordsAreReal, InjectedIsRecorded

\* What is to be shown of the others, rule by rule
LEMMA EachRule ==
  ASSUME before' = before,
         \A k \in Rules : /\ rules'[k] >= before[k] + ToUndo(k)'
                          /\ leaks' = {} => rules'[k] = before[k] + ToUndo(k)'
  PROVE  Records'
BY DEF Records, RecordsAreReal, InjectedIsRecorded

LEMMA NextRecords == TypeOK /\ AtCommand /\ AtUndo /\ Records /\ [Next]_vars => Records'
<1> SUFFICES ASSUME TypeOK, AtCommand, AtUndo, Records, [Next]_vars PROVE Records'
  OBVIOUS
<1>0. /\ rules \in [Rules -> Nat] /\ before \in [Rules -> Nat] /\ applied \in Seq(Rules)
      /\ Left \in Nat /\ Len(applied) \in Nat
  BY LeftTyped DEF TypeOK
<1>a. ASSUME NEW k \in Rules
      PROVE  /\ rules[k] \in Nat /\ before[k] \in Nat
             /\ ToUndo(k) = Count(applied, Left, k) /\ ToUndo(k) \in Nat
             /\ rules[k] >= before[k] + ToUndo(k)
             /\ leaks = {} => rules[k] = before[k] + ToUndo(k)
  <2>1. ToUndo(k) = Count(applied, Left, k)
    BY DEF ToUndo, Count
  <2>2. ToUndo(k) \in Nat
    BY <1>0, <2>1, CountNat
  <2> QED  BY <1>0, <2>1, <2>2 DEF Records, RecordsAreReal, InjectedIsRecorded
<1>1. CASE BeginRun \/ Interrupted \/ SkipUnknown \/ Denied \/ BeginAction \/ StartAdd
           \/ EndActions \/ Cancel \/ Expire \/ UNCHANGED vars
  <2>1. UNCHANGED <<rules, before, leaks, applied>> /\ Left' = Left
    BY <1>1 DEF BeginRun, Interrupted, SkipUnknown, Denied, BeginAction, StartAdd, EndActions,
                Cancel, Expire, vars, control, Left, AtAction
  <2> QED  BY <2>1, SameRecords
<1>2. CASE Elapse \/ BeginRollback \/ StartUndo
  <2>1. UNCHANGED <<rules, before, leaks, applied>> /\ Left' = Left
    BY <1>2 DEF Elapse, BeginRollback, StartUndo, Left
  <2> QED  BY <2>1, SameRecords
<1>3. CASE AddSucceeds
  <2>1. Rule \in Rules /\ applied' = Append(applied, Rule) /\ UNCHANGED <<before, leaks>>
    BY <1>3, RuleTyped DEF AddSucceeds
  <2>2. Left = Len(applied) /\ Left' = Len(applied')
    BY <1>3 DEF AddSucceeds, Left
  <2>3. Len(applied') = Len(applied) + 1
    BY <1>0, <2>1, CountAppend
  <2>4. ASSUME NEW k \in Rules
        PROVE  /\ rules'[k] >= before[k] + ToUndo(k)'
               /\ leaks' = {} => rules'[k] = before[k] + ToUndo(k)'
    <3>1. ToUndo(k)' = Count(Append(applied, Rule), Len(applied) + 1, k)
      BY <2>1, <2>2, <2>3 DEF ToUndo, Count
    <3>2. CASE Rule = k
      <4>1. ToUndo(k)' = ToUndo(k) + 1
        BY <1>0, <1>a, <2>1, <2>2, <3>1, <3>2, CountAppend
      <4>2. rules'[k] = rules[k] + 1
        BY <1>0, <1>3, <2>1, <3>2 DEF AddSucceeds, Effect
      <4> QED  BY <1>a, <2>1, <4>1, <4>2
    <3>3. CASE Rule # k
      <4>1. ToUndo(k)' = ToUndo(k)
        BY <1>0, <1>a, <2>1, <2>2, <3>1, <3>3, CountAppend
      <4>2. rules'[k] = rules[k]
        BY <1>0, <1>3, <2>1, <3>3 DEF AddSucceeds, Effect
      <4> QED  BY <1>a, <2>1, <4>1, <4>2
    <3> QED  BY <3>2, <3>3
  <2> QED  BY <2>1, <2>4, EachRule
<1>4. ASSUME NEW done \in BOOLEAN, AddFails(done) PROVE Records'
  <2>1. Rule \in Rules /\ UNCHANGED <<before, applied>> /\ Left' = Left
    BY <1>4, RuleTyped DEF AddFails, Left
  <2>2. leaks' = {} => ~done /\ leaks = {}
    BY <1>4 DEF AddFails
  <2>3. ASSUME NEW k \in Rules
        PROVE  /\ rules'[k] >= before[k] + ToUndo(k)'
               /\ leaks' = {} => rules'[k] = before[k] + ToUndo(k)'
    <3>1. ToUndo(k)' = ToUndo(k)
      BY <2>1 DEF ToUndo
    <3>2. /\ rules'[k] \in {rules[k], rules[k] + 1}
          /\ ~done => rules'[k] = rules[k]
      BY <1>0, <1>4, <2>1 DEF AddFails, Effect
    <3> QED  BY <1>a, <2>2, <3>1, <3>2
  <2> QED  BY <2>1, <2>3, EachRule
<1>5. CASE UndoNotStarted
  <2>1. pos - 1 \in Nat /\ (pos - 1) + 1 = pos
    BY <1>0, <1>5 DEF UndoNotStarted, TypeOK
  <2>2. Left = pos /\ Left' = pos - 1 /\ UNCHANGED <<rules, before, applied>> /\ leaks' # {}
    BY <1>5 DEF UndoNotStarted, Left, Leaked
  <2>3. ASSUME NEW k \in Rules
        PROVE  /\ rules'[k] >= before[k] + ToUndo(k)'
               /\ leaks' = {} => rules'[k] = before[k] + ToUndo(k)'
    <3>1. ToUndo(k)' = Count(applied, pos - 1, k)
      BY <2>2 DEF ToUndo, Count
    <3>2. ToUndo(k)' \in Nat
      BY <2>1, <3>1, CountNat
    <3>3. /\ applied[pos] = k => ToUndo(k) = ToUndo(k)' + 1
          /\ applied[pos] # k => ToUndo(k) = ToUndo(k)'
      BY <1>a, <2>1, <2>2, <3>1, CountStep
    <3> QED  BY <1>a, <2>2, <3>2, <3>3
  <2> QED  BY <2>2, <2>3, EachRule
<1>6. ASSUME NEW done \in BOOLEAN, UndoEnds(done) PROVE Records'
  <2> DEFINE r == applied[pos]
  <2>1. pos - 1 \in Nat /\ (pos - 1) + 1 = pos /\ r \in Rules
    BY <1>0, <1>6, ElementOfSeq DEF UndoEnds, AtUndo, TypeOK
  <2>2. Left = pos /\ Left' = pos - 1 /\ UNCHANGED <<before, applied>>
    BY <1>6 DEF UndoEnds, Left
  <2>3. leaks' = {} => done /\ leaks = {}
    BY <1>6 DEF UndoEnds, Leaked
  <2>4. ASSUME NEW k \in Rules
        PROVE  /\ rules'[k] >= before[k] + ToUndo(k)'
               /\ leaks' = {} => rules'[k] = before[k] + ToUndo(k)'
    <3>1. ToUndo(k)' = Count(applied, pos - 1, k)
      BY <2>2 DEF ToUndo, Count
    <3>2. ToUndo(k)' \in Nat
      BY <2>1, <3>1, CountNat
    <3>3. CASE r = k
      <4>1. ToUndo(k) = ToUndo(k)' + 1
        BY <1>a, <2>1, <2>2, <3>1, <3>3, CountStep
      <4>2. /\ rules'[k] \in {rules[k], rules[k] - 1}
            /\ done => rules'[k] = rules[k] - 1
        BY <1>0, <1>6, <2>1, <3>3 DEF UndoEnds
      <4> QED  BY <1>a, <2>3, <3>2, <4>1, <4>2
    <3>4. CASE r # k
      <4>1. ToUndo(k) = ToUndo(k)'
        BY <1>a, <2>1, <2>2, <3>1, <3>4, CountStep
      <4>2. rules'[k] = rules[k]
        BY <1>0, <1>6, <2>1, <3>4 DEF UndoEnds
      <4> QED  BY <1>a, <2>3, <4>1, <4>2
    <3> QED  BY <3>3, <3>4
  <2> QED  BY <2>2, <2>4, EachRule
<1>7. CASE EndRollback
  <2>1. Left = 0 /\ Left' = 0 /\ UNCHANGED <<rules, before, leaks>>
    BY <1>7 DEF EndRollback, Left
  <2>2. \A k \in Rules : ToUndo(k) = 0 /\ ToUndo(k)' = 0
    BY <2>1, CountNone DEF ToUndo, Count
  <2> QED  BY <2>1, <2>2 DEF Records, RecordsAreReal, InjectedIsRecorded
<1> QED
  BY <1>1, <1>2, <1>3, <1>4, <1>5, <1>6, <1>7 DEF Next, RunStep, RollbackStep, Finished

-----------------------------------------------------------------------------
\* The inductive invariant holds.
THEOREM Invariance == Spec => []IInv
<1>1. IInv /\ [Next]_vars => IInv'
  BY NextTypeOK, NextAt, NextRecords DEF IInv, Records
<1> QED  BY InitIInv, <1>1, PTL DEF Spec

\* The kernel's rules are never fewer than none and the record, the loop's
\* index and the command in progress stay well typed (network.go:20-138).
THEOREM TypeCorrect == Spec => []TypeOK
<1>1. IInv => TypeOK
  BY DEF IInv
<1> QED  BY Invariance, <1>1, PTL

\* No undo ever removes what this experiment did not add: each record left
\* stands for a rule in the kernel over and above those there before
\* (network.go:122-138).
THEOREM UndoesOnlyItsOwn == Spec => []RecordsAreReal
<1>1. IInv => RecordsAreReal
  BY DEF IInv
<1> QED  BY Invariance, <1>1, PTL

\* While no command was killed after its effect and no undo failed, the records
\* left are exactly what was injected (network.go:141-270).
THEOREM RecordsAreComplete == Spec => []InjectedIsRecorded
<1>1. IInv => InjectedIsRecorded
  BY DEF IInv
<1> QED  BY Invariance, <1>1, PTL

\* What a rollback promises and when it keeps it: with no record left, the
\* kernel is as it was before the first Run unless some command was killed
\* after its effect or some undo failed (network.go:122-138).
THEOREM CleanUnlessLeaked ==
  Spec => [](Left = 0 /\ leaks = {} => rules = before)
<1>1. IInv => (Left = 0 /\ leaks = {} => rules = before)
  <2> SUFFICES ASSUME IInv, Left = 0, leaks = {}
               PROVE  rules = before
    OBVIOUS
  <2>1. \A k \in Rules : ToUndo(k) = 0
    BY CountNone DEF ToUndo, Count
  <2>2. rules \in [Rules -> Nat] /\ before \in [Rules -> Nat]
    BY DEF IInv, TypeOK
  <2>3. \A k \in Rules : rules[k] = before[k]
    BY <2>1, <2>2 DEF IInv, InjectedIsRecorded
  <2> QED  BY <2>2, <2>3
<1> QED  BY Invariance, <1>1, PTL

-----------------------------------------------------------------------------
(* Why a call ends: a bound on the steps left of it.  Each configured      *)
(* action still to come counts twelve, which outweighs the two steps that  *)
(* undoing each of the rules it adds may take.                             *)

ToCome == IF act + 1 > Len(cfg.actions) THEN 0 ELSE Len(cfg.actions) - act

StepsLeft ==
  CASE pc \in {"idle", "done"} -> 0
    [] pc = "undo"             -> 2 * pos + 1
    [] pc = "undoing"          -> 2 * pos
    [] pc = "wait"             -> 2 * Len(applied) + 2
    [] pc = "actions"          -> 2 * Len(applied) + 3 + (IF act > Len(cfg.actions) THEN 0 ELSE 12 * ToCome + 12)
    [] pc = "inject"           -> 2 * Len(applied) + 3 + 12 * ToCome + (IF cmd = 1 THEN 11 ELSE 5)
    [] pc = "adding"           -> 2 * Len(applied) + 3 + 12 * ToCome + (IF cmd = 1 THEN 10 ELSE 4)

\* Every step of Run or of a rollback leaves fewer of them.
LEMMA CallAdvances ==
  ASSUME IInv, RunStep \/ Elapse \/ RollbackStep
  PROVE  StepsLeft' < StepsLeft
<1>1. /\ act \in Nat \ {0} /\ pos \in Nat /\ Len(applied) \in Nat /\ Len(cfg.actions) \in Nat
      /\ cmd \in {1, 2} /\ cfg' = cfg
  <2>1. cfg \in Config
    BY NetworkAssumption DEF IInv, TypeOK
  <2>2. cfg.actions \in Seq(Actions \cup {"unknown"})
    BY <2>1 DEF Config
  <2>3. cfg' = cfg
    BY DEF RunStep, Interrupted, SkipUnknown, Denied, BeginAction, StartAdd, AddSucceeds,
       AddFails, EndActions, Elapse, RollbackStep, UndoNotStarted, StartUndo, UndoEnds, EndRollback
  <2>4. /\ act \in Nat \ {0} /\ cmd \in {1, 2} /\ applied \in Seq(Rules) /\ pos \in 0 .. Len(applied)
    BY DEF IInv, TypeOK
  <2>5. Len(applied) \in Nat /\ Len(cfg.actions) \in Nat
    BY <2>2, <2>4, LenProperties
  <2> QED
    BY <2>3, <2>4, <2>5
<1>2. ToCome \in Nat
  BY <1>1 DEF ToCome
<1>3. CASE Interrupted \/ Denied \/ \E done \in BOOLEAN : AddFails(done)
  <2>1. pc \in {"actions", "wait", "adding"} /\ pc' = "idle"
    BY <1>3 DEF Interrupted, Denied, AddFails, AtAction
  <2> QED
    BY <1>1, <1>2, <2>1 DEF StepsLeft
<1>4. CASE SkipUnknown
  <2>1. pc = "actions" /\ act <= Len(cfg.actions) /\ pc' = "actions" /\ act' = act + 1 /\ applied' = applied
    BY <1>4 DEF SkipUnknown, AtAction
  <2>2. act' > Len(cfg.actions) \/ (ToCome = ToCome' + 1 /\ ToCome' \in Nat)
    BY <1>1, <2>1 DEF ToCome
  <2> QED
    BY <1>1, <1>2, <2>1, <2>2 DEF StepsLeft
<1>5. CASE BeginAction \/ StartAdd
  <2>1. /\ UNCHANGED <<act, applied>> /\ ToCome' = ToCome
        /\ \/ pc = "actions" /\ act <= Len(cfg.actions) /\ pc' = "inject" /\ cmd' = 1
           \/ pc = "inject" /\ pc' \in {"idle", "adding"} /\ cmd' = cmd
    BY <1>1, <1>5 DEF BeginAction, StartAdd, AtAction, ToCome
  <2> QED
    BY <1>1, <1>2, <2>1 DEF StepsLeft
<1>6. CASE AddSucceeds
  <2>1. Rule \in Rules /\ Len(applied') = Len(applied) + 1
    BY <1>6, RuleTyped, LenProperties, AppendProperties DEF AddSucceeds, IInv, TypeOK
  <2>2. pc = "adding" /\ Len(Commands(Action)) \in {1, 2}
    BY <1>6 DEF AddSucceeds, Commands
  <2>3. CASE cmd < Len(Commands(Action))
    <3>1. pc' = "inject" /\ cmd' = cmd + 1 /\ act' = act
      BY <1>6, <2>3 DEF AddSucceeds
    <3>2. cmd = 1 /\ cmd' = 2
      <4> DEFINE n == Len(Commands(Action))
      <4>1. n \in {1, 2} /\ cmd < n
        BY <2>2, <2>3
      <4> HIDE DEF n
      <4> QED  BY <1>1, <3>1, <4>1
    <3>3. ToCome' = ToCome
      BY <1>1, <3>1 DEF ToCome
    <3> QED
      BY <1>1, <1>2, <2>1, <2>2, <3>1, <3>2, <3>3 DEF StepsLeft
  <2>4. CASE ~(cmd < Len(Commands(Action)))
    <3>1. pc' = "actions" /\ act' = act + 1
      BY <1>6, <2>4 DEF AddSucceeds
    <3>2. act' > Len(cfg.actions) \/ (ToCome = ToCome' + 1 /\ ToCome' \in Nat)
      BY <1>1, <3>1 DEF ToCome
    <3>3. StepsLeft >= 2 * Len(applied) + 3 + 12 * ToCome + 4
          /\ StepsLeft \in Nat
      BY <1>1, <1>2, <2>2 DEF StepsLeft
    <3>4. StepsLeft' = 2 * (Len(applied) + 1) + 3 + (IF act' > Len(cfg.actions) THEN 0 ELSE 12 * ToCome' + 12)
      BY <1>1, <2>1, <3>1 DEF StepsLeft
    <3> HIDE DEF StepsLeft
    <3>5. CASE act' > Len(cfg.actions)
      BY <1>1, <1>2, <3>3, <3>4, <3>5
    <3>6. CASE ~(act' > Len(cfg.actions))
      BY <1>1, <1>2, <3>2, <3>3, <3>4, <3>6
    <3> QED
      BY <3>5, <3>6
  <2> QED
    BY <2>3, <2>4
<1>7. CASE EndActions \/ Elapse \/ EndRollback
  <2>1. \/ pc = "actions" /\ act > Len(cfg.actions) /\ pc' \in {"wait", "idle"} /\ applied' = applied
        \/ pc = "wait" /\ pc' = "undo" /\ pos' = Len(applied)
        \/ pc = "undo" /\ pos = 0 /\ pc' \in {"done", "idle"}
    BY <1>7 DEF EndActions, Elapse, EndRollback
  <2> QED
    BY <1>1, <2>1 DEF StepsLeft
<1>8. CASE UndoNotStarted \/ StartUndo \/ \E done \in BOOLEAN : UndoEnds(done)
  <2>1. \/ pc = "undo" /\ pos > 0 /\ pc' = "undo" /\ pos' = pos - 1
        \/ pc = "undo" /\ pos > 0 /\ pc' = "undoing" /\ pos' = pos
        \/ pc = "undoing" /\ pos > 0 /\ pc' = "undo" /\ pos' = pos - 1
    BY <1>8 DEF UndoNotStarted, StartUndo, UndoEnds, IInv, AtUndo
  <2> QED
    BY <1>1, <2>1 DEF StepsLeft
<1> QED
  BY <1>3, <1>4, <1>5, <1>6, <1>7, <1>8 DEF RunStep, RollbackStep

\* A Run or a rollback in progress only takes steps that bring it closer to its
\* end; the contexts may end meanwhile, which leaves it where it is
\* (network.go:54-111, 122-138).
THEOREM CallsGetShorter ==
  Spec => /\ [](StepsLeft \in Nat)
          /\ [][pc \notin {"idle", "done"} =>
                  StepsLeft' < StepsLeft \/ ((Cancel \/ Expire) /\ StepsLeft' = StepsLeft)]_vars
<1>1. IInv => StepsLeft \in Nat
  <2> SUFFICES ASSUME IInv PROVE StepsLeft \in Nat
    OBVIOUS
  <2>1. act \in Nat /\ pos \in Nat /\ Len(applied) \in Nat /\ Len(cfg.actions) \in Nat
    <3>1. cfg \in Config
      BY NetworkAssumption DEF IInv, TypeOK
    <3>2. cfg.actions \in Seq(Actions \cup {"unknown"})
      BY <3>1 DEF Config
    <3> QED  BY <3>2, LenProperties DEF IInv, TypeOK
  <2>2. ToCome \in Nat
    BY <2>1 DEF ToCome
  <2>3. pc \in {"idle", "actions", "inject", "adding", "wait", "undo", "undoing", "done"}
    BY DEF IInv, TypeOK
  <2>4. (IF cmd = 1 THEN 11 ELSE 5) \in Nat /\ (IF cmd = 1 THEN 10 ELSE 4) \in Nat
        /\ (IF act > Len(cfg.actions) THEN 0 ELSE 12 * ToCome + 12) \in Nat
    BY <2>1, <2>2
  <2>5. CASE pc \in {"idle", "done", "undo", "undoing"}
    <3>1. 0 \in Nat /\ 2 * pos + 1 \in Nat /\ 2 * pos \in Nat
      BY <2>1
    <3> QED  BY <2>5, <3>1, Zenon DEF StepsLeft
  <2>6. CASE pc \in {"wait", "actions"}
    <3>1. 2 * Len(applied) + 2 \in Nat
          /\ \A n \in Nat : 2 * Len(applied) + 3 + n \in Nat
      BY <2>1
    <3> QED  BY <2>4, <2>6, <3>1 DEF StepsLeft
  <2>7. CASE pc \in {"inject", "adding"}
    <3>1. \A n \in Nat : 2 * Len(applied) + 3 + 12 * ToCome + n \in Nat
      BY <2>1, <2>2
    <3> QED  BY <2>4, <2>7, <3>1 DEF StepsLeft
  <2> QED  BY <2>3, <2>5, <2>6, <2>7
<1>2. IInv /\ [Next]_vars =>
        [pc \notin {"idle", "done"} =>
           StepsLeft' < StepsLeft \/ ((Cancel \/ Expire) /\ StepsLeft' = StepsLeft)]_vars
  <2> SUFFICES ASSUME IInv, Next, pc \notin {"idle", "done"}
               PROVE  StepsLeft' < StepsLeft \/ ((Cancel \/ Expire) /\ StepsLeft' = StepsLeft)
    OBVIOUS
  <2>1. CASE RunStep \/ Elapse \/ RollbackStep
    BY <2>1, CallAdvances
  <2>2. CASE Cancel \/ Expire
    BY <2>2 DEF Cancel, Expire, control, StepsLeft, ToCome
  <2>3. ~BeginRun /\ ~BeginRollback /\ ~Finished
    BY DEF BeginRun, BeginRollback, Finished
  <2> QED  BY <2>1, <2>2, <2>3 DEF Next
<1> QED  BY Invariance, <1>1, <1>2, PTL DEF Spec
=============================================================================
