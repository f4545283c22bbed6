------------------------------ MODULE Campaign ------------------------------
(***************************************************************************)
(* What the engine promises about a chaos campaign, whatever the list or   *)
(* the scenarios look like:                                                *)
(*                                                                         *)
(*  - experiments run inside a RunAll only: it returns when none is        *)
(*    cleared to run and none is running;                                  *)
(*  - a Run is cleared only while the context lives; one that was cleared  *)
(*    just before the context was done may still start;                    *)
(*  - a rollback starts when nothing runs, and ends when everything that   *)
(*    was touched since the last one has been undone.                      *)
(***************************************************************************)
CONSTANTS Slots,  \* the places a Run can be in progress at
          Exps    \* the experiments

VARIABLES phase,    \* "idle", "running" (in RunAll) or "undoing" (in RollbackAll)
          cleared,  \* slots that are past the check of the context
          running,  \* slots with a Run in progress
          stopped,  \* the context is done
          touched   \* experiments Run since their last Rollback

vars == <<phase, cleared, running, stopped, touched>>

Init ==
  /\ phase = "idle"
  /\ cleared = {}
  /\ running = {}
  /\ stopped = FALSE
  /\ touched = {}

Stop ==
  /\ ~stopped
  /\ stopped' = TRUE
  /\ UNCHANGED <<phase, cleared, running, touched>>

Begin ==
  /\ phase = "idle"
  /\ phase' = "running"
  /\ UNCHANGED <<cleared, running, stopped, touched>>

Clear(s) ==
  /\ phase = "running" /\ ~stopped
  /\ s \notin cleared \cup running
  /\ cleared' = cleared \cup {s}
  /\ UNCHANGED <<phase, running, stopped, touched>>

Start(s) ==
  /\ s \in cleared
  /\ cleared' = cleared \ {s}
  /\ running' = running \cup {s}
  /\ \E e \in Exps : touched' = touched \cup {e}
  /\ UNCHANGED <<phase, stopped>>

End(s) ==
  /\ s \in running
  /\ running' = running \ {s}
  /\ UNCHANGED <<phase, cleared, stopped, touched>>

Return ==
  /\ phase = "running" /\ cleared = {} /\ running = {}
  /\ phase' = "idle"
  /\ UNCHANGED <<cleared, running, stopped, touched>>

BeginUndo ==
  /\ phase = "idle"
  /\ phase' = "undoing"
  /\ UNCHANGED <<cleared, running, stopped, touched>>

Undo(e) ==
  /\ phase = "undoing" /\ e \in touched
  /\ touched' = touched \ {e}
  /\ UNCHANGED <<phase, cleared, running, stopped>>

EndUndo ==
  /\ phase = "undoing" /\ touched = {}
  /\ phase' = "idle"
  /\ UNCHANGED <<cleared, running, stopped, touched>>

Next ==
  \/ Stop \/ Begin \/ Return \/ BeginUndo \/ EndUndo
  \/ \E s \in Slots : Clear(s) \/ Start(s) \/ End(s)
  \/ \E e \in Exps : Undo(e)

\* What is cleared starts, and a rollback is completed; a Run may last for ever.
Fairness ==
  /\ \A s \in Slots : WF_vars(Start(s))
  /\ WF_vars(EndUndo \/ \E e \in Exps : Undo(e))

SafeSpec == Init /\ [][Next]_vars

Spec == SafeSpec /\ Fairness
=============================================================================
