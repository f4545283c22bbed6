------------------------------ MODULE MCStress ------------------------------
(***************************************************************************)
(* Values of Stress's constants for TLC.                                   *)
(***************************************************************************)
EXTENDS Stress

S(actions, workers, denied) == [actions |-> actions, workers |-> workers, denied |-> denied]

\* a filled disk next to two workers; one action twice, so that threads share
\* a file; unknown actions between others; what the policy refuses
Mixes ==
  {S(<<"disk_io", "disk_fill">>, 2, FALSE), S(<<"disk_io", "disk_io">>, 1, FALSE),
   S(<<"disk_fill", "disk_fill">>, 1, FALSE), S(<<"unknown", "cpu", "disk_fill">>, 1, FALSE),
   S(<<"memory", "unknown">>, 1, FALSE), S(<<"unknown", "cpu">>, 1, TRUE)}

\* of the three threads of a configuration with two workers one Run is enough
OneRunOfThree == cfg.workers > 1 => runs <= 1
=============================================================================
