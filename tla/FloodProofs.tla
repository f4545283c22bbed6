---------------------------- MODULE FloodProofs ----------------------------
(***************************************************************************)
(* Theorems about Flood, for every list of targets, every number of        *)
(* workers and of requests: where every request is, and why a flood ends.  *)
(***************************************************************************)
EXTENDS Flood, TLAPS

\* the context was done while the flood went on
Stopped(f) == cancelled \/ f \in expired

Size(f) == crew[f].take + Held(f) + crew[f].gone

\* where Run is in the list
TurnOK ==
  /\ cur <= Len(cfg) + 1
  /\ pc = "wait" => cur <= Len(cfg)

\* a flood has begun if its turn has come, and all its workers have returned
\* if its turn is over
StageOK(f) ==
  /\ f \in Begun <=> f < cur \/ (f = cur /\ pc = "wait")
  /\ f \in Begun => Size(f) = Concurrency(f)
  /\ f \notin Begun => Size(f) = 0 /\ put[f] = 0 /\ late[f] = 0
  /\ f < cur => crew[f].gone = Concurrency(f)

ConservedAt(f) ==
  /\ put[f] = work[f] + Held(f) + dropped[f] + success[f] + errors[f]
  /\ total[f] = crew[f].count + success[f] + errors[f]

\* why a dispatcher ended, a worker returned or a request was given up
EndOK(f) ==
  f \in Begun =>
    /\ put[f] <= Requests(f)
    /\ dispatch[f] \in {"tick", "put"} => put[f] < Requests(f)
    /\ dispatch[f] = "ended" => Stopped(f) \/ put[f] = Requests(f)
    /\ crew[f].gone > 0 => Stopped(f) \/ (dispatch[f] = "ended" /\ work[f] = 0)
    /\ dropped[f] > 0 => Stopped(f)

\* when the context is done, those about to send are the last
LateOK(f) ==
  f \in Begun => IF Stopped(f) THEN late[f] + crew[f].send <= Concurrency(f) ELSE late[f] = 0

OpenOK(f) ==
  f \in open <=> /\ f = cur
                 /\ \/ pc = "wait" /\ cfg[f].kind # "http"
                    \/ pc = "done" /\ f \in open /\ cfg[f].kind = "rabbitmq"

FloodOK(f) == StageOK(f) /\ ConservedAt(f) /\ EndOK(f) /\ LateOK(f) /\ OpenOK(f)

IInv == TypeOK /\ TurnOK /\ \A f \in Floods : FloodOK(f)

-----------------------------------------------------------------------------
(* Facts about the constants. *)

LEMMA ConfigFacts ==
  ASSUME cfg \in Configs
  PROVE  /\ Len(cfg) \in 0 .. MaxTargets
         /\ \A f \in 1 .. Len(cfg) :
              Concurrency(f) \in Nat \ {0} /\ Requests(f) \in Nat /\ f \in Floods
<1>1. cfg \in Seq(Target) /\ Len(cfg) <= MaxTargets /\ MaxTargets \in Nat /\ DefaultRequests \in Nat
  BY FloodAssumption
<1>2. ASSUME NEW f \in 1 .. Len(cfg)
      PROVE  Concurrency(f) \in Nat \ {0} /\ Requests(f) \in Nat /\ f \in Floods
  <2>1. cfg[f] \in Target
    BY <1>1
  <2>2. cfg[f].concurrency \in Nat /\ cfg[f].requests \in Nat
    BY <2>1 DEF Target
  <2> QED
    BY <1>1, <2>2 DEF Concurrency, Requests, Floods
<1> QED
  BY <1>1, <1>2

\* a worker that moves takes itself off one stage and onto another
LEMMA MoveFacts ==
  ASSUME crew \in [Floods -> [Stages -> Nat]], NEW f \in Floods,
         NEW from \in Stages, NEW to \in Stages, from # to, Move(f, from, to)
  PROVE  /\ crew' \in [Floods -> [Stages -> Nat]]
         /\ \A g \in Floods \ {f} : crew'[g] = crew[g]
         /\ crew[f][from] > 0 /\ crew'[f][from] = crew[f][from] - 1
         /\ crew'[f][to] = crew[f][to] + 1
         /\ \A s \in Stages \ {from, to} : crew'[f][s] = crew[f][s]
<1> DEFINE row == [crew[f] EXCEPT ![from] = crew[f][from] - 1, ![to] = crew[f][to] + 1]
<1>1. crew[f] \in [Stages -> Nat] /\ crew[f][from] > 0
  BY DEF Move
<1>2. crew' = [crew EXCEPT ![f] = row]
  BY <1>1 DEF Move
<1>3. row \in [Stages -> Nat] /\ row[from] = crew[f][from] - 1 /\ row[to] = crew[f][to] + 1
      /\ \A s \in Stages \ {from, to} : row[s] = crew[f][s]
  BY <1>1
<1>4. crew'[f] = row /\ \A g \in Floods \ {f} : crew'[g] = crew[g]
  BY <1>2
<1>5. crew' \in [Floods -> [Stages -> Nat]]
  BY <1>2, <1>3
<1> QED
  BY <1>1, <1>3, <1>4, <1>5

-----------------------------------------------------------------------------
(* What one flood does leaves the others alone. *)

Same(f) ==
  /\ dispatch'[f] = dispatch[f] /\ put'[f] = put[f] /\ work'[f] = work[f]
  /\ crew'[f] = crew[f]
  /\ total'[f] = total[f] /\ success'[f] = success[f] /\ errors'[f] = errors[f]
  /\ dropped'[f] = dropped[f] /\ late'[f] = late[f]

LEMMA OthersKeep ==
  ASSUME NEW g \in Floods, FloodOK(g), Same(g),
         UNCHANGED <<cfg, run, cancelled, expired, open>>
  PROVE  FloodOK(g)'
<1>1. g \in Begun' <=> g \in Begun
  BY DEF Same, Begun
<1>2. Size(g)' = Size(g) /\ Held(g)' = Held(g) /\ Concurrency(g)' = Concurrency(g)
      /\ Requests(g)' = Requests(g) /\ Stopped(g)' = Stopped(g)
  BY DEF Same, Size, Held, Concurrency, Requests, Stopped, run
<1>3. StageOK(g)'
  BY <1>1, <1>2 DEF FloodOK, StageOK, Same, run
<1>4. ConservedAt(g)'
  BY <1>2 DEF FloodOK, ConservedAt, Same
<1>5. EndOK(g)'
  BY <1>1, <1>2 DEF FloodOK, EndOK, Same
<1>6. LateOK(g)'
  BY <1>1, <1>2 DEF FloodOK, LateOK, Same
<1>7. OpenOK(g)'
  BY DEF FloodOK, OpenOK, run
<1> QED
  BY <1>3, <1>4, <1>5, <1>6, <1>7 DEF FloodOK

\* the numbers of a flood
NumbersOK(f) ==
  /\ put[f] \in Nat /\ work[f] \in Nat
  /\ total[f] \in Nat /\ success[f] \in Nat /\ errors[f] \in Nat
  /\ dropped[f] \in Nat /\ late[f] \in Nat
  /\ crew[f].take \in Nat /\ crew[f].check \in Nat /\ crew[f].send \in Nat
  /\ crew[f].answer \in Nat /\ crew[f].count \in Nat /\ crew[f].gone \in Nat

LEMMA Numbers ==
  ASSUME TypeOK, NEW f \in Floods
  PROVE  NumbersOK(f)
<1>1. crew[f] \in [Stages -> Nat]
  BY DEF TypeOK
<1>2. /\ crew[f].take \in Nat /\ crew[f].check \in Nat /\ crew[f].send \in Nat
      /\ crew[f].answer \in Nat /\ crew[f].count \in Nat /\ crew[f].gone \in Nat
  BY <1>1 DEF Stages
<1>3. /\ put[f] \in Nat /\ work[f] \in Nat
      /\ total[f] \in Nat /\ success[f] \in Nat /\ errors[f] \in Nat
      /\ dropped[f] \in Nat /\ late[f] \in Nat
  BY DEF TypeOK
<1> QED
  BY <1>2, <1>3 DEF NumbersOK

\* the sizes of a flood that has begun
LEMMA BegunFacts ==
  ASSUME IInv, NEW f \in Begun
  PROVE  /\ f \in Floods /\ f \in 1 .. Len(cfg)
         /\ Concurrency(f) \in Nat \ {0} /\ Requests(f) \in Nat
         /\ FloodOK(f) /\ NumbersOK(f)
<1>1. f \in Floods
  BY DEF Begun
<1>2. FloodOK(f) /\ NumbersOK(f) /\ TurnOK /\ TypeOK
  BY <1>1, Numbers DEF IInv
<1>3. f < cur \/ (f = cur /\ pc = "wait")
  BY <1>2 DEF FloodOK, StageOK
<1>4. Len(cfg) \in Nat /\ cur \in Nat /\ f \in Nat /\ f >= 1
  BY <1>1, <1>2, ConfigFacts DEF TypeOK, Floods
<1>5. f \in 1 .. Len(cfg)
  BY <1>2, <1>3, <1>4 DEF TurnOK
<1> QED
  BY <1>1, <1>2, <1>5, ConfigFacts DEF TypeOK

\* only in a flood that goes on is there a worker that has not returned, and
\* its context is done only if it was stopped
LEMMA WorkingFacts ==
  ASSUME IInv, NEW f \in Begun, crew[f].take + Held(f) > 0
  PROVE  f = cur /\ ~(f < cur) /\ pc = "wait" /\ (FloodDone(f) <=> Stopped(f))
<1>1. FloodOK(f) /\ NumbersOK(f) /\ Concurrency(f) \in Nat /\ f \in Floods
  BY BegunFacts
<1>2. crew[f].gone # Concurrency(f)
  BY <1>1 DEF FloodOK, StageOK, Size, Held, NumbersOK
<1>3. ~(f < cur)
  BY <1>1, <1>2 DEF FloodOK, StageOK
<1>4. f = cur /\ pc = "wait"
  BY <1>1, <1>3 DEF FloodOK, StageOK
<1>5. f \notin Ended
  BY <1>3 DEF Ended
<1> QED
  BY <1>3, <1>4, <1>5 DEF FloodDone, Stopped

-----------------------------------------------------------------------------
(* The steps of a worker. *)

LEMMA Assemble ==
  ASSUME IInv, NEW f \in Begun, UNCHANGED <<cfg, run, cancelled, expired, open>>,
         TypeOK', \A g \in Floods \ {f} : Same(g), FloodOK(f)'
  PROVE  IInv'
<1>1. TurnOK'
  BY DEF IInv, TurnOK, run
<1>2. ASSUME NEW g \in Floods \ {f}
      PROVE  FloodOK(g)'
  BY <1>2, OthersKeep DEF IInv
<1>3. \A g \in Floods : FloodOK(g)'
  BY <1>2
<1> QED
  BY <1>1, <1>3 DEF IInv

\* A worker takes a request out of the channel: Held grows as work shrinks.
LEMMA TakeOK ==
  ASSUME IInv, NEW f \in Begun, Take(f)
  PROVE  IInv'
<1>1. TypeOK /\ f \in Floods /\ FloodOK(f) /\ NumbersOK(f)
      /\ Concurrency(f) \in Nat \ {0} /\ Requests(f) \in Nat
  BY BegunFacts DEF IInv
<1>2. Move(f, "take", "check") /\ crew \in [Floods -> [Stages -> Nat]]
  BY <1>1 DEF Take, TypeOK
<1>3. crew' \in [Floods -> [Stages -> Nat]] /\ \A g \in Floods \ {f} : crew'[g] = crew[g]
  BY <1>1, <1>2, MoveFacts DEF Stages
<1>4. /\ crew[f].take > 0
      /\ crew'[f].take = crew[f].take - 1 /\ crew'[f].check = crew[f].check + 1
      /\ crew'[f].send = crew[f].send /\ crew'[f].answer = crew[f].answer
      /\ crew'[f].count = crew[f].count /\ crew'[f].gone = crew[f].gone
  BY <1>1, <1>2, MoveFacts DEF Stages
<1>5. /\ crew[f].take \in Nat /\ crew[f].check \in Nat /\ crew[f].send \in Nat
      /\ crew[f].answer \in Nat /\ crew[f].count \in Nat /\ crew[f].gone \in Nat
  BY <1>1 DEF NumbersOK
<1>6. Held(f) \in Nat /\ Held(f)' = Held(f) + 1 /\ Size(f)' = Size(f)
  <2>1. Held(f) \in Nat /\ Held(f)' = Held(f) + 1
    BY <1>4, <1>5 DEF Held
  <2>2. Size(f)' = Size(f)
    BY <1>4, <1>5, <2>1 DEF Size
  <2> QED
    BY <2>1, <2>2
<1>7. f = cur /\ ~(f < cur) /\ pc = "wait" /\ (FloodDone(f) <=> Stopped(f))
  BY <1>1, <1>4, <1>5, WorkingFacts DEF Held
<1>8. TypeOK'
  BY <1>1, <1>3 DEF Take, TypeOK, run, channel, stats, history, NumbersOK
<1>9. \A g \in Floods \ {f} : Same(g)
  BY <1>1, <1>3 DEF Take, Same, TypeOK, run, channel, stats, history
<1>10. f \in Begun' /\ Concurrency(f)' = Concurrency(f) /\ Requests(f)' = Requests(f)
       /\ Stopped(f)' = Stopped(f) /\ UNCHANGED <<cfg, pc, cur, cancelled, expired, open, dispatch, put>>
  BY <1>1 DEF Take, Begun, Concurrency, Requests, Stopped, run, channel, stats, history
<1>11. /\ work'[f] = work[f] - 1 /\ dropped'[f] = dropped[f] /\ total'[f] = total[f]
      /\ success'[f] = success[f] /\ errors'[f] = errors[f] /\ late'[f] = late[f]
  BY <1>1 DEF Take, TypeOK, channel, stats, history
<1>12. StageOK(f)'
  BY <1>1, <1>4, <1>5, <1>6, <1>7, <1>10 DEF FloodOK, StageOK
<1>13. ConservedAt(f)'
  <2>1. put[f] = work[f] + Held(f) + dropped[f] + success[f] + errors[f]
        /\ total[f] = crew[f].count + success[f] + errors[f]
    BY <1>1 DEF FloodOK, ConservedAt
  <2>2. put'[f] = work'[f] + Held(f)' + dropped'[f] + success'[f] + errors'[f]
    BY <1>1, <1>6, <1>10, <1>11, <2>1 DEF NumbersOK
  <2>3. total'[f] = crew'[f].count + success'[f] + errors'[f]
    BY <1>1, <1>4, <1>11, <2>1 DEF NumbersOK
  <2> QED
    BY <2>2, <2>3 DEF ConservedAt
<1>14. EndOK(f)'
  BY <1>1, <1>4, <1>5, <1>7, <1>10, <1>11 DEF Take, FloodOK, EndOK, NumbersOK
<1>15. LateOK(f)'
  <2>1. crew[f].send <= Concurrency(f)
    BY <1>1, <1>5 DEF FloodOK, StageOK, Size, Held
  <2> QED
    BY <1>1, <1>4, <1>5, <1>7, <1>10, <1>11, <2>1 DEF Take, TypeOK, FloodOK, LateOK, NumbersOK, history
<1>16. OpenOK(f)'
  BY <1>1, <1>10 DEF FloodOK, OpenOK
<1>17. FloodOK(f)'
  BY <1>12, <1>13, <1>14, <1>15, <1>16 DEF FloodOK
<1> QED
  BY <1>1, <1>8, <1>9, <1>10, <1>17, Assemble DEF run

\* A worker returns: the channel is closed and empty.
LEMMA NoMoreWorkOK ==
  ASSUME IInv, NEW f \in Begun, NoMoreWork(f)
  PROVE  IInv'
<1>1. TypeOK /\ f \in Floods /\ FloodOK(f) /\ NumbersOK(f)
      /\ Concurrency(f) \in Nat \ {0} /\ Requests(f) \in Nat
  BY BegunFacts DEF IInv
<1>2. Move(f, "take", "gone") /\ crew \in [Floods -> [Stages -> Nat]]
  BY <1>1 DEF NoMoreWork, TypeOK
<1>3. crew' \in [Floods -> [Stages -> Nat]] /\ \A g \in Floods \ {f} : crew'[g] = crew[g]
  BY <1>1, <1>2, MoveFacts DEF Stages
<1>4. /\ crew[f].take > 0
      /\ crew'[f].take = crew[f].take - 1 /\ crew'[f].check = crew[f].check
      /\ crew'[f].send = crew[f].send /\ crew'[f].answer = crew[f].answer
      /\ crew'[f].count = crew[f].count /\ crew'[f].gone = crew[f].gone + 1
  BY <1>1, <1>2, MoveFacts DEF Stages
<1>5. /\ crew[f].take \in Nat /\ crew[f].check \in Nat /\ crew[f].send \in Nat
      /\ crew[f].answer \in Nat /\ crew[f].count \in Nat /\ crew[f].gone \in Nat
  BY <1>1 DEF NumbersOK
<1>6. Held(f) \in Nat /\ Held(f)' = Held(f) /\ Size(f)' = Size(f)
  <2>1. Held(f) \in Nat /\ Held(f)' = Held(f)
    BY <1>4, <1>5 DEF Held
  <2>2. Size(f)' = Size(f)
    BY <1>4, <1>5, <2>1 DEF Size
  <2> QED
    BY <2>1, <2>2
<1>7. f = cur /\ ~(f < cur) /\ pc = "wait" /\ (FloodDone(f) <=> Stopped(f))
  BY <1>1, <1>4, <1>5, WorkingFacts DEF Held
<1>8. TypeOK'
  BY <1>1, <1>3 DEF NoMoreWork, TypeOK, run, channel, stats, history, NumbersOK
<1>9. \A g \in Floods \ {f} : Same(g)
  BY <1>1, <1>3 DEF NoMoreWork, Same, TypeOK, run, channel, stats, history
<1>10. f \in Begun' /\ Concurrency(f)' = Concurrency(f) /\ Requests(f)' = Requests(f)
       /\ Stopped(f)' = Stopped(f) /\ UNCHANGED <<cfg, pc, cur, cancelled, expired, open, dispatch, put>>
  BY <1>1 DEF NoMoreWork, Begun, Concurrency, Requests, Stopped, run, channel, stats, history
<1>11. /\ work'[f] = work[f] /\ dropped'[f] = dropped[f] /\ total'[f] = total[f]
      /\ success'[f] = success[f] /\ errors'[f] = errors[f] /\ late'[f] = late[f]
  BY <1>1 DEF NoMoreWork, TypeOK, channel, stats, history
<1>12. StageOK(f)'
  BY <1>1, <1>4, <1>5, <1>6, <1>7, <1>10 DEF FloodOK, StageOK
<1>13. ConservedAt(f)'
  <2>1. put[f] = work[f] + Held(f) + dropped[f] + success[f] + errors[f]
        /\ total[f] = crew[f].count + success[f] + errors[f]
    BY <1>1 DEF FloodOK, ConservedAt
  <2>2. put'[f] = work'[f] + Held(f)' + dropped'[f] + success'[f] + errors'[f]
    BY <1>1, <1>6, <1>10, <1>11, <2>1 DEF NumbersOK
  <2>3. total'[f] = crew'[f].count + success'[f] + errors'[f]
    BY <1>1, <1>4, <1>11, <2>1 DEF NumbersOK
  <2> QED
    BY <2>2, <2>3 DEF ConservedAt
<1>14. EndOK(f)'
  BY <1>1, <1>4, <1>5, <1>7, <1>10, <1>11 DEF NoMoreWork, FloodOK, EndOK, NumbersOK
<1>15. LateOK(f)'
  <2>1. crew[f].send <= Concurrency(f)
    BY <1>1, <1>5 DEF FloodOK, StageOK, Size, Held
  <2> QED
    BY <1>1, <1>4, <1>5, <1>7, <1>10, <1>11, <2>1 DEF NoMoreWork, TypeOK, FloodOK, LateOK, NumbersOK, history
<1>16. OpenOK(f)'
  BY <1>1, <1>10 DEF FloodOK, OpenOK
<1>17. FloodOK(f)'
  BY <1>12, <1>13, <1>14, <1>15, <1>16 DEF FloodOK
<1> QED
  BY <1>1, <1>8, <1>9, <1>10, <1>17, Assemble DEF run

\* A worker returns with a request: the context is done.
LEMMA GiveUpWorkOK ==
  ASSUME IInv, NEW f \in Begun, GiveUpWork(f)
  PROVE  IInv'
<1>1. TypeOK /\ f \in Floods /\ FloodOK(f) /\ NumbersOK(f)
      /\ Concurrency(f) \in Nat \ {0} /\ Requests(f) \in Nat
  BY BegunFacts DEF IInv
<1>2. Move(f, "check", "gone") /\ crew \in [Floods -> [Stages -> Nat]]
  BY <1>1 DEF GiveUpWork, TypeOK
<1>3. crew' \in [Floods -> [Stages -> Nat]] /\ \A g \in Floods \ {f} : crew'[g] = crew[g]
  BY <1>1, <1>2, MoveFacts DEF Stages
<1>4. /\ crew[f].check > 0
      /\ crew'[f].take = crew[f].take /\ crew'[f].check = crew[f].check - 1
      /\ crew'[f].send = crew[f].send /\ crew'[f].answer = crew[f].answer
      /\ crew'[f].count = crew[f].count /\ crew'[f].gone = crew[f].gone + 1
  BY <1>1, <1>2, MoveFacts DEF Stages
<1>5. /\ crew[f].take \in Nat /\ crew[f].check \in Nat /\ crew[f].send \in Nat
      /\ crew[f].answer \in Nat /\ crew[f].count \in Nat /\ crew[f].gone \in Nat
  BY <1>1 DEF NumbersOK
<1>6. Held(f) \in Nat /\ Held(f)' = Held(f) - 1 /\ Size(f)' = Size(f)
  <2>1. Held(f) \in Nat /\ Held(f)' = Held(f) - 1
    BY <1>4, <1>5 DEF Held
  <2>2. Size(f)' = Size(f)
    BY <1>4, <1>5, <2>1 DEF Size
  <2> QED
    BY <2>1, <2>2
<1>7. f = cur /\ ~(f < cur) /\ pc = "wait" /\ (FloodDone(f) <=> Stopped(f))
  BY <1>1, <1>4, <1>5, WorkingFacts DEF Held
<1>8. TypeOK'
  BY <1>1, <1>3 DEF GiveUpWork, TypeOK, run, channel, stats, history, NumbersOK
<1>9. \A g \in Floods \ {f} : Same(g)
  BY <1>1, <1>3 DEF GiveUpWork, Same, TypeOK, run, channel, stats, history
<1>10. f \in Begun' /\ Concurrency(f)' = Concurrency(f) /\ Requests(f)' = Requests(f)
       /\ Stopped(f)' = Stopped(f) /\ UNCHANGED <<cfg, pc, cur, cancelled, expired, open, dispatch, put>>
  BY <1>1 DEF GiveUpWork, Begun, Concurrency, Requests, Stopped, run, channel, stats, history
<1>11. /\ work'[f] = work[f] /\ dropped'[f] = dropped[f] + 1 /\ total'[f] = total[f]
      /\ success'[f] = success[f] /\ errors'[f] = errors[f] /\ late'[f] = late[f]
  BY <1>1 DEF GiveUpWork, TypeOK, channel, stats, history
<1>12. StageOK(f)'
  BY <1>1, <1>4, <1>5, <1>6, <1>7, <1>10 DEF FloodOK, StageOK
<1>13. ConservedAt(f)'
  <2>1. put[f] = work[f] + Held(f) + dropped[f] + success[f] + errors[f]
        /\ total[f] = crew[f].count + success[f] + errors[f]
    BY <1>1 DEF FloodOK, ConservedAt
  <2>2. put'[f] = work'[f] + Held(f)' + dropped'[f] + success'[f] + errors'[f]
    BY <1>1, <1>6, <1>10, <1>11, <2>1 DEF NumbersOK
  <2>3. total'[f] = crew'[f].count + success'[f] + errors'[f]
    BY <1>1, <1>4, <1>11, <2>1 DEF NumbersOK
  <2> QED
    BY <2>2, <2>3 DEF ConservedAt
<1>14. EndOK(f)'
  BY <1>1, <1>4, <1>5, <1>7, <1>10, <1>11 DEF GiveUpWork, FloodOK, EndOK, NumbersOK
<1>15. LateOK(f)'
  <2>1. crew[f].send <= Concurrency(f)
    BY <1>1, <1>5 DEF FloodOK, StageOK, Size, Held
  <2> QED
    BY <1>1, <1>4, <1>5, <1>7, <1>10, <1>11, <2>1 DEF GiveUpWork, TypeOK, FloodOK, LateOK, NumbersOK, history
<1>16. OpenOK(f)'
  BY <1>1, <1>10 DEF FloodOK, OpenOK
<1>17. FloodOK(f)'
  BY <1>12, <1>13, <1>14, <1>15, <1>16 DEF FloodOK
<1> QED
  BY <1>1, <1>8, <1>9, <1>10, <1>17, Assemble DEF run

\* A worker goes on, which it does only while the context lives.
LEMMA PrepareOK ==
  ASSUME IInv, NEW f \in Begun, Prepare(f)
  PROVE  IInv'
<1>1. TypeOK /\ f \in Floods /\ FloodOK(f) /\ NumbersOK(f)
      /\ Concurrency(f) \in Nat \ {0} /\ Requests(f) \in Nat
  BY BegunFacts DEF IInv
<1>2. Move(f, "check", "send") /\ crew \in [Floods -> [Stages -> Nat]]
  BY <1>1 DEF Prepare, TypeOK
<1>3. crew' \in [Floods -> [Stages -> Nat]] /\ \A g \in Floods \ {f} : crew'[g] = crew[g]
  BY <1>1, <1>2, MoveFacts DEF Stages
<1>4. /\ crew[f].check > 0
      /\ crew'[f].take = crew[f].take /\ crew'[f].check = crew[f].check - 1
      /\ crew'[f].send = crew[f].send + 1 /\ crew'[f].answer = crew[f].answer
      /\ crew'[f].count = crew[f].count /\ crew'[f].gone = crew[f].gone
  BY <1>1, <1>2, MoveFacts DEF Stages
<1>5. /\ crew[f].take \in Nat /\ crew[f].check \in Nat /\ crew[f].send \in Nat
      /\ crew[f].answer \in Nat /\ crew[f].count \in Nat /\ crew[f].gone \in Nat
  BY <1>1 DEF NumbersOK
<1>6. Held(f) \in Nat /\ Held(f)' = Held(f) /\ Size(f)' = Size(f)
  <2>1. Held(f) \in Nat /\ Held(f)' = Held(f)
    BY <1>4, <1>5 DEF Held
  <2>2. Size(f)' = Size(f)
    BY <1>4, <1>5, <2>1 DEF Size
  <2> QED
    BY <2>1, <2>2
<1>7. f = cur /\ ~(f < cur) /\ pc = "wait" /\ (FloodDone(f) <=> Stopped(f))
  BY <1>1, <1>4, <1>5, WorkingFacts DEF Held
<1>8. TypeOK'
  BY <1>1, <1>3 DEF Prepare, TypeOK, run, channel, stats, history, NumbersOK
<1>9. \A g \in Floods \ {f} : Same(g)
  BY <1>1, <1>3 DEF Prepare, Same, TypeOK, run, channel, stats, history
<1>10. f \in Begun' /\ Concurrency(f)' = Concurrency(f) /\ Requests(f)' = Requests(f)
       /\ Stopped(f)' = Stopped(f) /\ UNCHANGED <<cfg, pc, cur, cancelled, expired, open, dispatch, put>>
  BY <1>1 DEF Prepare, Begun, Concurrency, Requests, Stopped, run, channel, stats, history
<1>11. /\ work'[f] = work[f] /\ dropped'[f] = dropped[f] /\ total'[f] = total[f]
      /\ success'[f] = success[f] /\ errors'[f] = errors[f] /\ late'[f] = late[f]
  BY <1>1 DEF Prepare, TypeOK, channel, stats, history
<1>12. StageOK(f)'
  BY <1>1, <1>4, <1>5, <1>6, <1>7, <1>10 DEF FloodOK, StageOK
<1>13. ConservedAt(f)'
  <2>1. put[f] = work[f] + Held(f) + dropped[f] + success[f] + errors[f]
        /\ total[f] = crew[f].count + success[f] + errors[f]
    BY <1>1 DEF FloodOK, ConservedAt
  <2>2. put'[f] = work'[f] + Held(f)' + dropped'[f] + success'[f] + errors'[f]
    BY <1>1, <1>6, <1>10, <1>11, <2>1 DEF NumbersOK
  <2>3. total'[f] = crew'[f].count + success'[f] + errors'[f]
    BY <1>1, <1>4, <1>11, <2>1 DEF NumbersOK
  <2> QED
    BY <2>2, <2>3 DEF ConservedAt
<1>14. EndOK(f)'
  BY <1>1, <1>4, <1>5, <1>7, <1>10, <1>11 DEF Prepare, FloodOK, EndOK, NumbersOK
<1>15. LateOK(f)'
  <2>1. crew[f].send <= Concurrency(f)
    BY <1>1, <1>5 DEF FloodOK, StageOK, Size, Held
  <2> QED
    BY <1>1, <1>4, <1>5, <1>7, <1>10, <1>11, <2>1 DEF Prepare, TypeOK, FloodOK, LateOK, NumbersOK, history
<1>16. OpenOK(f)'
  BY <1>1, <1>10 DEF FloodOK, OpenOK
<1>17. FloodOK(f)'
  BY <1>12, <1>13, <1>14, <1>15, <1>16 DEF FloodOK
<1> QED
  BY <1>1, <1>8, <1>9, <1>10, <1>17, Assemble DEF run

\* A request that cannot be built is an error.
LEMMA BuildFailsOK ==
  ASSUME IInv, NEW f \in Begun, BuildFails(f)
  PROVE  IInv'
<1>1. TypeOK /\ f \in Floods /\ FloodOK(f) /\ NumbersOK(f)
      /\ Concurrency(f) \in Nat \ {0} /\ Requests(f) \in Nat
  BY BegunFacts DEF IInv
<1>2. Move(f, "send", "take") /\ crew \in [Floods -> [Stages -> Nat]]
  BY <1>1 DEF BuildFails, TypeOK
<1>3. crew' \in [Floods -> [Stages -> Nat]] /\ \A g \in Floods \ {f} : crew'[g] = crew[g]
  BY <1>1, <1>2, MoveFacts DEF Stages
<1>4. /\ crew[f].send > 0
      /\ crew'[f].take = crew[f].take + 1 /\ crew'[f].check = crew[f].check
      /\ crew'[f].send = crew[f].send - 1 /\ crew'[f].answer = crew[f].answer
      /\ crew'[f].count = crew[f].count /\ crew'[f].gone = crew[f].gone
  BY <1>1, <1>2, MoveFacts DEF Stages
<1>5. /\ crew[f].take \in Nat /\ crew[f].check \in Nat /\ crew[f].send \in Nat
      /\ crew[f].answer \in Nat /\ crew[f].count \in Nat /\ crew[f].gone \in Nat
  BY <1>1 DEF NumbersOK
<1>6. Held(f) \in Nat /\ Held(f)' = Held(f) - 1 /\ Size(f)' = Size(f)
  <2>1. Held(f) \in Nat /\ Held(f)' = Held(f) - 1
    BY <1>4, <1>5 DEF Held
  <2>2. Size(f)' = Size(f)
    BY <1>4, <1>5, <2>1 DEF Size
  <2> QED
    BY <2>1, <2>2
<1>7. f = cur /\ ~(f < cur) /\ pc = "wait" /\ (FloodDone(f) <=> Stopped(f))
  BY <1>1, <1>4, <1>5, WorkingFacts DEF Held
<1>8. TypeOK'
  BY <1>1, <1>3 DEF BuildFails, TypeOK, run, channel, stats, history, NumbersOK
<1>9. \A g \in Floods \ {f} : Same(g)
  BY <1>1, <1>3 DEF BuildFails, Same, TypeOK, run, channel, stats, history
<1>10. f \in Begun' /\ Concurrency(f)' = Concurrency(f) /\ Requests(f)' = Requests(f)
       /\ Stopped(f)' = Stopped(f) /\ UNCHANGED <<cfg, pc, cur, cancelled, expired, open, dispatch, put>>
  BY <1>1 DEF BuildFails, Begun, Concurrency, Requests, Stopped, run, channel, stats, history
<1>11. /\ work'[f] = work[f] /\ dropped'[f] = dropped[f] /\ total'[f] = total[f] + 1
      /\ success'[f] = success[f] /\ errors'[f] = errors[f] + 1 /\ late'[f] = late[f]
  BY <1>1 DEF BuildFails, TypeOK, channel, stats, history
<1>12. StageOK(f)'
  BY <1>1, <1>4, <1>5, <1>6, <1>7, <1>10 DEF FloodOK, StageOK
<1>13. ConservedAt(f)'
  <2>1. put[f] = work[f] + Held(f) + dropped[f] + success[f] + errors[f]
        /\ total[f] = crew[f].count + success[f] + errors[f]
    BY <1>1 DEF FloodOK, ConservedAt
  <2>2. put'[f] = work'[f] + Held(f)' + dropped'[f] + success'[f] + errors'[f]
    BY <1>1, <1>6, <1>10, <1>11, <2>1 DEF NumbersOK
  <2>3. total'[f] = crew'[f].count + success'[f] + errors'[f]
    BY <1>1, <1>4, <1>11, <2>1 DEF NumbersOK
  <2> QED
    BY <2>2, <2>3 DEF ConservedAt
<1>14. EndOK(f)'
  BY <1>1, <1>4, <1>5, <1>7, <1>10, <1>11 DEF BuildFails, FloodOK, EndOK, NumbersOK
<1>15. LateOK(f)'
  <2>1. crew[f].send <= Concurrency(f)
    BY <1>1, <1>5 DEF FloodOK, StageOK, Size, Held
  <2> QED
    BY <1>1, <1>4, <1>5, <1>7, <1>10, <1>11, <2>1 DEF BuildFails, TypeOK, FloodOK, LateOK, NumbersOK, history
<1>16. OpenOK(f)'
  BY <1>1, <1>10 DEF FloodOK, OpenOK
<1>17. FloodOK(f)'
  BY <1>12, <1>13, <1>14, <1>15, <1>16 DEF FloodOK
<1> QED
  BY <1>1, <1>8, <1>9, <1>10, <1>17, Assemble DEF run

\* The worker sends: if the context is done, it was one of the last.
LEMMA SendOK ==
  ASSUME IInv, NEW f \in Begun, Send(f)
  PROVE  IInv'
<1>1. TypeOK /\ f \in Floods /\ FloodOK(f) /\ NumbersOK(f)
      /\ Concurrency(f) \in Nat \ {0} /\ Requests(f) \in Nat
  BY BegunFacts DEF IInv
<1>2. Move(f, "send", "answer") /\ crew \in [Floods -> [Stages -> Nat]]
  BY <1>1 DEF Send, TypeOK
<1>3. crew' \in [Floods -> [Stages -> Nat]] /\ \A g \in Floods \ {f} : crew'[g] = crew[g]
  BY <1>1, <1>2, MoveFacts DEF Stages
<1>4. /\ crew[f].send > 0
      /\ crew'[f].take = crew[f].take /\ crew'[f].check = crew[f].check
      /\ crew'[f].send = crew[f].send - 1 /\ crew'[f].answer = crew[f].answer + 1
      /\ crew'[f].count = crew[f].count /\ crew'[f].gone = crew[f].gone
  BY <1>1, <1>2, MoveFacts DEF Stages
<1>5. /\ crew[f].take \in Nat /\ crew[f].check \in Nat /\ crew[f].send \in Nat
      /\ crew[f].answer \in Nat /\ crew[f].count \in Nat /\ crew[f].gone \in Nat
  BY <1>1 DEF NumbersOK
<1>6. Held(f) \in Nat /\ Held(f)' = Held(f) /\ Size(f)' = Size(f)
  <2>1. Held(f) \in Nat /\ Held(f)' = Held(f)
    BY <1>4, <1>5 DEF Held
  <2>2. Size(f)' = Size(f)
    BY <1>4, <1>5, <2>1 DEF Size
  <2> QED
    BY <2>1, <2>2
<1>7. f = cur /\ ~(f < cur) /\ pc = "wait" /\ (FloodDone(f) <=> Stopped(f))
  BY <1>1, <1>4, <1>5, WorkingFacts DEF Held
<1>8. TypeOK'
  BY <1>1, <1>3 DEF Send, TypeOK, run, channel, stats, history, NumbersOK
<1>9. \A g \in Floods \ {f} : Same(g)
  BY <1>1, <1>3 DEF Send, Same, TypeOK, run, channel, stats, history
<1>10. f \in Begun' /\ Concurrency(f)' = Concurrency(f) /\ Requests(f)' = Requests(f)
       /\ Stopped(f)' = Stopped(f) /\ UNCHANGED <<cfg, pc, cur, cancelled, expired, open, dispatch, put>>
  BY <1>1 DEF Send, Begun, Concurrency, Requests, Stopped, run, channel, stats, history
<1>11. /\ work'[f] = work[f] /\ dropped'[f] = dropped[f] /\ total'[f] = total[f]
      /\ success'[f] = success[f] /\ errors'[f] = errors[f] /\ late'[f] \in {late[f], late[f] + 1}
  BY <1>1 DEF Send, TypeOK, channel, stats, history
<1>12. StageOK(f)'
  BY <1>1, <1>4, <1>5, <1>6, <1>7, <1>10 DEF FloodOK, StageOK
<1>13. ConservedAt(f)'
  <2>1. put[f] = work[f] + Held(f) + dropped[f] + success[f] + errors[f]
        /\ total[f] = crew[f].count + success[f] + errors[f]
    BY <1>1 DEF FloodOK, ConservedAt
  <2>2. put'[f] = work'[f] + Held(f)' + dropped'[f] + success'[f] + errors'[f]
    BY <1>1, <1>6, <1>10, <1>11, <2>1 DEF NumbersOK
  <2>3. total'[f] = crew'[f].count + success'[f] + errors'[f]
    BY <1>1, <1>4, <1>11, <2>1 DEF NumbersOK
  <2> QED
    BY <2>2, <2>3 DEF ConservedAt
<1>14. EndOK(f)'
  BY <1>1, <1>4, <1>5, <1>7, <1>10, <1>11 DEF Send, FloodOK, EndOK, NumbersOK
<1>15. LateOK(f)'
  <2>1. crew[f].send <= Concurrency(f)
    BY <1>1, <1>5 DEF FloodOK, StageOK, Size, Held
  <2> QED
    BY <1>1, <1>4, <1>5, <1>7, <1>10, <1>11, <2>1 DEF Send, TypeOK, FloodOK, LateOK, NumbersOK, history
<1>16. OpenOK(f)'
  BY <1>1, <1>10 DEF FloodOK, OpenOK
<1>17. FloodOK(f)'
  BY <1>12, <1>13, <1>14, <1>15, <1>16 DEF FloodOK
<1> QED
  BY <1>1, <1>8, <1>9, <1>10, <1>17, Assemble DEF run

\* An answer is counted, first in the total.
LEMMA AnswerOK ==
  ASSUME IInv, NEW f \in Begun, Answer(f)
  PROVE  IInv'
<1>1. TypeOK /\ f \in Floods /\ FloodOK(f) /\ NumbersOK(f)
      /\ Concurrency(f) \in Nat \ {0} /\ Requests(f) \in Nat
  BY BegunFacts DEF IInv
<1>2. Move(f, "answer", "count") /\ crew \in [Floods -> [Stages -> Nat]]
  BY <1>1 DEF Answer, TypeOK
<1>3. crew' \in [Floods -> [Stages -> Nat]] /\ \A g \in Floods \ {f} : crew'[g] = crew[g]
  BY <1>1, <1>2, MoveFacts DEF Stages
<1>4. /\ crew[f].answer > 0
      /\ crew'[f].take = crew[f].take /\ crew'[f].check = crew[f].check
      /\ crew'[f].send = crew[f].send /\ crew'[f].answer = crew[f].answer - 1
      /\ crew'[f].count = crew[f].count + 1 /\ crew'[f].gone = crew[f].gone
  BY <1>1, <1>2, MoveFacts DEF Stages
<1>5. /\ crew[f].take \in Nat /\ crew[f].check \in Nat /\ crew[f].send \in Nat
      /\ crew[f].answer \in Nat /\ crew[f].count \in Nat /\ crew[f].gone \in Nat
  BY <1>1 DEF NumbersOK
<1>6. Held(f) \in Nat /\ Held(f)' = Held(f) /\ Size(f)' = Size(f)
  <2>1. Held(f) \in Nat /\ Held(f)' = Held(f)
    BY <1>4, <1>5 DEF Held
  <2>2. Size(f)' = Size(f)
    BY <1>4, <1>5, <2>1 DEF Size
  <2> QED
    BY <2>1, <2>2
<1>7. f = cur /\ ~(f < cur) /\ pc = "wait" /\ (FloodDone(f) <=> Stopped(f))
  BY <1>1, <1>4, <1>5, WorkingFacts DEF Held
<1>8. TypeOK'
  BY <1>1, <1>3 DEF Answer, TypeOK, run, channel, stats, history, NumbersOK
<1>9. \A g \in Floods \ {f} : Same(g)
  BY <1>1, <1>3 DEF Answer, Same, TypeOK, run, channel, stats, history
<1>10. f \in Begun' /\ Concurrency(f)' = Concurrency(f) /\ Requests(f)' = Requests(f)
       /\ Stopped(f)' = Stopped(f) /\ UNCHANGED <<cfg, pc, cur, cancelled, expired, open, dispatch, put>>
  BY <1>1 DEF Answer, Begun, Concurrency, Requests, Stopped, run, channel, stats, history
<1>11. /\ work'[f] = work[f] /\ dropped'[f] = dropped[f] /\ total'[f] = total[f] + 1
      /\ success'[f] = success[f] /\ errors'[f] = errors[f] /\ late'[f] = late[f]
  BY <1>1 DEF Answer, TypeOK, channel, stats, history
<1>12. StageOK(f)'
  BY <1>1, <1>4, <1>5, <1>6, <1>7, <1>10 DEF FloodOK, StageOK
<1>13. ConservedAt(f)'
  <2>1. put[f] = work[f] + Held(f) + dropped[f] + success[f] + errors[f]
        /\ total[f] = crew[f].count + success[f] + errors[f]
    BY <1>1 DEF FloodOK, ConservedAt
  <2>2. put'[f] = work'[f] + Held(f)' + dropped'[f] + success'[f] + errors'[f]
    BY <1>1, <1>6, <1>10, <1>11, <2>1 DEF NumbersOK
  <2>3. total'[f] = crew'[f].count + success'[f] + errors'[f]
    BY <1>1, <1>4, <1>11, <2>1 DEF NumbersOK
  <2> QED
    BY <2>2, <2>3 DEF ConservedAt
<1>14. EndOK(f)'
  BY <1>1, <1>4, <1>5, <1>7, <1>10, <1>11 DEF Answer, FloodOK, EndOK, NumbersOK
<1>15. LateOK(f)'
  <2>1. crew[f].send <= Concurrency(f)
    BY <1>1, <1>5 DEF FloodOK, StageOK, Size, Held
  <2> QED
    BY <1>1, <1>4, <1>5, <1>7, <1>10, <1>11, <2>1 DEF Answer, TypeOK, FloodOK, LateOK, NumbersOK, history
<1>16. OpenOK(f)'
  BY <1>1, <1>10 DEF FloodOK, OpenOK
<1>17. FloodOK(f)'
  BY <1>12, <1>13, <1>14, <1>15, <1>16 DEF FloodOK
<1> QED
  BY <1>1, <1>8, <1>9, <1>10, <1>17, Assemble DEF run

\* Then as a success or an error.
LEMMA CountOK ==
  ASSUME IInv, NEW f \in Begun, NEW ok \in BOOLEAN, Count(f, ok)
  PROVE  IInv'
<1>1. TypeOK /\ f \in Floods /\ FloodOK(f) /\ NumbersOK(f)
      /\ Concurrency(f) \in Nat \ {0} /\ Requests(f) \in Nat
  BY BegunFacts DEF IInv
<1>2. Move(f, "count", "take") /\ crew \in [Floods -> [Stages -> Nat]]
  BY <1>1 DEF Count, TypeOK
<1>3. crew' \in [Floods -> [Stages -> Nat]] /\ \A g \in Floods \ {f} : crew'[g] = crew[g]
  BY <1>1, <1>2, MoveFacts DEF Stages
<1>4. /\ crew[f].count > 0
      /\ crew'[f].take = crew[f].take + 1 /\ crew'[f].check = crew[f].check
      /\ crew'[f].send = crew[f].send /\ crew'[f].answer = crew[f].answer
      /\ crew'[f].count = crew[f].count - 1 /\ crew'[f].gone = crew[f].gone
  BY <1>1, <1>2, MoveFacts DEF Stages
<1>5. /\ crew[f].take \in Nat /\ crew[f].check \in Nat /\ crew[f].send \in Nat
      /\ crew[f].answer \in Nat /\ crew[f].count \in Nat /\ crew[f].gone \in Nat
  BY <1>1 DEF NumbersOK
<1>6. Held(f) \in Nat /\ Held(f)' = Held(f) - 1 /\ Size(f)' = Size(f)
  <2>1. Held(f) \in Nat /\ Held(f)' = Held(f) - 1
    BY <1>4, <1>5 DEF Held
  <2>2. Size(f)' = Size(f)
    BY <1>4, <1>5, <2>1 DEF Size
  <2> QED
    BY <2>1, <2>2
<1>7. f = cur /\ ~(f < cur) /\ pc = "wait" /\ (FloodDone(f) <=> Stopped(f))
  BY <1>1, <1>4, <1>5, WorkingFacts DEF Held
<1>8. TypeOK'
  BY <1>1, <1>3 DEF Count, TypeOK, run, channel, stats, history, NumbersOK
<1>9. \A g \in Floods \ {f} : Same(g)
  BY <1>1, <1>3 DEF Count, Same, TypeOK, run, channel, stats, history
<1>10. f \in Begun' /\ Concurrency(f)' = Concurrency(f) /\ Requests(f)' = Requests(f)
       /\ Stopped(f)' = Stopped(f) /\ UNCHANGED <<cfg, pc, cur, cancelled, expired, open, dispatch, put>>
  BY <1>1 DEF Count, Begun, Concurrency, Requests, Stopped, run, channel, stats, history
<1>11. /\ work'[f] = work[f] /\ dropped'[f] = dropped[f] /\ total'[f] = total[f]
      /\ success'[f] + errors'[f] = success[f] + errors[f] + 1 /\ success'[f] \in Nat /\ errors'[f] \in Nat /\ late'[f] = late[f]
  <2>1. UNCHANGED <<work, dropped, total, late>> /\ total[f] \in Nat
    BY <1>1 DEF Count, NumbersOK, channel, history
  <2>2. CASE ok
    <3>1. success'[f] = success[f] + 1 /\ errors'[f] = errors[f]
      BY <1>1, <2>2 DEF Count, TypeOK
    <3> QED
      BY <1>1, <2>1, <3>1 DEF NumbersOK
  <2>3. CASE ~ok
    <3>1. success'[f] = success[f] /\ errors'[f] = errors[f] + 1
      BY <1>1, <2>3 DEF Count, TypeOK
    <3> QED
      BY <1>1, <2>1, <3>1 DEF NumbersOK
  <2> QED
    BY <2>2, <2>3
<1>12. StageOK(f)'
  BY <1>1, <1>4, <1>5, <1>6, <1>7, <1>10 DEF FloodOK, StageOK
<1>13. ConservedAt(f)'
  <2>1. put[f] = work[f] + Held(f) + dropped[f] + success[f] + errors[f]
        /\ total[f] = crew[f].count + success[f] + errors[f]
    BY <1>1 DEF FloodOK, ConservedAt
  <2>2. put'[f] = work'[f] + Held(f)' + dropped'[f] + success'[f] + errors'[f]
    BY <1>1, <1>6, <1>10, <1>11, <2>1 DEF NumbersOK
  <2>3. total'[f] = crew'[f].count + success'[f] + errors'[f]
    BY <1>1, <1>4, <1>11, <2>1 DEF NumbersOK
  <2> QED
    BY <2>2, <2>3 DEF ConservedAt
<1>14. EndOK(f)'
  BY <1>1, <1>4, <1>5, <1>7, <1>10, <1>11 DEF Count, FloodOK, EndOK, NumbersOK
<1>15. LateOK(f)'
  <2>1. crew[f].send <= Concurrency(f)
    BY <1>1, <1>5 DEF FloodOK, StageOK, Size, Held
  <2> QED
    BY <1>1, <1>4, <1>5, <1>7, <1>10, <1>11, <2>1 DEF Count, TypeOK, FloodOK, LateOK, NumbersOK, history
<1>16. OpenOK(f)'
  BY <1>1, <1>10 DEF FloodOK, OpenOK
<1>17. FloodOK(f)'
  BY <1>12, <1>13, <1>14, <1>15, <1>16 DEF FloodOK
<1> QED
  BY <1>1, <1>8, <1>9, <1>10, <1>17, Assemble DEF run

-----------------------------------------------------------------------------
(* The steps of a dispatcher. *)

\* A dispatcher that only moves: all that has to hold again is what its new
\* place means.
LEMMA DispatchMoves ==
  ASSUME IInv, NEW f \in Begun, NEW from, NEW to \in {"check", "tick", "put", "ended"},
         Dispatch(f, from, to), from # "none", from # "ended",
         to \in {"tick", "put"} => put[f] < Requests(f),
         to = "ended" => Stopped(f) \/ put[f] = Requests(f),
         UNCHANGED <<cfg, run, cancelled, expired, put, work, crew, stats, open, history>>
  PROVE  IInv'
<1>1. TypeOK /\ f \in Floods /\ FloodOK(f) /\ NumbersOK(f)
  BY BegunFacts DEF IInv
<1>2. dispatch'[f] = to /\ \A g \in Floods \ {f} : dispatch'[g] = dispatch[g]
  BY <1>1 DEF Dispatch, TypeOK
<1>3. TypeOK'
  BY <1>1 DEF Dispatch, TypeOK, run, stats, history
<1>4. \A g \in Floods \ {f} : Same(g)
  BY <1>2 DEF Same, stats, history
<1>5. f \in Begun' /\ Concurrency(f)' = Concurrency(f) /\ Requests(f)' = Requests(f)
      /\ Stopped(f)' = Stopped(f) /\ Held(f)' = Held(f) /\ Size(f)' = Size(f)
  BY <1>1, <1>2 DEF Begun, Concurrency, Requests, Stopped, Held, Size
<1>6. StageOK(f)' /\ ConservedAt(f)' /\ LateOK(f)' /\ OpenOK(f)'
  BY <1>1, <1>5 DEF FloodOK, StageOK, ConservedAt, LateOK, OpenOK, run, stats, history
<1>7. EndOK(f)'
  <2>1. dispatch[f] = from
    BY DEF Dispatch
  <2> QED
    BY <1>1, <1>2, <1>5, <2>1 DEF FloodOK, EndOK, stats, history
<1>8. FloodOK(f)'
  BY <1>6, <1>7 DEF FloodOK
<1> QED
  BY <1>3, <1>4, <1>8, Assemble

LEMMA PutOK ==
  ASSUME IInv, NEW f \in Begun, Put(f)
  PROVE  IInv'
<1>1. TypeOK /\ f \in Floods /\ FloodOK(f) /\ NumbersOK(f)
      /\ Concurrency(f) \in Nat \ {0} /\ Requests(f) \in Nat
  BY BegunFacts DEF IInv
<1>2. /\ dispatch[f] = "put" /\ dispatch'[f] = "check"
      /\ put'[f] = put[f] + 1 /\ work'[f] = work[f] + 1
      /\ UNCHANGED <<cfg, pc, cur, cancelled, expired, crew, total, success, errors, open, dropped, late>>
      /\ \A g \in Floods \ {f} : dispatch'[g] = dispatch[g] /\ put'[g] = put[g] /\ work'[g] = work[g]
  BY <1>1 DEF Put, Dispatch, TypeOK, run, stats, history
<1>3. TypeOK'
  BY <1>1, <1>2 DEF Put, Dispatch, TypeOK, NumbersOK
<1>4. \A g \in Floods \ {f} : Same(g)
  BY <1>2 DEF Same
<1>5. f \in Begun' /\ Concurrency(f)' = Concurrency(f) /\ Requests(f)' = Requests(f)
      /\ Stopped(f)' = Stopped(f) /\ Held(f)' = Held(f) /\ Size(f)' = Size(f)
  BY <1>1, <1>2 DEF Begun, Concurrency, Requests, Stopped, Held, Size
<1>6. StageOK(f)' /\ LateOK(f)' /\ OpenOK(f)'
  BY <1>1, <1>2, <1>5 DEF FloodOK, StageOK, LateOK, OpenOK
<1>7. ConservedAt(f)'
  <2>1. Held(f) \in Nat
    BY <1>1 DEF Held, NumbersOK
  <2>2. put[f] = work[f] + Held(f) + dropped[f] + success[f] + errors[f]
    BY <1>1 DEF FloodOK, ConservedAt
  <2>3. put'[f] = work'[f] + Held(f)' + dropped'[f] + success'[f] + errors'[f]
    BY <1>1, <1>2, <1>5, <2>1, <2>2 DEF NumbersOK
  <2> QED
    BY <1>1, <1>2, <2>3 DEF FloodOK, ConservedAt
<1>8. EndOK(f)'
  BY <1>1, <1>2, <1>5 DEF FloodOK, EndOK, NumbersOK
<1>9. FloodOK(f)'
  BY <1>6, <1>7, <1>8 DEF FloodOK
<1> QED
  BY <1>2, <1>3, <1>4, <1>9, Assemble DEF run

LEMMA DispatchStepOK ==
  ASSUME IInv, NEW f \in Begun, DispatchStep(f)
  PROVE  IInv'
<1>1. f \in Floods /\ FloodOK(f) /\ NumbersOK(f)
      /\ Concurrency(f) \in Nat \ {0} /\ Requests(f) \in Nat
  BY BegunFacts
<1>2. CASE AllPut(f)
  BY <1>2, DispatchMoves DEF AllPut
<1>3. CASE NextPut(f)
  <2>1. CASE cfg[f].rate
    BY <1>3, <2>1, DispatchMoves DEF NextPut
  <2>2. CASE ~cfg[f].rate
    BY <1>3, <2>2, DispatchMoves DEF NextPut
  <2> QED
    BY <2>1, <2>2
<1>4. CASE Tick(f)
  <2>1. put[f] < Requests(f)
    BY <1>1, <1>4 DEF Tick, Dispatch, FloodOK, EndOK
  <2> QED
    BY <1>4, <2>1, DispatchMoves DEF Tick
<1>5. CASE Put(f)
  BY <1>5, PutOK
<1>6. CASE GiveUpPut(f)
  <2>1. PICK from \in {"check", "tick", "put"} : Dispatch(f, from, "ended")
    BY <1>6 DEF GiveUpPut
  <2>2. dispatch[f] # "ended"
    BY <2>1 DEF Dispatch
  \* if the flood is over, its workers returned for the same reason
  <2>3. Stopped(f)
    <3>1. CASE f \in Ended
      <4>1. crew[f].gone > 0
        BY <1>1, <3>1 DEF Ended, FloodOK, StageOK
      <4> QED
        BY <1>1, <2>2, <4>1 DEF FloodOK, EndOK
    <3>2. CASE f \notin Ended
      BY <1>6, <3>2 DEF GiveUpPut, FloodDone, Stopped
    <3> QED
      BY <3>1, <3>2
  <2>4. UNCHANGED <<cfg, run, cancelled, expired, put, work, crew, stats, open, history>>
    BY <1>6 DEF GiveUpPut
  <2> QED
    BY <2>1, <2>3, <2>4, DispatchMoves
<1> QED
  BY <1>2, <1>3, <1>4, <1>5, <1>6 DEF DispatchStep

-----------------------------------------------------------------------------
(* The steps of Run. *)

\* A step of Run that begins and ends no flood.
LEMMA RunMoves ==
  ASSUME IInv, pc # "wait", pc' \in {"idle", "target", "done"}, cur' = cur,
         \A f \in Floods : OpenOK(f)', open' \subseteq Floods,
         UNCHANGED <<cfg, cancelled, expired, channel, crew, stats, history>>
  PROVE  IInv'
<1>1. TypeOK'
  BY DEF IInv, TypeOK, channel, stats, history
<1>2. TurnOK'
  BY DEF IInv, TurnOK
<1>3. ASSUME NEW f \in Floods
      PROVE  FloodOK(f)'
  <2>1. FloodOK(f) /\ f \in Floods
    BY <1>3 DEF IInv
  <2>2. (f \in Begun' <=> f \in Begun) /\ Concurrency(f)' = Concurrency(f) /\ Requests(f)' = Requests(f)
        /\ Stopped(f)' = Stopped(f) /\ Held(f)' = Held(f) /\ Size(f)' = Size(f)
    BY DEF Begun, Concurrency, Requests, Stopped, Held, Size, channel
  <2>3. StageOK(f)' /\ ConservedAt(f)' /\ EndOK(f)' /\ LateOK(f)'
    BY <2>1, <2>2 DEF FloodOK, StageOK, ConservedAt, EndOK, LateOK, channel, stats, history
  <2> QED
    BY <1>3, <2>3 DEF FloodOK
<1> QED
  BY <1>1, <1>2, <1>3 DEF IInv

LEMMA ZeroSum ==
  ASSUME NEW a \in Nat, NEW b \in Nat, NEW c \in Nat, NEW d \in Nat, a + b + c + d = 0
  PROVE  a = 0 /\ b = 0 /\ c = 0 /\ d = 0
OBVIOUS

\* What begins has done nothing yet, and all its workers wait for work.
LEMMA StartFloodOK ==
  ASSUME IInv, StartFlood
  PROVE  IInv'
<1>1. TypeOK /\ TurnOK /\ cur \in Floods /\ cur \in 1 .. Len(cfg) /\ Concurrency(cur) \in Nat \ {0}
      /\ Requests(cur) \in Nat
  <2>1. TypeOK /\ TurnOK
    BY DEF IInv
  <2>2. cfg \in Configs /\ cur \in Nat \ {0} /\ cur <= Len(cfg)
    BY <2>1 DEF StartFlood, TypeOK, TurnOK
  <2>3. cur \in 1 .. Len(cfg)
    BY <2>2, ConfigFacts
  <2> QED
    BY <2>1, <2>2, <2>3, ConfigFacts
<1>2. /\ pc = "target" /\ pc' = "wait"
      /\ UNCHANGED <<cfg, cur, cancelled, expired, put, work, total, success, errors, dropped, late>>
      /\ dispatch'[cur] = "check" /\ \A f \in Floods \ {cur} : dispatch'[f] = dispatch[f]
  BY <1>1 DEF StartFlood, TypeOK, stats, history
<1>3. /\ crew' \in [Floods -> [Stages -> Nat]]
      /\ \A f \in Floods \ {cur} : crew'[f] = crew[f]
      /\ crew'[cur].take = Concurrency(cur)
      /\ \A s \in Stages \ {"take"} : crew'[cur][s] = crew[cur][s]
  <2> DEFINE row == [crew[cur] EXCEPT !.take = Concurrency(cur)]
  <2>1. crew[cur] \in [Stages -> Nat] /\ crew' = [crew EXCEPT ![cur] = row]
    BY <1>1 DEF StartFlood, TypeOK
  <2>2. row \in [Stages -> Nat] /\ row.take = Concurrency(cur)
        /\ \A s \in Stages \ {"take"} : row[s] = crew[cur][s]
    BY <1>1, <2>1 DEF Stages
  <2> HIDE DEF row
  <2> QED
    BY <1>1, <2>1, <2>2 DEF TypeOK
<1>4. TypeOK'
  BY <1>1, <1>2, <1>3 DEF StartFlood, TypeOK
<1>5. TurnOK'
  BY <1>1, <1>2 DEF TurnOK, TypeOK
<1>6. ASSUME NEW f \in Floods \ {cur}
      PROVE  FloodOK(f)'
  <2>1. FloodOK(f) /\ f \in Nat /\ cur \in Nat
    BY <1>1, <1>6 DEF IInv, Floods
  <2>2. (f \in Begun' <=> f \in Begun) /\ Concurrency(f)' = Concurrency(f) /\ Requests(f)' = Requests(f)
        /\ Stopped(f)' = Stopped(f) /\ Held(f)' = Held(f) /\ Size(f)' = Size(f) /\ crew'[f] = crew[f]
        /\ dispatch'[f] = dispatch[f]
    BY <1>2, <1>3, <1>6 DEF Begun, Concurrency, Requests, Stopped, Held, Size
  <2>3. f \in open' <=> f \in open
    BY <1>6 DEF StartFlood
  <2>4. StageOK(f)' /\ ConservedAt(f)' /\ EndOK(f)' /\ LateOK(f)'
    BY <1>2, <1>6, <2>1, <2>2 DEF FloodOK, StageOK, ConservedAt, EndOK, LateOK
  <2>5. OpenOK(f)'
    BY <1>2, <1>6, <2>1, <2>3 DEF FloodOK, OpenOK
  <2> QED
    BY <2>4, <2>5 DEF FloodOK
<1>7. FloodOK(cur)'
  <2>1. FloodOK(cur) /\ NumbersOK(cur) /\ cur \notin Begun /\ cur \in Nat
    <3>1. FloodOK(cur) /\ NumbersOK(cur)
      BY <1>1, Numbers DEF IInv
    <3>2. cur \in Nat
      BY <1>1 DEF TypeOK
    <3> QED
      BY <1>2, <3>1, <3>2 DEF FloodOK, StageOK
  <2>2. /\ put[cur] = 0 /\ late[cur] = 0 /\ crew[cur].gone = 0 /\ Held(cur) = 0
        /\ crew[cur].check = 0 /\ crew[cur].send = 0 /\ crew[cur].answer = 0 /\ crew[cur].count = 0
    <3>1. put[cur] = 0 /\ late[cur] = 0 /\ Size(cur) = 0
      BY <2>1 DEF FloodOK, StageOK
    <3>2. Held(cur) \in Nat
      BY <2>1 DEF Held, NumbersOK
    <3>3. Held(cur) = 0 /\ crew[cur].gone = 0
      BY <2>1, <3>1, <3>2 DEF Size, NumbersOK
    <3>4. /\ crew[cur].check \in Nat /\ crew[cur].send \in Nat
          /\ crew[cur].answer \in Nat /\ crew[cur].count \in Nat
      BY <2>1 DEF NumbersOK
    <3>5. crew[cur].check = 0 /\ crew[cur].send = 0 /\ crew[cur].answer = 0 /\ crew[cur].count = 0
      BY <3>3, <3>4, ZeroSum DEF Held
    <3> QED
      BY <3>1, <3>3, <3>5
  <2>3. work[cur] = 0 /\ dropped[cur] = 0 /\ success[cur] = 0 /\ errors[cur] = 0 /\ total[cur] = 0
    <3>1. work[cur] + dropped[cur] + success[cur] + errors[cur] = 0
          /\ total[cur] = success[cur] + errors[cur]
      BY <2>1, <2>2 DEF FloodOK, ConservedAt, NumbersOK
    <3>2. /\ work[cur] \in Nat /\ dropped[cur] \in Nat /\ success[cur] \in Nat
          /\ errors[cur] \in Nat
      BY <2>1 DEF NumbersOK
    <3>3. work[cur] = 0 /\ dropped[cur] = 0 /\ success[cur] = 0 /\ errors[cur] = 0
      BY <3>1, <3>2, ZeroSum
    <3> QED
      BY <3>1, <3>3
  <2>4. /\ crew'[cur].take = Concurrency(cur) /\ crew'[cur].gone = 0
        /\ crew'[cur].check = 0 /\ crew'[cur].send = 0 /\ crew'[cur].answer = 0 /\ crew'[cur].count = 0
    BY <1>3, <2>2 DEF Stages
  <2>5. Held(cur)' = 0 /\ Size(cur)' = Concurrency(cur) /\ cur \in Begun'
        /\ Concurrency(cur)' = Concurrency(cur) /\ Requests(cur)' = Requests(cur)
    BY <1>1, <1>2, <2>4 DEF Held, Size, Begun, Concurrency, Requests
  <2>6. StageOK(cur)'
    BY <1>2, <2>1, <2>5 DEF StageOK
  <2>7. ConservedAt(cur)'
    BY <1>2, <2>2, <2>3, <2>4, <2>5 DEF ConservedAt
  <2>8. EndOK(cur)'
    BY <1>1, <1>2, <2>2, <2>3, <2>4, <2>5 DEF EndOK, FloodOK, StageOK
  <2>9. LateOK(cur)'
    BY <1>1, <1>2, <2>2, <2>4, <2>5 DEF LateOK
  <2>10. OpenOK(cur)'
    BY <1>1, <1>2, <2>1 DEF StartFlood, FloodOK, OpenOK
  <2> QED
    BY <2>6, <2>7, <2>8, <2>9, <2>10 DEF FloodOK
<1>8. ASSUME NEW f \in Floods
      PROVE  FloodOK(f)'
  <2>1. CASE f = cur
    BY <1>2, <1>7, <2>1
  <2>2. CASE f # cur
    BY <1>6, <1>8, <2>2
  <2> QED
    BY <2>1, <2>2
<1> QED
  BY <1>4, <1>5, <1>8 DEF IInv

\* The flood whose workers have all returned is over, and the next one has not
\* begun.
LEMMA EndFloodOK ==
  ASSUME IInv, EndFlood
  PROVE  IInv'
<1>1. TypeOK /\ TurnOK /\ cur \in Floods /\ cur \in 1 .. Len(cfg) /\ cur \in Begun
      /\ Len(cfg) \in Nat /\ cur \in Nat
  <2>1. TypeOK /\ TurnOK /\ cur \in Floods /\ cur \in 1 .. Len(cfg) /\ Len(cfg) \in Nat
    <3>1. TypeOK /\ TurnOK /\ Len(cfg) \in Nat /\ cur \in Nat \ {0} /\ cur <= Len(cfg)
      BY ConfigFacts DEF IInv, EndFlood, TypeOK, TurnOK
    <3>2. cur \in 1 .. Len(cfg)
      BY <3>1
    <3> QED
      BY <3>1, <3>2, ConfigFacts DEF TypeOK
  <2>2. FloodOK(cur)
    BY <2>1 DEF IInv
  <2> QED
    BY <2>1, <2>2 DEF FloodOK, StageOK, EndFlood
<1>2. /\ pc = "wait" /\ pc' = "target" /\ cur' = cur + 1 /\ open' = open \ {cur}
      /\ UNCHANGED <<cfg, cancelled, expired, dispatch, put, work, crew, total, success, errors, dropped, late>>
      /\ crew[cur].gone = Concurrency(cur)
  BY DEF EndFlood, channel, stats, history
<1>3. TypeOK'
  <2>1. cur' \in Nat \ {0} /\ pc' = "target" /\ open' \subseteq Floods
    BY <1>1, <1>2 DEF TypeOK
  <2> QED
    BY <1>1, <1>2, <2>1 DEF TypeOK
<1>4. TurnOK'
  BY <1>1, <1>2 DEF TurnOK
<1>5. ASSUME NEW f \in Floods
      PROVE  FloodOK(f)'
  <2>1. FloodOK(f) /\ f \in Nat
    BY <1>5 DEF IInv, Floods
  <2>2. (f \in Begun' <=> f \in Begun) /\ Concurrency(f)' = Concurrency(f) /\ Requests(f)' = Requests(f)
        /\ Stopped(f)' = Stopped(f) /\ Held(f)' = Held(f) /\ Size(f)' = Size(f)
    BY <1>2 DEF Begun, Concurrency, Requests, Stopped, Held, Size
  <2>3. f < cur' <=> f < cur \/ f = cur
    BY <1>1, <1>2, <2>1
  <2>4. StageOK(f)'
    BY <1>2, <2>1, <2>2, <2>3 DEF FloodOK, StageOK
  <2>5. ConservedAt(f)' /\ EndOK(f)' /\ LateOK(f)'
    BY <1>2, <2>1, <2>2 DEF FloodOK, ConservedAt, EndOK, LateOK
  <2>6. OpenOK(f)'
    BY <1>2, <2>1 DEF FloodOK, OpenOK
  <2> QED
    BY <2>4, <2>5, <2>6 DEF FloodOK
<1> QED
  BY <1>3, <1>4, <1>5 DEF IInv

LEMMA RunStepOK ==
  ASSUME IInv, BeginRun \/ RunStep
  PROVE  IInv'
<1>1. open \subseteq Floods /\ \A f \in Floods : OpenOK(f)
  BY DEF IInv, FloodOK, TypeOK
<1>2. cur <= Len(cfg) => cur \in Floods
  BY ConfigFacts DEF IInv, TypeOK
<1>3. CASE BeginRun
  <2>1. \A f \in Floods : OpenOK(f)'
    BY <1>1, <1>3 DEF BeginRun, OpenOK
  <2> QED
    BY <1>1, <1>3, <2>1, RunMoves DEF BeginRun
<1>4. ASSUME NEW left \in BOOLEAN, ConnectFails(left)
      PROVE  IInv'
  <2>1. \A f \in Floods : OpenOK(f)'
    BY <1>1, <1>4 DEF ConnectFails, OpenOK
  <2>2. open' \subseteq Floods
    BY <1>1, <1>2, <1>4 DEF ConnectFails, Floods
  <2>3. cur' = cur
    BY <1>4 DEF ConnectFails
  <2> QED
    BY <1>4, <2>1, <2>2, <2>3, RunMoves DEF ConnectFails
<1>5. CASE EndRun
  <2>1. \A f \in Floods : OpenOK(f)'
    BY <1>1, <1>5 DEF EndRun, OpenOK
  <2> QED
    BY <1>1, <1>5, <2>1, RunMoves DEF EndRun
<1> QED
  BY <1>3, <1>4, <1>5, StartFloodOK, EndFloodOK DEF RunStep

-----------------------------------------------------------------------------
(* The contexts. *)

\* When a context ends, those about to send are at most all the workers.
LEMMA ContextStepOK ==
  ASSUME IInv, Cancel \/ Expire
  PROVE  IInv'
<1>1. /\ UNCHANGED <<cfg, pc, cur, dispatch, put, work, crew, total, success, errors, open, dropped, late>>
      /\ cancelled => cancelled'
      /\ expired \subseteq expired'
  BY DEF Cancel, Expire, run, channel, stats, history
<1>2. TypeOK'
  <2>1. cancelled' \in BOOLEAN /\ expired' \subseteq Floods
    <3>1. CASE Cancel
      BY <3>1 DEF Cancel, IInv, TypeOK
    <3>2. CASE Expire
      <4>1. cur \in Floods
        BY <3>2, ConfigFacts DEF Expire, IInv, TypeOK, TurnOK
      <4> QED
        BY <3>2, <4>1 DEF Expire, IInv, TypeOK
    <3> QED
      BY <3>1, <3>2
  <2> QED
    BY <1>1, <2>1 DEF IInv, TypeOK
<1>3. TurnOK'
  BY <1>1 DEF IInv, TurnOK
<1>4. ASSUME NEW f \in Floods
      PROVE  FloodOK(f)'
  <2>1. FloodOK(f)
    BY <1>4 DEF IInv
  <2>2. (f \in Begun' <=> f \in Begun) /\ Concurrency(f)' = Concurrency(f) /\ Requests(f)' = Requests(f)
        /\ Held(f)' = Held(f) /\ Size(f)' = Size(f) /\ (Stopped(f) => Stopped(f)')
    BY <1>1 DEF Begun, Concurrency, Requests, Stopped, Held, Size
  <2>3. StageOK(f)' /\ ConservedAt(f)' /\ EndOK(f)' /\ OpenOK(f)'
    BY <1>1, <2>1, <2>2 DEF FloodOK, StageOK, ConservedAt, EndOK, OpenOK
  <2>4. LateOK(f)'
    <3>1. CASE f \in Begun
      <4>1. NumbersOK(f) /\ Concurrency(f) \in Nat
        BY <3>1, BegunFacts
      <4>2. crew[f].send <= Concurrency(f)
        BY <2>1, <3>1, <4>1 DEF FloodOK, StageOK, Size, Held, NumbersOK
      <4>3. late[f] + crew[f].send <= Concurrency(f) /\ (~Stopped(f) => late[f] = 0)
        BY <2>1, <3>1, <4>1, <4>2 DEF FloodOK, LateOK, NumbersOK
      <4> QED
        BY <1>1, <2>2, <4>3 DEF LateOK
    <3>2. CASE f \notin Begun
      BY <2>2, <3>2 DEF LateOK
    <3> QED
      BY <3>1, <3>2
  <2> QED
    BY <2>3, <2>4 DEF FloodOK
<1> QED
  BY <1>2, <1>3, <1>4 DEF IInv

-----------------------------------------------------------------------------
(* The theorems. *)

LEMMA InitOK == Init => IInv
<1> SUFFICES ASSUME Init
             PROVE  IInv
  OBVIOUS
<1>1. TypeOK
  <2>1. crew \in [Floods -> [Stages -> Nat]]
    BY DEF Init
  <2>2. /\ cfg \in Configs
        /\ pc \in {"idle", "target", "wait", "done"} /\ cur \in Nat \ {0}
        /\ expired \subseteq Floods /\ open \subseteq Floods
    BY DEF Init
  <2>5. cancelled \in BOOLEAN
    BY Zenon DEF Init
  <2>4. dispatch \in [Floods -> {"none", "check", "tick", "put", "ended"}]
    BY DEF Init
  <2>3. /\ put \in [Floods -> Nat] /\ work \in [Floods -> Nat]
        /\ total \in [Floods -> Nat] /\ success \in [Floods -> Nat] /\ errors \in [Floods -> Nat]
        /\ dropped \in [Floods -> Nat] /\ late \in [Floods -> Nat]
    BY DEF Init
  <2> QED
    BY <2>1, <2>2, <2>3, <2>4, <2>5 DEF TypeOK
<1>2. TurnOK
  BY <1>1, ConfigFacts DEF Init, TypeOK, TurnOK
<1>3. ASSUME NEW f \in Floods
      PROVE  FloodOK(f)
  <2>1. f \notin Begun /\ ~(f < cur) /\ Held(f) = 0 /\ Size(f) = 0
    BY <1>3 DEF Init, Begun, Held, Size, Stages, Floods
  <2>2. put[f] = 0 /\ work[f] = 0 /\ dropped[f] = 0 /\ late[f] = 0
        /\ total[f] = 0 /\ success[f] = 0 /\ errors[f] = 0 /\ crew[f].count = 0
    BY <1>3 DEF Init, Stages
  <2>3. ConservedAt(f)
    BY <2>1, <2>2 DEF ConservedAt
  <2>4. StageOK(f) /\ EndOK(f) /\ LateOK(f) /\ OpenOK(f)
    BY <2>1, <2>2 DEF Init, StageOK, EndOK, LateOK, OpenOK
  <2> QED
    BY <2>3, <2>4 DEF FloodOK
<1> QED
  BY <1>1, <1>2, <1>3 DEF IInv

LEMMA StutterOK ==
  ASSUME IInv, UNCHANGED vars
  PROVE  IInv'
<1>1. UNCHANGED <<cfg, pc, cur, cancelled, expired, dispatch, put, work, crew,
                  total, success, errors, open, dropped, late>>
  BY DEF vars, run, channel, stats, history
<1>2. TypeOK' /\ TurnOK'
  BY <1>1 DEF IInv, TypeOK, TurnOK
<1>3. ASSUME NEW f \in Floods
      PROVE  FloodOK(f)'
  <2>1. FloodOK(f) /\ Same(f)
    BY <1>1, <1>3 DEF IInv, Same
  <2> QED
    BY <1>1, <1>3, <2>1, OthersKeep DEF run
<1> QED
  BY <1>2, <1>3 DEF IInv

LEMMA NextOK ==
  ASSUME IInv, [Next]_vars
  PROVE  IInv'
<1>1. CASE BeginRun \/ RunStep
  BY <1>1, RunStepOK
<1>2. CASE Cancel \/ Expire
  BY <1>2, ContextStepOK
<1>3. ASSUME NEW f \in Begun, DispatchStep(f)
      PROVE  IInv'
  BY <1>3, DispatchStepOK
<1>4. ASSUME NEW f \in Begun, WorkerStep(f)
      PROVE  IInv'
  BY <1>4, TakeOK, NoMoreWorkOK, GiveUpWorkOK, PrepareOK, BuildFailsOK, SendOK, CountOK DEF WorkerStep
<1>5. ASSUME NEW f \in Begun, Answer(f)
      PROVE  IInv'
  BY <1>5, AnswerOK
<1>6. CASE UNCHANGED vars
  BY <1>6, StutterOK
<1> QED
  BY <1>1, <1>2, <1>3, <1>4, <1>5, <1>6 DEF Next, Finished

\* The inductive invariant of every flood holds (httpflood.go:113-227).
THEOREM Invariance == Spec => []IInv
<1>1. IInv /\ [Next]_vars => IInv'
  BY NextOK
<1> QED
  BY InitOK, <1>1, PTL DEF Spec

\* Run, the dispatchers, the workers and their counters stay well typed, for
\* any list of targets: no counter of workers or requests falls below zero
\* (httpflood.go:113-227).
THEOREM TypeCorrect == Spec => []TypeOK
<1>1. IInv => TypeOK
  BY DEF IInv
<1> QED
  BY Invariance, <1>1, PTL

\* Every request is in exactly one place (RequestsConserved), whatever is
\* stopped when.
THEOREM NoRequestLost == Spec => [](TypeOK /\ RequestsConserved)
<1>1. IInv => TypeOK /\ RequestsConserved
  BY DEF IInv, FloodOK, ConservedAt, RequestsConserved
<1> QED
  BY Invariance, <1>1, PTL

\* A flood that nothing stopped has counted an answer to every request: its
\* last worker left a closed and empty channel, and no worker gave one up.
THEOREM FloodsComplete == Spec => []AllAnswered
<1>1. ASSUME IInv, NEW f \in Ended, ~cancelled, f \notin expired
      PROVE  total[f] = Requests(f) /\ success[f] + errors[f] = total[f]
  <2>1. f \in Begun /\ f < cur /\ ~Stopped(f)
    BY <1>1 DEF Ended, Stopped, IInv, FloodOK, StageOK
  <2>2. FloodOK(f) /\ NumbersOK(f) /\ Concurrency(f) \in Nat \ {0} /\ Requests(f) \in Nat
    BY <1>1, <2>1, BegunFacts
  <2>3. crew[f].gone = Concurrency(f) /\ Size(f) = Concurrency(f)
    BY <2>1, <2>2 DEF FloodOK, StageOK
  <2>4. work[f] = 0 /\ put[f] = Requests(f) /\ dropped[f] = 0
    BY <2>1, <2>2, <2>3 DEF FloodOK, EndOK, NumbersOK
  <2>5. Held(f) = 0 /\ crew[f].count = 0
    <3>1. Held(f) \in Nat
      BY <2>2 DEF Held, NumbersOK
    <3>2. Held(f) = 0
      BY <2>2, <2>3, <3>1 DEF Size, NumbersOK
    <3>3. /\ crew[f].check \in Nat /\ crew[f].send \in Nat
          /\ crew[f].answer \in Nat /\ crew[f].count \in Nat
      BY <2>2 DEF NumbersOK
    <3> QED
      BY <3>2, <3>3, ZeroSum DEF Held
  <2> QED
    BY <2>2, <2>4, <2>5 DEF FloodOK, ConservedAt, NumbersOK
<1>2. IInv => AllAnswered
  BY <1>1 DEF AllAnswered
<1> QED
  BY Invariance, <1>2, PTL

\* Once the context is done, there are at most as many sends as workers.
THEOREM FewLateSends == Spec => []LateSendsBounded
<1>1. ASSUME IInv, NEW f \in Begun
      PROVE  late[f] <= Concurrency(f)
  <2>1. FloodOK(f) /\ NumbersOK(f) /\ Concurrency(f) \in Nat
    BY <1>1, BegunFacts
  <2> QED
    BY <2>1 DEF FloodOK, LateOK, NumbersOK
<1>2. IInv => LateSendsBounded
  BY <1>1 DEF LateSendsBounded
<1> QED
  BY Invariance, <1>2, PTL

\* No worker uses a connection that is closed, and none stays open after its
\* flood but that of a queue that could not be declared.
THEOREM ConnectionsAreHeld == Spec => []ConnectionHeld
<1>1. ASSUME IInv, NEW f \in Floods
      PROVE  /\ crew[f].take + Held(f) > 0 =>
                  f = cur /\ pc = "wait" /\ (cfg[f].kind = "http" \/ f \in open)
             /\ f \in open => f = cur /\ (pc = "wait" \/ (pc = "done" /\ cfg[f].kind = "rabbitmq"))
  <2>1. FloodOK(f) /\ NumbersOK(f)
    BY <1>1, Numbers DEF IInv
  <2>2. crew[f].take + Held(f) > 0 => f \in Begun
    BY <2>1 DEF FloodOK, StageOK, Size, Held, NumbersOK
  <2>3. crew[f].take + Held(f) > 0 => f = cur /\ pc = "wait"
    BY <1>1, <2>2, WorkingFacts
  <2> QED
    BY <2>1, <2>3 DEF FloodOK, OpenOK
<1>2. IInv => ConnectionHeld
  BY <1>1 DEF ConnectionHeld
<1> QED
  BY Invariance, <1>2, PTL

-----------------------------------------------------------------------------
(* Why a Run ends: somebody can always go on, and every step of a flood    *)
(* leaves less of it.  RunCan, DispatcherCan, WorkerCan and AnswerCan say  *)
(* when RunStep, DispatchStep, WorkerStep and Answer can be taken.         *)

RunCan == pc = "target" \/ (pc = "wait" /\ crew[cur].gone = Concurrency(cur))

DispatcherCan(f) ==
  \/ dispatch[f] \in {"check", "tick"}
  \/ dispatch[f] = "put" /\ (work[f] < Concurrency(f) \/ FloodDone(f))

WorkerCan(f) ==
  \/ \E s \in {"check", "send", "count"} : crew[f][s] > 0
  \/ crew[f].take > 0 /\ (work[f] > 0 \/ dispatch[f] = "ended")

AnswerCan(f) == crew[f].answer > 0

\* Run, the workers and the dispatcher never wait for one another in a circle:
\* a full channel has a worker to take from it, an empty one a dispatcher to
\* put into it or close it, and a dispatcher left behind by its workers may
\* give up (httpflood.go:133-217).
THEOREM NobodyWaitsForEver ==
  Spec => [](/\ pc \in {"target", "wait"} =>
                  RunCan \/ DispatcherCan(cur) \/ WorkerCan(cur) \/ AnswerCan(cur)
             /\ \A f \in Ended : dispatch[f] = "ended" \/ (DispatcherCan(f) /\ FloodDone(f)))
<1>1. ASSUME IInv, pc = "wait"
      PROVE  RunCan \/ DispatcherCan(cur) \/ WorkerCan(cur) \/ AnswerCan(cur)
  <2>1. cur \in 1 .. Len(cfg)
    BY <1>1, ConfigFacts DEF IInv, TypeOK, TurnOK
  <2>2. cur \in Begun
    BY <1>1, <2>1, ConfigFacts DEF IInv, TypeOK, FloodOK, StageOK
  <2>3. FloodOK(cur) /\ NumbersOK(cur) /\ Concurrency(cur) \in Nat \ {0}
    BY <1>1, <2>2, BegunFacts
  <2>4. dispatch[cur] \in {"check", "tick", "put", "ended"}
    BY <1>1, <2>2 DEF Begun, IInv, TypeOK
  <2>5. Size(cur) = Concurrency(cur)
    BY <2>2, <2>3 DEF FloodOK, StageOK
  \* a worker that holds a request can go on; one that has none waits for the channel
  <2>6. CASE crew[cur].gone # Concurrency(cur) /\ ~(\E s \in {"check", "send", "count"} : crew[cur][s] > 0)
                /\ ~AnswerCan(cur)
    <3>1. crew[cur].check = 0 /\ crew[cur].send = 0 /\ crew[cur].count = 0 /\ crew[cur].answer = 0
      BY <2>3, <2>6 DEF AnswerCan, NumbersOK
    <3>2. crew[cur].take > 0
      BY <2>3, <2>5, <2>6, <3>1 DEF Size, Held, NumbersOK
    <3>3. work[cur] > 0 \/ work[cur] < Concurrency(cur)
      BY <2>3 DEF NumbersOK
    <3> QED
      BY <2>4, <3>2, <3>3 DEF DispatcherCan, WorkerCan
  <2> QED
    BY <1>1, <2>6 DEF RunCan, WorkerCan
<1>2. ASSUME IInv, NEW f \in Ended
      PROVE  dispatch[f] = "ended" \/ (DispatcherCan(f) /\ FloodDone(f))
  <2>1. f \in Begun /\ f < cur
    BY <1>2 DEF Ended
  <2>2. FloodOK(f) /\ Concurrency(f) \in Nat \ {0} /\ f \in Floods
    BY <1>2, <2>1, BegunFacts
  <2>3. dispatch[f] \in {"check", "tick", "put", "ended"}
    BY <1>2, <2>1 DEF Begun, IInv, TypeOK
  <2>4. crew[f].gone > 0
    BY <2>1, <2>2 DEF FloodOK, StageOK
  <2>5. dispatch[f] = "ended" \/ FloodDone(f)
    BY <2>1, <2>2, <2>4 DEF FloodOK, EndOK, Stopped, FloodDone
  <2> QED
    BY <2>3, <2>5 DEF DispatcherCan
<1>3. IInv => /\ pc \in {"target", "wait"} =>
                   RunCan \/ DispatcherCan(cur) \/ WorkerCan(cur) \/ AnswerCan(cur)
              /\ \A f \in Ended : dispatch[f] = "ended" \/ (DispatcherCan(f) /\ FloodDone(f))
  BY <1>1, <1>2 DEF RunCan
<1> QED
  BY Invariance, <1>3, PTL

DispatchLeft(f) ==
  CASE dispatch[f] = "check" -> 3
    [] dispatch[f] = "tick"  -> 2
    [] dispatch[f] = "put"   -> 1
    [] OTHER                 -> 0

\* A request still to come counts more than the steps it then goes through.
FloodLeft(f) ==
  9 * (Requests(f) - put[f]) + DispatchLeft(f) + 6 * work[f]
    + crew[f].take + 6 * crew[f].check + 5 * crew[f].send + 4 * crew[f].answer + 3 * crew[f].count

StepOf(f) == DispatchStep(f) \/ WorkerStep(f) \/ Answer(f)

LEMMA FloodLeftNat ==
  ASSUME IInv, NEW f \in Begun
  PROVE  FloodLeft(f) \in Nat
<1>1. FloodOK(f) /\ NumbersOK(f) /\ Requests(f) \in Nat
  BY BegunFacts
<1>2. put[f] <= Requests(f)
  BY <1>1 DEF FloodOK, EndOK
<1>3. DispatchLeft(f) \in Nat
  BY DEF DispatchLeft
<1>4. 9 * (Requests(f) - put[f]) \in Nat /\ 6 * work[f] \in Nat
  BY <1>1, <1>2 DEF NumbersOK
<1>5. /\ crew[f].take \in Nat /\ 6 * crew[f].check \in Nat /\ 5 * crew[f].send \in Nat
      /\ 4 * crew[f].answer \in Nat /\ 3 * crew[f].count \in Nat
  BY <1>1 DEF NumbersOK
<1> QED
  BY <1>3, <1>4, <1>5 DEF FloodLeft

\* What keeps a flood's own state keeps what is left of it.
LEMMA SameLeft ==
  ASSUME NEW f \in Floods, Same(f), cfg' = cfg
  PROVE  FloodLeft(f)' = FloodLeft(f)
BY DEF Same, FloodLeft, DispatchLeft, Requests

LEMMA DispatcherAdvances ==
  ASSUME IInv, NEW f \in Begun, DispatchStep(f)
  PROVE  FloodLeft(f)' < FloodLeft(f)
<1>1. NumbersOK(f) /\ Requests(f) \in Nat /\ f \in Floods /\ Requests(f)' = Requests(f)
  BY BegunFacts DEF DispatchStep, AllPut, NextPut, Tick, Put, GiveUpPut, Requests
<1>2. crew' = crew
  BY DEF DispatchStep, AllPut, NextPut, Tick, Put, GiveUpPut
<1>3. CASE Put(f)
  <2>1. /\ dispatch[f] = "put" /\ dispatch'[f] = "check"
        /\ put'[f] = put[f] + 1 /\ work'[f] = work[f] + 1
    BY <1>1, <1>3 DEF Put, Dispatch, IInv, TypeOK
  <2>2. DispatchLeft(f) = 1 /\ DispatchLeft(f)' = 3
    BY <2>1 DEF DispatchLeft
  <2> QED
    BY <1>1, <1>2, <2>1, <2>2 DEF FloodLeft, NumbersOK
<1>4. CASE ~Put(f)
  <2>1. put' = put /\ work' = work
    BY <1>4 DEF DispatchStep, AllPut, NextPut, Tick, GiveUpPut
  <2>2. \/ dispatch[f] = "check" /\ dispatch'[f] \in {"ended", "tick", "put"}
        \/ dispatch[f] = "tick" /\ dispatch'[f] \in {"ended", "put"}
        \/ dispatch[f] = "put" /\ dispatch'[f] = "ended"
    BY <1>1, <1>4 DEF DispatchStep, AllPut, NextPut, Tick, GiveUpPut, Dispatch, IInv, TypeOK
  <2>3. DispatchLeft(f) \in Nat /\ DispatchLeft(f)' \in Nat /\ DispatchLeft(f)' < DispatchLeft(f)
    BY <2>2 DEF DispatchLeft
  <2> QED
    BY <1>1, <1>2, <2>1, <2>3 DEF FloodLeft, NumbersOK
<1> QED
  BY <1>3, <1>4

\* A step of a worker takes it, or with it a request, to where it counts less.
LEMMA WorkerAdvances ==
  ASSUME IInv, NEW f \in Begun, WorkerStep(f) \/ Answer(f)
  PROVE  FloodLeft(f)' < FloodLeft(f)
<1> DEFINE n == 9 * (Requests(f) - put[f]) + DispatchLeft(f)
           w == work[f]        v == work'[f]
           t == crew[f].take   tx == crew'[f].take
           c == crew[f].check  cx == crew'[f].check
           s == crew[f].send   sx == crew'[f].send
           a == crew[f].answer ax == crew'[f].answer
           k == crew[f].count  kx == crew'[f].count
<1>1. NumbersOK(f) /\ Requests(f) \in Nat /\ f \in Floods /\ crew \in [Floods -> [Stages -> Nat]]
      /\ work \in [Floods -> Nat]
  BY BegunFacts DEF IInv, TypeOK
<1>2. Requests(f)' = Requests(f) /\ put' = put /\ DispatchLeft(f)' = DispatchLeft(f)
  BY DEF WorkerStep, Take, NoMoreWork, GiveUpWork, Prepare, BuildFails, Send, Answer, Count,
         channel, Requests, DispatchLeft
<1>3. n \in Nat
  <2>1. DispatchLeft(f) \in Nat
    BY DEF DispatchLeft
  <2>2. put[f] <= Requests(f)
    BY BegunFacts DEF FloodOK, EndOK
  <2> QED
    BY <1>1, <2>1, <2>2 DEF NumbersOK
<1>4. w \in Nat /\ t \in Nat /\ c \in Nat /\ s \in Nat /\ a \in Nat /\ k \in Nat
  BY <1>1 DEF NumbersOK
<1>5. \/ v = w - 1 /\ tx = t - 1 /\ cx = c + 1 /\ sx = s /\ ax = a /\ kx = k
      \/ v = w /\ tx = t - 1 /\ cx = c /\ sx = s /\ ax = a /\ kx = k
      \/ v = w /\ tx = t /\ cx = c - 1 /\ sx = s /\ ax = a /\ kx = k
      \/ v = w /\ tx = t /\ cx = c - 1 /\ sx = s + 1 /\ ax = a /\ kx = k
      \/ v = w /\ tx = t + 1 /\ cx = c /\ sx = s - 1 /\ ax = a /\ kx = k
      \/ v = w /\ tx = t /\ cx = c /\ sx = s - 1 /\ ax = a + 1 /\ kx = k
      \/ v = w /\ tx = t /\ cx = c /\ sx = s /\ ax = a - 1 /\ kx = k + 1
      \/ v = w /\ tx = t + 1 /\ cx = c /\ sx = s /\ ax = a /\ kx = k - 1
  <2>1. CASE Take(f)
    BY <1>1, <2>1, MoveFacts DEF Take, Stages
  <2>2. CASE NoMoreWork(f)
    <3>1. Move(f, "take", "gone") /\ work' = work
      BY <2>2 DEF NoMoreWork, channel
    <3> QED
      BY <1>1, <3>1, MoveFacts DEF Stages
  <2>3. CASE GiveUpWork(f)
    <3>1. Move(f, "check", "gone") /\ work' = work
      BY <2>3 DEF GiveUpWork, channel
    <3> QED
      BY <1>1, <3>1, MoveFacts DEF Stages
  <2>4. CASE Prepare(f)
    <3>1. Move(f, "check", "send") /\ work' = work
      BY <2>4 DEF Prepare, channel
    <3> QED
      BY <1>1, <3>1, MoveFacts DEF Stages
  <2>5. CASE BuildFails(f)
    <3>1. Move(f, "send", "take") /\ work' = work
      BY <2>5 DEF BuildFails, channel
    <3> QED
      BY <1>1, <3>1, MoveFacts DEF Stages
  <2>6. CASE Send(f)
    <3>1. Move(f, "send", "answer") /\ work' = work
      BY <2>6 DEF Send, channel
    <3> QED
      BY <1>1, <3>1, MoveFacts DEF Stages
  <2>7. CASE Answer(f)
    <3>1. Move(f, "answer", "count") /\ work' = work
      BY <2>7 DEF Answer, channel
    <3> QED
      BY <1>1, <3>1, MoveFacts DEF Stages
  <2>8. CASE \E ok \in BOOLEAN : Count(f, ok)
    <3>1. Move(f, "count", "take") /\ work' = work
      BY <2>8 DEF Count, channel
    <3> QED
      BY <1>1, <3>1, MoveFacts DEF Stages
  <2> QED
    BY <2>1, <2>2, <2>3, <2>4, <2>5, <2>6, <2>7, <2>8 DEF WorkerStep
<1>6. /\ FloodLeft(f) = n + 6 * w + t + 6 * c + 5 * s + 4 * a + 3 * k
      /\ FloodLeft(f)' = n + 6 * v + tx + 6 * cx + 5 * sx + 4 * ax + 3 * kx
  BY <1>2 DEF FloodLeft
<1> HIDE DEF n, w, v, t, tx, c, cx, s, sx, a, ax, k, kx
<1> QED
  BY <1>3, <1>4, <1>5, <1>6

\* A step of one flood is none of another.
LEMMA OthersSame ==
  ASSUME IInv, NEW g \in Begun, StepOf(g), NEW f \in Floods \ {g}
  PROVE  Same(f) /\ cfg' = cfg
<1>1. g \in Floods /\ TypeOK
  BY DEF Begun, IInv
<1>2. cfg' = cfg
  BY DEF StepOf, DispatchStep, AllPut, NextPut, Tick, Put, GiveUpPut,
         WorkerStep, Take, NoMoreWork, GiveUpWork, Prepare, BuildFails, Send, Answer, Count
<1>3. CASE DispatchStep(g)
  BY <1>1, <1>3 DEF DispatchStep, AllPut, NextPut, Tick, Put, GiveUpPut, Dispatch, Same, stats, history, TypeOK
<1>4. CASE WorkerStep(g) \/ Answer(g)
  <2>1. crew'[f] = crew[f]
    BY <1>1, <1>4 DEF Move, WorkerStep, Take, NoMoreWork, GiveUpWork, Prepare, BuildFails, Send, Answer, Count, TypeOK
  <2>2. dispatch'[f] = dispatch[f] /\ put'[f] = put[f] /\ work'[f] = work[f]
    BY <1>1, <1>4 DEF WorkerStep, Take, NoMoreWork, GiveUpWork, Prepare, BuildFails, Send, Answer, Count, TypeOK, channel
  <2>3. total'[f] = total[f] /\ success'[f] = success[f] /\ errors'[f] = errors[f]
        /\ dropped'[f] = dropped[f] /\ late'[f] = late[f]
    BY <1>1, <1>4 DEF WorkerStep, Take, NoMoreWork, GiveUpWork, Prepare, BuildFails, Send, Answer, Count, TypeOK, stats, history
  <2> QED
    BY <1>2, <2>1, <2>2, <2>3 DEF Same
<1> QED
  BY <1>2, <1>3, <1>4 DEF StepOf

\* Every step that belongs to a flood leaves less of it to do, and no other step
\* changes what is left of it: its goroutines end after finitely many steps,
\* whatever the other floods do meanwhile (httpflood.go:133-217).
THEOREM FloodsGetShorter ==
  Spec => /\ [](\A f \in Begun : FloodLeft(f) \in Nat)
          /\ [][\A f \in Begun : IF StepOf(f) THEN FloodLeft(f)' < FloodLeft(f)
                                              ELSE FloodLeft(f)' = FloodLeft(f)]_vars
<1>1. IInv => \A f \in Begun : FloodLeft(f) \in Nat
  BY FloodLeftNat
<1>2. ASSUME IInv, Next, NEW f \in Begun
      PROVE  IF StepOf(f) THEN FloodLeft(f)' < FloodLeft(f) ELSE FloodLeft(f)' = FloodLeft(f)
  <2>1. f \in Floods
    BY DEF Begun
  <2>2. CASE StepOf(f)
    BY <1>2, <2>2, DispatcherAdvances, WorkerAdvances DEF StepOf
  <2>3. CASE ~StepOf(f)
    <3>1. CASE BeginRun \/ Cancel \/ Expire \/ Finished
      <4>1. UNCHANGED <<cfg, dispatch, put, work, crew, total, success, errors, dropped, late>>
        BY <3>1 DEF BeginRun, Cancel, Expire, Finished, channel, stats, history, vars
      <4>2. Same(f) /\ cfg' = cfg
        BY <4>1 DEF Same
      <4> QED
        BY <2>1, <2>3, <4>2, SameLeft
    <3>2. CASE RunStep
      <4>1. CASE StartFlood
        <5>1. f # cur
          BY <1>2, <2>1, <4>1 DEF StartFlood, IInv, TypeOK, FloodOK, StageOK
        <5>2. UNCHANGED <<cfg, put, work, total, success, errors, dropped, late>>
          BY <4>1 DEF StartFlood, stats, history
        <5>3. crew'[f] = crew[f] /\ dispatch'[f] = dispatch[f]
          BY <1>2, <2>1, <4>1, <5>1 DEF StartFlood, IInv, TypeOK
        <5>4. Same(f) /\ cfg' = cfg
          BY <5>2, <5>3 DEF Same
        <5> QED
          BY <2>1, <2>3, <5>4, SameLeft
      <4>2. CASE ~StartFlood
        <5>1. UNCHANGED <<cfg, dispatch, put, work, crew, total, success, errors, dropped, late>>
          BY <3>2, <4>2 DEF RunStep, ConnectFails, EndFlood, EndRun, channel, stats, history
        <5>2. Same(f) /\ cfg' = cfg
          BY <5>1 DEF Same
        <5> QED
          BY <2>1, <2>3, <5>2, SameLeft
      <4> QED
        BY <4>1, <4>2
    <3>3. ASSUME NEW g \in Begun, StepOf(g)
          PROVE  FloodLeft(f)' = FloodLeft(f)
      BY <1>2, <2>1, <2>3, <3>3, OthersSame, SameLeft
    <3> QED
      BY <1>2, <2>3, <3>1, <3>2, <3>3 DEF Next, StepOf
  <2> QED
    BY <2>2, <2>3
<1>3. IInv /\ [Next]_vars =>
        [\A f \in Begun : IF StepOf(f) THEN FloodLeft(f)' < FloodLeft(f)
                                       ELSE FloodLeft(f)' = FloodLeft(f)]_vars
  BY <1>2
<1> QED
  BY Invariance, <1>1, <1>3, PTL DEF Spec
=============================================================================
