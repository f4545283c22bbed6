------------------------------- MODULE Flood -------------------------------
(***************************************************************************)
(* The floods of pkg/httpflood, pkg/grpcflood and pkg/mqflood, which have  *)
(* one shape: for each target in turn, Run connects, starts a dispatcher   *)
(* that puts the requests into a channel and a number of workers that take *)
(* them out, and waits for the workers only.  What the three kinds differ  *)
(* in, the connection and what a request waits for, is a guard here.       *)
(*                                                                         *)
(* The workers of a flood are alike and a request has no content, so the   *)
(* state keeps how many workers are at each stage and how many requests    *)
(* are in the channel.  A flood's own state outlives its turn: a           *)
(* dispatcher may still run when Run has gone on to the next target.       *)
(***************************************************************************)
EXTENDS Naturals, Sequences

CONSTANTS
  Configs,          \* the lists of targets the experiment may be created with
  MaxTargets,       \* bound: targets in a list
  DefaultRequests   \* the number of requests when none is set (100)

Kinds == {"http", "grpc", "rabbitmq", "kafka", "nats"}

\* duration, rate: one above zero is set
Target == [kind : Kinds, concurrency : Nat, requests : Nat, duration : BOOLEAN, rate : BOOLEAN]

ASSUME FloodAssumption ==
  /\ MaxTargets \in Nat /\ DefaultRequests \in Nat
  /\ Configs \subseteq {ts \in Seq(Target) : Len(ts) <= MaxTargets}

Floods == 1 .. MaxTargets

\* where a worker is: waiting for work, about to look at the context, past
\* it, waiting for the answer, about to count it, returned
Stages == {"take", "check", "send", "answer", "count", "gone"}

VARIABLES
  cfg,        \* the targets
  pc,         \* Run: "idle", "target" (head of its loop), "wait" (wg.Wait), "done"
  cur,        \* the target of this turn
  cancelled,  \* the context of Run is done
  expired,    \* the floods whose duration is over
  dispatch,   \* dispatchers: "none", "check" (head of the loop), "tick",
              \* "put", "ended" (the channel is closed)
  put,        \* requests put into the channel
  work,       \* requests in the channel
  crew,       \* how many workers are at each stage
  total, success, errors,  \* Stats
  open,       \* the floods whose connection is open
  dropped,    \* history: requests taken and given up at the context
  late        \* history: requests sent when the context was done already

run     == <<pc, cur>>
channel == <<dispatch, put, work>>
stats   == <<total, success, errors>>
history == <<dropped, late>>
vars    == <<cfg, run, cancelled, expired, channel, crew, stats, open, history>>

Concurrency(f) == IF cfg[f].concurrency = 0 THEN 1 ELSE cfg[f].concurrency
Requests(f)    == IF cfg[f].requests = 0 THEN DefaultRequests ELSE cfg[f].requests

Begun == {f \in Floods : dispatch[f] # "none"}
Ended == {f \in Begun : f < cur}

\* mistake: floodCtx is derived from no context
FloodDoneDetached(f) == f \in expired \/ (cfg[f].duration /\ f \in Ended)

\* floodCtx is the caller's context, or, if there is a duration, one derived
\* from it that is cancelled when flood returns
FloodDone(f) == cancelled \/ f \in expired \/ (cfg[f].duration /\ f \in Ended)

Init ==
  /\ cfg \in Configs
  /\ pc = "idle" /\ cur = 1
  /\ cancelled = FALSE /\ expired = {}
  /\ dispatch = [f \in Floods |-> "none"]
  /\ put = [f \in Floods |-> 0] /\ work = [f \in Floods |-> 0]
  /\ crew = [f \in Floods |-> [s \in Stages |-> 0]]
  /\ total = [f \in Floods |-> 0] /\ success = [f \in Floods |-> 0] /\ errors = [f \in Floods |-> 0]
  /\ open = {}
  /\ dropped = [f \in Floods |-> 0] /\ late = [f \in Floods |-> 0]

-----------------------------------------------------------------------------
(* Run. *)

BeginRun ==
  /\ pc = "idle"
  /\ pc' = "target"
  /\ UNCHANGED <<cfg, cur, cancelled, expired, channel, crew, stats, open, history>>

\* a client or a producer that cannot be made ends the Run; a RabbitMQ queue
\* that cannot be declared leaves the connection open
ConnectFails(left) ==
  /\ pc = "target" /\ cur <= Len(cfg)
  /\ cfg[cur].kind # "http"
  /\ left => cfg[cur].kind = "rabbitmq"
  /\ open' = IF left THEN open \cup {cur} ELSE open
  /\ pc' = "done"
  /\ UNCHANGED <<cfg, cur, cancelled, expired, channel, crew, stats, history>>

\* the connection is made and all goroutines are started
StartFlood ==
  /\ pc = "target" /\ cur <= Len(cfg)
  /\ open' = IF cfg[cur].kind = "http" THEN open ELSE open \cup {cur}
  /\ crew' = [crew EXCEPT ![cur].take = Concurrency(cur)]
  /\ dispatch' = [dispatch EXCEPT ![cur] = "check"]
  /\ pc' = "wait"
  /\ UNCHANGED <<cfg, cur, cancelled, expired, put, work, stats, history>>

\* mistake: Run goes on when the context is done, whatever the workers do
EndFloodEarly ==
  /\ pc = "wait"
  /\ crew[cur].gone = Concurrency(cur) \/ FloodDone(cur)
  /\ open' = open \ {cur}
  /\ pc' = "target" /\ cur' = cur + 1
  /\ UNCHANGED <<cfg, cancelled, expired, channel, crew, stats, history>>

\* all workers have returned: the context is cancelled, the connection closed
EndFlood ==
  /\ pc = "wait"
  /\ crew[cur].gone = Concurrency(cur)
  /\ open' = open \ {cur}
  /\ pc' = "target" /\ cur' = cur + 1
  /\ UNCHANGED <<cfg, cancelled, expired, channel, crew, stats, history>>

EndRun ==
  /\ pc = "target" /\ cur > Len(cfg)
  /\ pc' = "done"
  /\ UNCHANGED <<cfg, cur, cancelled, expired, channel, crew, stats, open, history>>

-----------------------------------------------------------------------------
(* The dispatcher of a flood. *)

Dispatch(f, from, to) == dispatch[f] = from /\ dispatch' = [dispatch EXCEPT ![f] = to]

\* after the last request the channel is closed
AllPut(f) ==
  /\ Dispatch(f, "check", "ended")
  /\ put[f] = Requests(f)
  /\ UNCHANGED <<cfg, run, cancelled, expired, put, work, crew, stats, open, history>>

NextPut(f) ==
  /\ put[f] < Requests(f) /\ ~FloodDone(f)
  /\ Dispatch(f, "check", IF cfg[f].rate THEN "tick" ELSE "put")
  /\ UNCHANGED <<cfg, run, cancelled, expired, put, work, crew, stats, open, history>>

Tick(f) ==
  /\ Dispatch(f, "tick", "put")
  /\ UNCHANGED <<cfg, run, cancelled, expired, put, work, crew, stats, open, history>>

\* the channel holds as many requests as there are workers
Put(f) ==
  /\ Dispatch(f, "put", "check")
  /\ work[f] < Concurrency(f)
  /\ put' = [put EXCEPT ![f] = @ + 1]
  /\ work' = [work EXCEPT ![f] = @ + 1]
  /\ UNCHANGED <<cfg, run, cancelled, expired, crew, stats, open, history>>

\* mistake: the request is put without a look at the context
GiveUpPutHeadOnly(f) ==
  /\ FloodDone(f)
  /\ \E from \in {"check", "tick"} : Dispatch(f, from, "ended")
  /\ UNCHANGED <<cfg, run, cancelled, expired, put, work, crew, stats, open, history>>

\* the context is done: the channel is closed early
GiveUpPut(f) ==
  /\ FloodDone(f)
  /\ \E from \in {"check", "tick", "put"} : Dispatch(f, from, "ended")
  /\ UNCHANGED <<cfg, run, cancelled, expired, put, work, crew, stats, open, history>>

-----------------------------------------------------------------------------
(* The workers of a flood. *)

Move(f, from, to) ==
  /\ crew[f][from] > 0
  /\ crew' = [crew EXCEPT ![f][from] = @ - 1, ![f][to] = @ + 1]

Take(f) ==
  /\ Move(f, "take", "check")
  /\ work[f] > 0
  /\ work' = [work EXCEPT ![f] = @ - 1]
  /\ UNCHANGED <<cfg, run, cancelled, expired, dispatch, put, stats, open, history>>

\* mistake: an empty channel is taken for a closed one
NoMoreWorkSoon(f) ==
  /\ Move(f, "take", "gone")
  /\ work[f] = 0
  /\ UNCHANGED <<cfg, run, cancelled, expired, channel, stats, open, history>>

\* the channel is closed and empty
NoMoreWork(f) ==
  /\ Move(f, "take", "gone")
  /\ work[f] = 0 /\ dispatch[f] = "ended"
  /\ UNCHANGED <<cfg, run, cancelled, expired, channel, stats, open, history>>

\* the worker returns with a request it does not send
GiveUpWork(f) ==
  /\ Move(f, "check", "gone")
  /\ FloodDone(f)
  /\ dropped' = [dropped EXCEPT ![f] = @ + 1]
  /\ UNCHANGED <<cfg, run, cancelled, expired, channel, stats, open, late>>

\* mistake: the worker does not look at the context
PrepareAlways(f) ==
  /\ Move(f, "check", "send")
  /\ UNCHANGED <<cfg, run, cancelled, expired, channel, stats, open, history>>

Prepare(f) ==
  /\ Move(f, "check", "send")
  /\ ~FloodDone(f)
  /\ UNCHANGED <<cfg, run, cancelled, expired, channel, stats, open, history>>

\* mistake: it is not counted
BuildFailsUncounted(f) ==
  /\ Move(f, "send", "take")
  /\ cfg[f].kind = "http"
  /\ UNCHANGED <<cfg, run, cancelled, expired, channel, stats, open, history>>

\* an HTTP request that cannot be built is counted at once
BuildFails(f) ==
  /\ Move(f, "send", "take")
  /\ cfg[f].kind = "http"
  /\ total' = [total EXCEPT ![f] = @ + 1] /\ errors' = [errors EXCEPT ![f] = @ + 1]
  /\ UNCHANGED <<cfg, run, cancelled, expired, channel, success, open, history>>

Send(f) ==
  /\ Move(f, "send", "answer")
  /\ late' = IF FloodDone(f) THEN [late EXCEPT ![f] = @ + 1] ELSE late
  /\ UNCHANGED <<cfg, run, cancelled, expired, channel, stats, open, dropped>>

\* an answer, an error, a timeout or the end of the context
Answer(f) ==
  /\ Move(f, "answer", "count")
  /\ total' = [total EXCEPT ![f] = @ + 1]
  /\ UNCHANGED <<cfg, run, cancelled, expired, channel, success, errors, open, history>>

Count(f, ok) ==
  /\ Move(f, "count", "take")
  /\ success' = IF ok THEN [success EXCEPT ![f] = @ + 1] ELSE success
  /\ errors'  = IF ok THEN errors ELSE [errors EXCEPT ![f] = @ + 1]
  /\ UNCHANGED <<cfg, run, cancelled, expired, channel, total, open, history>>

-----------------------------------------------------------------------------
(* The contexts. *)

Cancel ==
  /\ ~cancelled /\ cancelled' = TRUE
  /\ UNCHANGED <<cfg, run, expired, channel, crew, stats, open, history>>

Expire ==
  /\ pc = "wait" /\ cfg[cur].duration /\ cur \notin expired
  /\ expired' = expired \cup {cur}
  /\ UNCHANGED <<cfg, run, cancelled, channel, crew, stats, open, history>>

-----------------------------------------------------------------------------
RunStep == (\E left \in BOOLEAN : ConnectFails(left)) \/ StartFlood \/ EndFlood \/ EndRun

DispatchStep(f) == AllPut(f) \/ NextPut(f) \/ Tick(f) \/ Put(f) \/ GiveUpPut(f)

WorkerStep(f) ==
  \/ Take(f) \/ NoMoreWork(f) \/ GiveUpWork(f) \/ Prepare(f) \/ BuildFails(f) \/ Send(f)
  \/ \E ok \in BOOLEAN : Count(f, ok)

Finished == pc = "done" /\ UNCHANGED vars

Next ==
  \/ BeginRun \/ RunStep \/ Cancel \/ Expire \/ Finished
  \/ \E f \in Begun : DispatchStep(f) \/ WorkerStep(f) \/ Answer(f)

\* The answers there is a limit for: an HTTP client has a timeout, a gRPC call
\* ends with its context.  The client of a message queue is given no timeout,
\* and no context, or one that it does not look at.
Answered(f) == (cfg[f].kind = "http" \/ (cfg[f].kind = "grpc" /\ FloodDone(f))) /\ Answer(f)

\* the message queues, whose producers connect and close without a limit too
Brokered(f) == f \in DOMAIN cfg /\ cfg[f].kind \in {"rabbitmq", "kafka", "nats"}

\* Every goroutine runs on unless it waits for what has no limit, ticks come
\* and a duration is over some time; the same of each flood.
Fairness ==
  /\ WF_vars(~Brokered(cur) /\ RunStep) /\ WF_vars(Expire)
  /\ \A f \in Floods :
       WF_vars(f \in Begun /\ DispatchStep(f)) /\ WF_vars(f \in Begun /\ WorkerStep(f))
       /\ WF_vars(f \in Begun /\ Answered(f))

Spec == Init /\ [][Next]_vars /\ Fairness
-----------------------------------------------------------------------------
(* Properties. *)

TypeOK ==
  /\ cfg \in Configs
  /\ pc \in {"idle", "target", "wait", "done"} /\ cur \in Nat \ {0}
  /\ cancelled \in BOOLEAN /\ expired \subseteq Floods
  /\ dispatch \in [Floods -> {"none", "check", "tick", "put", "ended"}]
  /\ put \in [Floods -> Nat] /\ work \in [Floods -> Nat]
  /\ crew \in [Floods -> [Stages -> Nat]]
  /\ total \in [Floods -> Nat] /\ success \in [Floods -> Nat] /\ errors \in [Floods -> Nat]
  /\ open \subseteq Floods
  /\ dropped \in [Floods -> Nat] /\ late \in [Floods -> Nat]

\* the requests workers hold
Held(f) == crew[f].check + crew[f].send + crew[f].answer + crew[f].count

\* Every request put into the channel is still there, in the hands of one
\* worker, given up or counted, once (httpflood.go:133-189, 193-216).
RequestsConserved ==
  \A f \in Floods :
    /\ put[f] = work[f] + Held(f) + dropped[f] + success[f] + errors[f]
    /\ total[f] = crew[f].count + success[f] + errors[f]

\* A flood that ended without its context ever being done has counted an
\* answer for every request, each as a success or an error
\* (httpflood.go:153-187, 195, 218).
AllAnswered ==
  \A f \in Ended :
    ~cancelled /\ f \notin expired => total[f] = Requests(f) /\ success[f] + errors[f] = total[f]

\* "all experiments respect context cancellation and duration caps"
\* (README.md:340): once the context is done, each worker sends one more
\* request at most, whatever is left in the channel (httpflood.go:134-138).
LateSendsBounded == \A f \in Begun : late[f] <= Concurrency(f)

\* Workers use a connection only while it is open, and one is open only while
\* its flood goes on: neither an answer nor a worker comes after the close
\* (mqflood.go:78-83, 222, grpcflood.go:102, 193).  The exception is the queue
\* that could not be declared (amqp_producer.go:55).
ConnectionHeld ==
  \A f \in Floods :
    /\ crew[f].take + Held(f) > 0 =>
         f = cur /\ pc = "wait" /\ (cfg[f].kind = "http" \/ f \in open)
    /\ f \in open => f = cur /\ (pc = "wait" \/ (pc = "done" /\ cfg[f].kind = "rabbitmq"))

\* flood f is in a call that the other side may let wait for ever: any call of
\* a producer, and one of a gRPC client without a duration, which ends when
\* the context does (amqp_producer.go:34-50, 70, grpcflood.go:106-111, 154)
LeftToPeer(f) ==
  \/ /\ crew[f].answer > 0
     /\ Brokered(f) \/ (cfg[f].kind = "grpc" /\ ~cfg[f].duration /\ ~cancelled)
  \/ /\ Brokered(f) /\ f = cur
     /\ pc = "target" \/ (pc = "wait" /\ crew[f].gone = Concurrency(f))

\* Every call of Run ends, unless a server or a broker lets it wait for ever in
\* a call that has no limit: Run waits for its workers, each of which finds the
\* channel closed and empty or the context done (httpflood.go:218,
\* grpcflood.go:193, mqflood.go:222).
RunEnds ==
  (\A f \in Floods : []<>~LeftToPeer(f)) => (pc \in {"target", "wait"} ~> pc = "done")

\* The dispatcher, for which nobody waits, ends once its flood has: it is
\* never left blocked on a channel nobody reads (httpflood.go:193-217).
DispatchersEnd == \A f \in Floods : f \in Ended ~> dispatch[f] = "ended"
=============================================================================
