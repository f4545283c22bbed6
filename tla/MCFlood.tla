------------------------------ MODULE MCFlood ------------------------------
(***************************************************************************)
(* Values of Flood's constants for TLC.                                    *)
(***************************************************************************)
EXTENDS Flood

T(kind, concurrency, requests, duration, rate) ==
  [kind |-> kind, concurrency |-> concurrency, requests |-> requests,
   duration |-> duration, rate |-> rate]

\* two workers and more requests than channel and workers hold; one request
\* in a channel of two; the defaults; targets after one another
Lists ==
  {<<T(k, 2, 5, d, FALSE)>> : k \in {"http", "grpc"}, d \in BOOLEAN}
  \cup {<<T("rabbitmq", 2, 3, TRUE, TRUE), T("http", 0, 2, TRUE, FALSE)>>,
        <<T("nats", 2, 1, FALSE, FALSE), T("kafka", 1, 0, FALSE, TRUE), T("grpc", 1, 1, FALSE, FALSE)>>}
=============================================================================
