----------------------------- MODULE MCNetwork -----------------------------
(***************************************************************************)
(* Values of Network's constants for TLC.                                  *)
(***************************************************************************)
EXTENDS Network

Conf(actions, duration, permitted) ==
  [actions |-> actions, duration |-> duration, permitted |-> permitted]

\* a qdisc and two rules, two qdiscs of which the second fails, an action the
\* code does not know; with and without a duration; denied
Several ==
  {Conf(as, d, TRUE) : as \in {<<"latency", "dns_failure">>,
                               <<"unknown", "corrupt", "bandwidth_limit">>,
                               <<"dns_failure", "packet_loss">>},
                       d \in BOOLEAN}
  \cup {Conf(<<"latency">>, TRUE, FALSE)}

\* one qdisc for some time
Latency == {Conf(<<"latency">>, TRUE, TRUE)}
=============================================================================
