------------------------------- MODULE Ledger -------------------------------
(***************************************************************************)
(* The callback main.go registers with the engine and what it writes to:   *)
(* the counters of pkg/metrics, under a mutex, the entries of the builder  *)
(* of pkg/report, without one, and the notifications of pkg/notify, sent   *)
(* by goroutines that nobody waits for.  The goroutines of a parallel      *)
(* scenario call it side by side; a slot is the place of one of them.      *)
(* Of an entry nothing but its being there matters, so entries is a length.*)
(***************************************************************************)
EXTENDS Safety

CONSTANT Slots  \* the places a Run can be in progress at

VARIABLES
  cfg,        \* the configuration
  stage,      \* what each slot's call of the callback does next; "free": none
  verdict,    \* the Success of the slot's result
  counters,   \* Collector.counters
  loaded,     \* the length of entries a slot has loaded for its append
  entries,    \* the length of Builder.entries
  outbox,     \* kinds of notifications a goroutine is sending
  heard,      \* kinds of notifications that arrived
  delivered   \* history: results the callback was called with

book    == <<counters, loaded, entries, delivered>>
notices == <<outbox, heard>>
ledger  == <<stage, verdict, book, notices>>

Stages == {"free", "total", "verdict", "load", "store", "send"}
Events == {"starting", "done", "completed"}

Idle(s) == stage[s] = "free"

LedgerInit ==
  /\ stage = [s \in Slots |-> "free"]
  /\ verdict = [s \in Slots |-> FALSE]
  /\ counters = [total |-> 0, success |-> 0, failed |-> 0]
  /\ loaded = [s \in Slots |-> 0]
  /\ entries = 0
  /\ outbox = {} /\ heard = {}
  /\ delivered = 0

\* a result of the step in slot s
Deliver(s, ok) ==
  /\ Idle(s)
  /\ stage' = [stage EXCEPT ![s] = "total"]
  /\ verdict' = [verdict EXCEPT ![s] = ok]
  /\ delivered' = delivered + 1
  /\ UNCHANGED <<counters, loaded, entries, notices>>

Bump(k) == counters' = [counters EXCEPT ![k] = IF cfg.metrics THEN @ + 1 ELSE @]

\* IncCounter, twice; the gauge of the duration is overwritten each time and
\* left out
IncTotal(s) ==
  /\ stage[s] = "total" /\ stage' = [stage EXCEPT ![s] = "verdict"]
  /\ Bump("total")
  /\ UNCHANGED <<verdict, loaded, entries, delivered, notices>>

\* mistake: the failures are counted among the successes
IncVerdictAlike(s) ==
  /\ stage[s] = "verdict" /\ stage' = [stage EXCEPT ![s] = "load"]
  /\ Bump(IF verdict[s] THEN "success" ELSE "total")
  /\ UNCHANGED <<verdict, loaded, entries, delivered, notices>>

IncVerdict(s) ==
  /\ stage[s] = "verdict" /\ stage' = [stage EXCEPT ![s] = "load"]
  /\ Bump(IF verdict[s] THEN "success" ELSE "failed")
  /\ UNCHANGED <<verdict, loaded, entries, delivered, notices>>

\* b.entries = append(b.entries, ...) in RecordExperiment
LoadEntries(s) ==
  /\ stage[s] = "load" /\ stage' = [stage EXCEPT ![s] = "store"]
  /\ loaded' = [loaded EXCEPT ![s] = entries]
  /\ UNCHANGED <<verdict, counters, entries, delivered, notices>>

StoreEntries(s) ==
  /\ stage[s] = "store" /\ stage' = [stage EXCEPT ![s] = "send"]
  /\ entries' = IF cfg.report THEN loaded[s] + 1 ELSE entries
  /\ loaded' = [loaded EXCEPT ![s] = 0]
  /\ UNCHANGED <<verdict, counters, delivered, notices>>

\* Send starts a goroutine for each webhook and returns
Send(event) ==
  /\ outbox' = IF cfg.notify THEN outbox \cup {event} ELSE outbox
  /\ heard' = heard

SendDone(s) ==
  /\ stage[s] = "send" /\ stage' = [stage EXCEPT ![s] = "free"]
  /\ Send("done")
  /\ UNCHANGED <<verdict, book>>

\* send, in its goroutine: the request arrives or fails
Sent(event, ok) ==
  /\ event \in outbox
  /\ outbox' = outbox \ {event}
  /\ heard' = IF ok THEN heard \cup {event} ELSE heard
  /\ UNCHANGED <<stage, verdict, book>>

Callback(s) == IncTotal(s) \/ IncVerdict(s) \/ LoadEntries(s) \/ StoreEntries(s) \/ SendDone(s)
=============================================================================
