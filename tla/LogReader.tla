----------------------------- MODULE LogReader -----------------------------
(***************************************************************************)
(* What the replicas of a service together promise to its gates while no   *)
(* partition moves between live replicas: to be one reader of the log.     *)
(*   - Requests are started in the order of the log, none is passed over   *)
(*     and none is started twice, at most Slots are handled at a time.     *)
(*   - A request that was started is settled exactly once, in any order.   *)
(*   - The stored position trails the reader and grows by one; the reader  *)
(*     falls back to it when a replica dies, with whatever it handled.     *)
(* It does not promise that a request that was started is settled: one     *)
(* that was being handled at a fall-back and lies before the stored        *)
(* position is gone.                                                       *)
(***************************************************************************)
EXTENDS Integers, FiniteSets

CONSTANT Slots  \* requests handled at a time

VARIABLES
  log,      \* requests in the log
  pos,      \* the last request started
  stored,   \* where the reader begins after a fall-back
  busy,     \* requests being handled
  settled   \* requests answered, skipped or dropped

rvars == <<log, pos, stored, busy, settled>>

ReaderInit ==
  /\ log = 0 /\ pos = 0 /\ stored = 0
  /\ busy = {} /\ settled = {}

Arrive ==
  /\ log' = log + 1
  /\ UNCHANGED <<pos, stored, busy, settled>>

\* The next request is skipped or dropped at once, or takes a slot.
Start ==
  /\ pos < log /\ Cardinality(busy) < Slots
  /\ pos' = pos + 1
  /\ \/ settled' = settled \cup {pos + 1} /\ UNCHANGED busy
     \/ busy' = busy \cup {pos + 1} /\ UNCHANGED settled
  /\ UNCHANGED <<log, stored>>

End(m) ==
  /\ m \in busy
  /\ busy' = busy \ {m}
  /\ settled' = settled \cup {m}
  /\ UNCHANGED <<log, pos, stored>>

Store ==
  /\ stored < pos
  /\ stored' = stored + 1
  /\ UNCHANGED <<log, pos, busy, settled>>

FallBack ==
  /\ pos' = stored
  /\ busy' = {}
  /\ UNCHANGED <<log, stored, settled>>

ReaderNext ==
  \/ Arrive \/ Start \/ Store \/ FallBack
  \/ \E m \in busy : End(m)

ReaderSpec == ReaderInit /\ [][ReaderNext]_rvars

=============================================================================
