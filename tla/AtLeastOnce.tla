---------------------------- MODULE AtLeastOnce ----------------------------
(***************************************************************************)
(* What the task queue of rabbitmq.rs promises to the services on both     *)
(* sides of it, whatever its connections and processes go through:         *)
(*   - a publish that returned Ok is kept until some handler has settled   *)
(*     it (one that did not return Ok may be lost or kept);                *)
(*   - a task leaves the queue only in a way some handler decided on, as   *)
(*     done (Ack) or as given up (Nack without requeue), and only once.    *)
(* It does not promise that a task is handled once, or in order.           *)
(***************************************************************************)
CONSTANT Tasks

VARIABLES
  status,    \* status[t]: where the task stands
  promised,  \* tasks whose publish returned Ok
  verdicts   \* verdicts[t]: final decisions handlers made about t

avars == <<status, promised, verdicts>>

Verdicts == {"ack", "drop"}
Statuses == {"none", "queued", "ack", "drop", "lost"}

AbstractTypeOK ==
  /\ status \in [Tasks -> Statuses]
  /\ promised \subseteq Tasks
  /\ verdicts \in [Tasks -> SUBSET Verdicts]

AbstractInit ==
  /\ status = [t \in Tasks |-> "none"]
  /\ promised = {}
  /\ verdicts = [t \in Tasks |-> {}]

Accept(t) ==
  /\ status[t] = "none"
  /\ status' = [status EXCEPT ![t] = "queued"]
  /\ UNCHANGED <<promised, verdicts>>

Promise(t) ==
  /\ status[t] \notin {"none", "lost"}
  /\ promised' = promised \cup {t}
  /\ UNCHANGED <<status, verdicts>>

Decide(t, v) ==
  /\ status[t] # "none"
  /\ verdicts' = [verdicts EXCEPT ![t] = @ \cup {v}]
  /\ UNCHANGED <<status, promised>>

Settle(t, v) ==
  /\ status[t] = "queued" /\ v \in verdicts[t]
  /\ status' = [status EXCEPT ![t] = v]
  /\ UNCHANGED <<promised, verdicts>>

\* Only tasks that were not promised can be lost.
Lose(S) ==
  /\ \A t \in S : status[t] = "queued" /\ t \notin promised
  /\ status' = [t \in Tasks |-> IF t \in S THEN "lost" ELSE status[t]]
  /\ UNCHANGED <<promised, verdicts>>

AbstractNext ==
  \/ \E t \in Tasks : Accept(t) \/ Promise(t)
  \/ \E t \in Tasks, v \in Verdicts : Decide(t, v) \/ Settle(t, v)
  \/ \E S \in SUBSET Tasks : Lose(S)

AbstractSpec == AbstractInit /\ [][AbstractNext]_avars

=============================================================================
