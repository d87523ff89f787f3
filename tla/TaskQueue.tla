----------------------------- MODULE TaskQueue -----------------------------
(***************************************************************************)
(* The task queue of rabbitmq.rs: callers of RabbitMqPublisher::publish,   *)
(* the broker's queue, and the workers that run run_task_consumer.         *)
(*                                                                         *)
(* A worker takes deliveries from its consumer stream while fewer than     *)
(* Slots futures are alive, runs the handler, and then acks or nacks.  The *)
(* acknowledgement travels to the broker (acks) while the future awaits    *)
(* the return of the call (awaiting); either may come first, so the broker *)
(* can push the next delivery before the slot is free.                     *)
(* A connection that breaks is recovered under the running consumer        *)
(* (enable_auto_recover): the broker requeues what the worker held, while  *)
(* the handlers of those deliveries keep running and keep their slots, and *)
(* their acks fail because the delivery tags are those of the old channel. *)
(*                                                                         *)
(* Tasks are numbered in the order the queue accepts them.  A definition   *)
(* named X_.. is a faulty form of X that the checks put in its place.      *)
(***************************************************************************)
EXTENDS Integers, FiniteSets, Sequences

CONSTANTS
  Workers,      \* processes that run run_task_consumer on the queue
  MaxTasks,     \* bound: tasks published
  Prefetch,     \* QueueConfig::prefetch_count; 0 is "no limit" to the broker
  CutOff,       \* tasks whose publisher may lose its connection
  Undecodable,  \* tasks whose payload does not deserialize
  Slow,         \* tasks whose handler may never return
  Retrying,     \* tasks whose handler may ask for a redelivery
  MaxBreaks, MaxCrashes, MaxRestarts  \* bounds: connections, workers, broker

Tasks == 1..MaxTasks
Places == {"unsent", "ready", "ack", "drop", "lost"}

ASSUME ConstantsAssumption ==
  /\ IsFiniteSet(Workers) /\ Workers \cap Places = {}
  /\ MaxTasks \in Nat /\ Prefetch \in Nat
  /\ CutOff \subseteq Tasks
  /\ Undecodable \subseteq Tasks /\ Slow \subseteq Tasks /\ Retrying \subseteq Tasks
  /\ MaxBreaks \in Nat /\ MaxCrashes \in Nat /\ MaxRestarts \in Nat

VARIABLES
  call,      \* call[t]: where the call publish(t) stands
  wire,      \* tasks on their way to the broker
  place,     \* place[t]: where the broker has t, the worker it is unacked at
  saved,     \* tasks the broker has written to disk
  up,        \* up[w]: w's process is running
  conn,      \* conn[w]: how many times w's connection was recovered
  inbox,     \* inbox[w]: deliveries in w's stream, not taken yet
  runs,      \* runs[w]: deliveries whose handler runs
  awaiting,  \* awaiting[w]: futures that await the return of ack or nack
  acks,      \* acks[w]: acknowledgements on their way over w's connection
  verdicts,  \* verdicts[t]: final decisions made about t       (history)
  seen,      \* tasks some handler was started on or refused    (history)
  breaks, crashes, restarts

broker == <<place, saved>>
acking == <<awaiting, acks>>
worker == <<up, conn, inbox, runs, acking>>
history == <<verdicts, seen>>
failures == <<breaks, crashes, restarts>>
vars == <<call, wire, broker, worker, history, failures>>

Calls == {"idle", "sent", "ok", "err"}
Verdicts == {"ack", "drop"}
Deliveries == [task : Tasks, conn : 0..(MaxBreaks + MaxRestarts)]
Acks == [task : Tasks, todo : {"requeue"} \cup Verdicts]

TypeOK ==
  /\ call \in [Tasks -> Calls] /\ wire \subseteq Tasks
  /\ place \in [Tasks -> Places \cup Workers] /\ saved \subseteq Tasks
  /\ up \in [Workers -> BOOLEAN]
  /\ conn \in [Workers -> 0..(breaks + restarts)]
  /\ inbox \in [Workers -> Seq(Deliveries)]
  /\ runs \in [Workers -> SUBSET Deliveries]
  /\ awaiting \in [Workers -> Nat] /\ acks \in [Workers -> SUBSET Acks]
  /\ verdicts \in [Tasks -> SUBSET Verdicts] /\ seen \subseteq Tasks
  /\ breaks \in 0..MaxBreaks /\ crashes \in 0..MaxCrashes
  /\ restarts \in 0..MaxRestarts

Init ==
  /\ call = [t \in Tasks |-> "idle"] /\ wire = {}
  /\ place = [t \in Tasks |-> "unsent"] /\ saved = {}
  /\ up = [w \in Workers |-> TRUE]
  /\ conn = [w \in Workers |-> 0]
  /\ inbox = [w \in Workers |-> <<>>] /\ runs = [w \in Workers |-> {}]
  /\ awaiting = [w \in Workers |-> 0] /\ acks = [w \in Workers |-> {}]
  /\ verdicts = [t \in Tasks |-> {}] /\ seen = {}
  /\ breaks = 0 /\ crashes = 0 /\ restarts = 0

-----------------------------------------------------------------------------
(* RabbitMqPublisher::publish and the broker's side of it.                 *)

\* The channel is in confirm mode: an ack once the task is on disk (the queue
\* is durable, the message persistent), a nack if the broker refused it.
Confirmed(t) == t \in saved
Refused(t) == t \notin wire /\ place[t] = "unsent"

\* The payload may fail to serialize, the channel may be closed.
Publish(t) ==
  /\ call[t] = "idle"
  /\ \/ call' = [call EXCEPT ![t] = "sent"] /\ wire' = wire \cup {t}
     \/ call' = [call EXCEPT ![t] = "err"] /\ UNCHANGED wire
  /\ UNCHANGED <<broker, worker, history, failures>>

BrokerAccepts(t) ==
  /\ t \in wire /\ \A u \in Tasks : place[u] # "unsent" => u < t
  /\ wire' = wire \ {t}
  /\ place' = [place EXCEPT ![t] = "ready"]
  /\ UNCHANGED <<call, saved, worker, history, failures>>

BrokerRefuses(t) ==
  /\ t \in wire
  /\ wire' = wire \ {t}
  /\ UNCHANGED <<call, broker, worker, history, failures>>

BrokerSaves(t) ==
  /\ place[t] \notin {"unsent", "lost"} /\ t \notin saved
  /\ saved' = saved \cup {t}
  /\ UNCHANGED <<call, wire, place, worker, history, failures>>

PublishReturns_AnyConfirmation(t) ==
  /\ call[t] = "sent" /\ (Confirmed(t) \/ Refused(t))
  /\ call' = [call EXCEPT ![t] = "ok"]
  /\ UNCHANGED <<wire, broker, worker, history, failures>>

\* confirm.await: Ok only if the confirmation is an ack
PublishReturns(t) ==
  /\ call[t] = "sent"
  /\ \/ Confirmed(t) /\ call' = [call EXCEPT ![t] = "ok"]
     \/ Refused(t) /\ call' = [call EXCEPT ![t] = "err"]
  /\ UNCHANGED <<wire, broker, worker, history, failures>>

\* The publisher's connection breaks: the caller gets an error, what it sent
\* may or may not have reached the broker.
PublishBreaks(t) ==
  /\ call[t] = "sent" /\ t \in CutOff
  /\ call' = [call EXCEPT ![t] = "err"]
  /\ wire' \in {wire, wire \ {t}}
  /\ UNCHANGED <<broker, worker, history, failures>>

-----------------------------------------------------------------------------
(* run_task_consumer.                                                      *)

\* let concurrency = usize::from(queue.prefetch_count.max(1))
Slots_One == 1
Slots == IF Prefetch = 0 THEN 1 ELSE Prefetch

Unacked(w) == {t \in Tasks : place[t] = w}

\* basic_qos(prefetch_count): may the broker send w another delivery?
HasRoom(w) == Prefetch = 0 \/ Cardinality(Unacked(w)) < Prefetch

\* The broker sends w the first task of the queue; a requeued task is back at
\* its old position.
Deliver(w, t) ==
  /\ up[w] /\ HasRoom(w)
  /\ place[t] = "ready" /\ \A u \in Tasks : place[u] = "ready" => t <= u
  /\ place' = [place EXCEPT ![t] = w]
  /\ inbox' = [inbox EXCEPT ![w] = Append(@, [task |-> t, conn |-> conn[w]])]
  /\ UNCHANGED <<call, wire, saved, up, conn, runs, acking, history, failures>>

\* acker.ack or acker.nack is called and awaited.  Over an earlier connection
\* than w's it fails, which is only logged.
Acknowledge(w, d, todo) ==
  /\ awaiting' = [awaiting EXCEPT ![w] = @ + 1]
  /\ \/ /\ d.conn = conn[w]
        /\ acks' = [acks EXCEPT ![w] = @ \cup {[task |-> d.task, todo |-> todo]}]
     \/ d.conn # conn[w] /\ UNCHANGED acks
  /\ verdicts' = [verdicts EXCEPT ![d.task] = @ \cup ({todo} \cap Verdicts)]

\* "if message can't be deserialized force to not requeue"
Discard_Requeue == "requeue"
Discard == "drop"

\* The handler starts, or the payload does not deserialize and is nacked.
Take(w) ==
  /\ Cardinality(runs[w]) + awaiting[w] < Slots /\ inbox[w] # <<>>
  /\ inbox' = [inbox EXCEPT ![w] = Tail(@)]
  /\ LET d == Head(inbox[w])
     IN /\ seen' = seen \cup {d.task}
        /\ \/ /\ d.task \in Undecodable
              /\ Acknowledge(w, d, Discard) /\ UNCHANGED runs
           \/ /\ d.task \notin Undecodable
              /\ runs' = [runs EXCEPT ![w] = @ \cup {d}]
              /\ UNCHANGED <<acking, verdicts>>
  /\ UNCHANGED <<call, wire, broker, up, conn, failures>>

\* The outcomes a handler of t may return
Outcomes(t) == Verdicts \cup {todo \in {"requeue"} : t \in Retrying}

\* handler(task).await returns a TaskOutcome
HandlerReturns(w, d) ==
  /\ d \in runs[w]
  /\ runs' = [runs EXCEPT ![w] = @ \ {d}]
  /\ \E todo \in Outcomes(d.task) : Acknowledge(w, d, todo)
  /\ UNCHANGED <<call, wire, broker, up, conn, inbox, seen, failures>>

\* Where the broker puts a task it gets a (negative) acknowledgement for
PlaceAfter_Unmapped(todo) == todo
PlaceAfter(todo) == IF todo = "requeue" THEN "ready" ELSE todo

\* The broker receives an acknowledgement.
AckArrives(w, a) ==
  /\ a \in acks[w]
  /\ acks' = [acks EXCEPT ![w] = @ \ {a}]
  /\ place' = [place EXCEPT ![a.task] = PlaceAfter(a.todo)]
  /\ UNCHANGED <<call, wire, saved, up, conn, inbox, runs, awaiting, history, failures>>

\* The await of an ack or nack returns and the future ends, before or after
\* the broker has received anything.
AckReturns(w) ==
  /\ awaiting[w] > 0
  /\ awaiting' = [awaiting EXCEPT ![w] = @ - 1]
  /\ UNCHANGED <<call, wire, broker, up, conn, inbox, runs, acks, history, failures>>

-----------------------------------------------------------------------------
(* Failures.                                                               *)

Requeued(w) == [t \in Tasks |-> IF place[t] = w THEN "ready" ELSE place[t]]

\* w's connection breaks and is recovered: the broker requeues what w held,
\* what was on its way is lost, the stream keeps or loses what it had buffered.
ConnectionBreaks(w) ==
  /\ up[w] /\ breaks < MaxBreaks
  /\ breaks' = breaks + 1
  /\ conn' = [conn EXCEPT ![w] = @ + 1]
  /\ place' = Requeued(w)
  /\ acks' = [acks EXCEPT ![w] = {}]
  /\ \E kept \in {inbox[w], <<>>} : inbox' = [inbox EXCEPT ![w] = kept]
  /\ UNCHANGED <<call, wire, saved, up, runs, awaiting, history, crashes, restarts>>

\* w's process dies, or a handler panics in the consumer's one task.
Crash(w) ==
  /\ up[w] /\ crashes < MaxCrashes
  /\ crashes' = crashes + 1
  /\ up' = [up EXCEPT ![w] = FALSE]
  /\ inbox' = [inbox EXCEPT ![w] = <<>>]
  /\ runs' = [runs EXCEPT ![w] = {}]
  /\ awaiting' = [awaiting EXCEPT ![w] = 0] /\ acks' = [acks EXCEPT ![w] = {}]
  /\ place' = Requeued(w)
  /\ UNCHANGED <<call, wire, saved, conn, history, breaks, restarts>>

Restart(w) ==
  /\ ~up[w]
  /\ up' = [up EXCEPT ![w] = TRUE]
  /\ UNCHANGED <<call, wire, broker, conn, inbox, runs, acking, history, failures>>

\* What a restarted broker still has: persistent messages (delivery_mode 2)
\* of a durable queue, as far as it had written them.
Retained_Transient == {}
Retained == saved

\* The broker restarts; every worker's connection is recovered.
BrokerRestarts ==
  /\ restarts < MaxRestarts
  /\ restarts' = restarts + 1
  /\ place' = [t \in Tasks |->
                 IF place[t] \in Workers \cup {"ready"}
                 THEN IF t \in Retained THEN "ready" ELSE "lost"
                 ELSE place[t]]
  /\ conn' = [w \in Workers |-> conn[w] + 1]
  /\ acks' = [w \in Workers |-> {}]
  /\ inbox' \in {inbox, [w \in Workers |-> <<>>]}
  /\ UNCHANGED <<call, wire, saved, up, runs, awaiting, history, breaks, crashes>>

Next ==
  \/ \E t \in Tasks : \/ Publish(t) \/ PublishReturns(t) \/ PublishBreaks(t)
                      \/ BrokerAccepts(t) \/ BrokerRefuses(t) \/ BrokerSaves(t)
  \/ \E w \in Workers : \/ \E t \in Tasks : Deliver(w, t)
                        \/ Take(w)
                        \/ \E d \in runs[w] : HandlerReturns(w, d)
                        \/ \E a \in acks[w] : AckArrives(w, a)
                        \/ AckReturns(w)
                        \/ ConnectionBreaks(w) \/ Crash(w) \/ Restart(w)
  \/ BrokerRestarts

Spec == Init /\ [][Next]_vars

\* The executor polls the stream, acks are written out, and handlers return
\* unless slow.  The broker pushes a task as soon as it is first and there is
\* room, while an ack and the next push are a round trip apart, so it does not
\* miss that moment for ever (strong fairness).  Failures stop (they are
\* bounded) and a worker that died is started again.
Fairness ==
  \A w \in Workers :
    /\ WF_vars(Take(w)) /\ WF_vars(AckReturns(w)) /\ WF_vars(Restart(w))
    /\ \A t \in Tasks :
         /\ SF_vars(Deliver(w, t))
         /\ WF_vars(\E a \in acks[w] : a.task = t /\ AckArrives(w, a))
         /\ t \notin Slow =>
              WF_vars(\E d \in runs[w] : d.task = t /\ HandlerReturns(w, d))

FairSpec == Spec /\ Fairness

-----------------------------------------------------------------------------
(* Properties.                                                             *)

\* The abstract queue this one implements.
Status == [t \in Tasks |-> CASE place[t] = "unsent" -> "none"
                             [] place[t] \in Workers \cup {"ready"} -> "queued"
                             [] OTHER -> place[t]]
Promised == {t \in Tasks : call[t] = "ok"}

Abstract == INSTANCE AtLeastOnce WITH status <- Status, promised <- Promised

\* Through broken connections, crashes of workers and restarts of the broker,
\* a task leaves the queue only as a handler decided, and only a task whose
\* publish did not return Ok can be lost.
ImplementsAtLeastOnce == Abstract!AbstractSpec

\* A publish that returned Ok is in the queue, held by a worker, or settled
\* ("required for publish() to be able to await a real broker confirmation",
\* rabbitmq.rs:236).
ConfirmedNotLost ==
  \A t \in Tasks : call[t] = "ok" => place[t] \notin {"unsent", "lost"}

\* "up to prefetch_count tasks run at once (the broker never has more unacked
\* deliveries in flight)" (rabbitmq.rs:169-170): no delivery waits in the
\* stream behind running handlers.  All it may wait for is the return of an
\* ack or nack the broker has already received.
NoDeliveryWaits ==
  \A w \in Workers : inbox[w] # <<>> => Cardinality(runs[w]) < Slots

\* "one slow or retrying task doesn't hold up the others" (rabbitmq.rs:170):
\* a handler is started on every task the queue accepted.
OthersNotHeldUp ==
  \A t \in Tasks \ (Slow \cup Retrying) :
    (place[t] = "ready") ~> (t \in seen \/ place[t] = "lost")

=============================================================================
