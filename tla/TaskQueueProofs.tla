-------------------------- MODULE TaskQueueProofs --------------------------
(***************************************************************************)
(* Proofs about the task queue for any number of workers, tasks and        *)
(* failures and any prefetch count: types, what becomes of a confirmed     *)
(* task, how much a worker may hold, and that nothing it holds is          *)
(* forgotten.                                                              *)
(***************************************************************************)
EXTENDS TaskQueue, TLAPS, FiniteSetTheorems

USE ConstantsAssumption

\* An Ok of publish means the broker wrote the task, and what it wrote it
\* never loses.
OkMeansSaved == \A t \in Tasks : call[t] = "ok" => t \in saved
SavedIsKept == \A t \in saved : place[t] \notin {"unsent", "lost"}

IInv == TypeOK /\ OkMeansSaved /\ SavedIsKept

-----------------------------------------------------------------------------
(* Type correctness.                                                       *)

LEMMA TypeInit == Init => TypeOK
<1> SUFFICES ASSUME Init PROVE TypeOK
  OBVIOUS
<1>1. <<>> \in Seq(Deliveries)
  OBVIOUS
<1>2. inbox \in [Workers -> Seq(Deliveries)]
  BY <1>1 DEF Init
<1> QED BY <1>2 DEF Init, TypeOK, Calls, Places

\* What a call of ack or nack adds.
LEMMA AcknowledgeType ==
  ASSUME TypeOK, NEW w \in Workers, NEW d \in Deliveries,
         NEW todo \in {"requeue"} \cup Verdicts, Acknowledge(w, d, todo)
  PROVE  /\ awaiting' \in [Workers -> Nat] /\ acks' \in [Workers -> SUBSET Acks]
         /\ verdicts' \in [Tasks -> SUBSET Verdicts]
<1>1. /\ awaiting \in [Workers -> Nat] /\ acks \in [Workers -> SUBSET Acks]
      /\ verdicts \in [Tasks -> SUBSET Verdicts]
  BY DEF TypeOK
<1>2. d.task \in Tasks /\ [task |-> d.task, todo |-> todo] \in Acks
  BY DEF Deliveries, Acks
<1>3. awaiting' \in [Workers -> Nat]
  BY <1>1 DEF Acknowledge
<1>4. acks' \in [Workers -> SUBSET Acks]
  <2>1. CASE acks' = [acks EXCEPT ![w] = @ \cup {[task |-> d.task, todo |-> todo]}]
    BY <1>1, <1>2, <2>1
  <2>2. CASE UNCHANGED acks
    BY <1>1, <2>2
  <2> QED BY <2>1, <2>2 DEF Acknowledge
<1>5. verdicts' \in [Tasks -> SUBSET Verdicts]
  BY <1>1, <1>2 DEF Acknowledge
<1> QED BY <1>3, <1>4, <1>5

LEMMA TakeType ==
  ASSUME TypeOK, NEW w \in Workers, Take(w)
  PROVE  TypeOK'
<1>0. /\ runs \in [Workers -> SUBSET Deliveries]
      /\ inbox[w] \in Seq(Deliveries) /\ inbox[w] # <<>>
  BY DEF TypeOK, Take
<1> DEFINE d == Head(inbox[w])
<1>1. d \in Deliveries /\ d.task \in Tasks /\ Tail(inbox[w]) \in Seq(Deliveries)
  <2>1. d \in Deliveries /\ Tail(inbox[w]) \in Seq(Deliveries)
    BY <1>0
  <2> QED BY <2>1 DEF Deliveries
<1>2. inbox' \in [Workers -> Seq(Deliveries)]
  <2>1. inbox' = [inbox EXCEPT ![w] = Tail(@)]
    BY DEF Take
  <2> QED BY <1>1, <2>1 DEF TypeOK
<1>3. seen' = seen \cup {d.task}
  BY DEF Take
<1>4. \/ Acknowledge(w, d, "drop") /\ UNCHANGED runs
      \/ runs' = [runs EXCEPT ![w] = @ \cup {d}] /\ UNCHANGED <<awaiting, acks, verdicts>>
  BY DEF Take, Discard, acking
<1> HIDE DEF d
<1>5. /\ runs' \in [Workers -> SUBSET Deliveries]
      /\ awaiting' \in [Workers -> Nat] /\ acks' \in [Workers -> SUBSET Acks]
      /\ verdicts' \in [Tasks -> SUBSET Verdicts]
  <2>1. CASE Acknowledge(w, d, "drop") /\ UNCHANGED runs
    BY <1>0, <1>1, <2>1, AcknowledgeType DEF Verdicts
  <2>2. CASE runs' = [runs EXCEPT ![w] = @ \cup {d}] /\ UNCHANGED <<awaiting, acks, verdicts>>
    BY <1>0, <1>1, <2>2 DEF TypeOK
  <2> QED BY <1>4, <2>1, <2>2
<1>6. UNCHANGED <<call, wire, place, saved, up, conn, breaks, crashes, restarts>>
  BY DEF Take, broker, failures
<1> QED BY <1>1, <1>2, <1>3, <1>5, <1>6 DEF TypeOK

\* A handler returns what the queue can settle or put back.
LEMMA OutcomesType ==
  ASSUME NEW t
  PROVE  Outcomes(t) \subseteq {"requeue"} \cup Verdicts
BY DEF Outcomes

LEMMA HandlerReturnsType ==
  ASSUME TypeOK, NEW w \in Workers, NEW d \in runs[w], HandlerReturns(w, d)
  PROVE  TypeOK'
<1>1. d \in Deliveries
  BY DEF TypeOK
<1>2. PICK todo \in Outcomes(d.task) : Acknowledge(w, d, todo)
  BY DEF HandlerReturns
<1>3. /\ awaiting' \in [Workers -> Nat] /\ acks' \in [Workers -> SUBSET Acks]
      /\ verdicts' \in [Tasks -> SUBSET Verdicts]
  BY <1>1, <1>2, OutcomesType, AcknowledgeType
<1>4. runs' \in [Workers -> SUBSET Deliveries]
  BY DEF HandlerReturns, TypeOK
<1>5. UNCHANGED <<call, wire, place, saved, up, conn, inbox, seen, breaks, crashes, restarts>>
  BY DEF HandlerReturns, broker, failures
<1> QED BY <1>3, <1>4, <1>5 DEF TypeOK

\* Where an acknowledgement can put a task.
LEMMA PlaceAfterType ==
  ASSUME NEW a \in Acks
  PROVE  PlaceAfter(a.todo) \in {"ready", "ack", "drop"}
BY DEF Acks, PlaceAfter, Verdicts

LEMMA AckArrivesType ==
  ASSUME TypeOK, NEW w \in Workers, NEW a \in acks[w], AckArrives(w, a)
  PROVE  TypeOK'
<1>1. a \in Acks
  BY DEF TypeOK
<1>2. PlaceAfter(a.todo) \in Places
  BY <1>1, PlaceAfterType DEF Places
<1>3. place' \in [Tasks -> Places \cup Workers]
  BY <1>2 DEF AckArrives, TypeOK
<1>4. acks' \in [Workers -> SUBSET Acks]
  BY DEF AckArrives, TypeOK
<1>5. UNCHANGED <<call, wire, saved, up, conn, inbox, runs, awaiting, verdicts, seen, breaks,
                  crashes, restarts>>
  BY DEF AckArrives, history, failures
<1> QED BY <1>3, <1>4, <1>5 DEF TypeOK

LEMMA AckReturnsType ==
  ASSUME TypeOK, NEW w \in Workers, AckReturns(w)
  PROVE  TypeOK'
<1>1. awaiting' \in [Workers -> Nat]
  BY DEF AckReturns, TypeOK
<1>2. UNCHANGED <<call, wire, place, saved, up, conn, inbox, runs, acks, verdicts, seen, breaks,
                  crashes, restarts>>
  BY DEF AckReturns, broker, history, failures
<1> QED BY <1>1, <1>2 DEF TypeOK

LEMMA RequeuedType ==
  ASSUME TypeOK, NEW w \in Workers
  PROVE  Requeued(w) \in [Tasks -> Places \cup Workers]
BY DEF Requeued, TypeOK, Places

LEMMA ConnectionBreaksType ==
  ASSUME TypeOK, NEW w \in Workers, ConnectionBreaks(w)
  PROVE  TypeOK'
<1>1. place' \in [Tasks -> Places \cup Workers]
  BY RequeuedType DEF ConnectionBreaks
<1>2. breaks' \in 0..MaxBreaks /\ breaks' = breaks + 1 /\ restarts' = restarts
  BY DEF ConnectionBreaks, TypeOK
<1>3. conn' \in [Workers -> 0..(breaks' + restarts')]
  BY <1>2 DEF ConnectionBreaks, TypeOK
<1>4. inbox' \in [Workers -> Seq(Deliveries)]
  <2>1. PICK kept \in {inbox[w], <<>>} : inbox' = [inbox EXCEPT ![w] = kept]
    BY DEF ConnectionBreaks
  <2>2. inbox[w] \in Seq(Deliveries) /\ <<>> \in Seq(Deliveries)
    BY DEF TypeOK
  <2>3. kept \in Seq(Deliveries)
    BY <2>1, <2>2
  <2> QED BY <2>1, <2>3 DEF TypeOK
<1>5. acks' \in [Workers -> SUBSET Acks]
  BY DEF ConnectionBreaks, TypeOK
<1>6. UNCHANGED <<call, wire, saved, up, runs, awaiting, verdicts, seen, crashes, restarts>>
  BY DEF ConnectionBreaks, history
<1> QED BY <1>1, <1>2, <1>3, <1>4, <1>5, <1>6 DEF TypeOK

LEMMA CrashType ==
  ASSUME TypeOK, NEW w \in Workers, Crash(w)
  PROVE  TypeOK'
<1>1. place' \in [Tasks -> Places \cup Workers]
  BY RequeuedType DEF Crash
<1>2. inbox' \in [Workers -> Seq(Deliveries)]
  <2>1. <<>> \in Seq(Deliveries)
    OBVIOUS
  <2> QED BY <2>1 DEF Crash, TypeOK
<1>3. /\ runs' \in [Workers -> SUBSET Deliveries] /\ up' \in [Workers -> BOOLEAN]
      /\ awaiting' \in [Workers -> Nat] /\ acks' \in [Workers -> SUBSET Acks]
      /\ crashes' \in 0..MaxCrashes
  BY DEF Crash, TypeOK
<1>4. UNCHANGED <<call, wire, saved, conn, verdicts, seen, breaks, restarts>>
  BY DEF Crash, history
<1> QED BY <1>1, <1>2, <1>3, <1>4 DEF TypeOK

LEMMA BrokerRestartsType ==
  ASSUME TypeOK, BrokerRestarts
  PROVE  TypeOK'
<1>1. place' \in [Tasks -> Places \cup Workers]
  BY DEF BrokerRestarts, TypeOK, Places
<1>2. restarts' \in 0..MaxRestarts /\ restarts' = restarts + 1 /\ breaks' = breaks
  BY DEF BrokerRestarts, TypeOK
<1>3. conn' \in [Workers -> 0..(breaks' + restarts')]
  BY <1>2 DEF BrokerRestarts, TypeOK
<1>4. inbox' \in [Workers -> Seq(Deliveries)]
  <2>1. <<>> \in Seq(Deliveries)
    OBVIOUS
  <2> QED BY <2>1 DEF BrokerRestarts, TypeOK
<1>5. acks' \in [Workers -> SUBSET Acks]
  BY DEF BrokerRestarts
<1>6. UNCHANGED <<call, wire, saved, up, runs, awaiting, verdicts, seen, breaks, crashes>>
  BY DEF BrokerRestarts, history
<1> QED BY <1>1, <1>2, <1>3, <1>4, <1>5, <1>6 DEF TypeOK

LEMMA DeliverType ==
  ASSUME TypeOK, NEW w \in Workers, NEW t \in Tasks, Deliver(w, t)
  PROVE  TypeOK'
<1>1. place' \in [Tasks -> Places \cup Workers]
  BY DEF Deliver, TypeOK
<1>2. conn[w] \in 0..(MaxBreaks + MaxRestarts)
  BY DEF TypeOK
<1>3. [task |-> t, conn |-> conn[w]] \in Deliveries
  BY <1>2 DEF Deliveries
<1>4. inbox' \in [Workers -> Seq(Deliveries)]
  <2>1. inbox[w] \in Seq(Deliveries)
    BY DEF TypeOK
  <2>2. Append(inbox[w], [task |-> t, conn |-> conn[w]]) \in Seq(Deliveries)
    BY <1>3, <2>1
  <2>3. inbox' = [inbox EXCEPT ![w] = Append(@, [task |-> t, conn |-> conn[w]])]
    BY DEF Deliver
  <2> QED BY <2>2, <2>3 DEF TypeOK
<1>5. UNCHANGED <<call, wire, saved, up, conn, runs, awaiting, acks, verdicts, seen, breaks,
                  crashes, restarts>>
  BY DEF Deliver, acking, history, failures
<1> QED BY <1>1, <1>4, <1>5 DEF TypeOK

LEMMA TypeStep == TypeOK /\ [Next]_vars => TypeOK'
<1> SUFFICES ASSUME TypeOK, [Next]_vars PROVE TypeOK'
  OBVIOUS
<1> USE DEF broker, acking, worker, history, failures
<1>1. ASSUME NEW t \in Tasks, Publish(t) \/ PublishReturns(t) \/ PublishBreaks(t)
      PROVE  TypeOK'
  BY <1>1 DEF Publish, PublishReturns, PublishBreaks, TypeOK, Calls
<1>2. ASSUME NEW t \in Tasks, BrokerAccepts(t) \/ BrokerRefuses(t) \/ BrokerSaves(t)
      PROVE  TypeOK'
  BY <1>2 DEF BrokerAccepts, BrokerRefuses, BrokerSaves, TypeOK, Places
<1>3. ASSUME NEW w \in Workers, Restart(w) PROVE TypeOK'
  BY <1>3 DEF Restart, TypeOK
<1>4. CASE UNCHANGED vars
  BY <1>4 DEF vars, TypeOK
<1> QED BY <1>1, <1>2, <1>3, <1>4, DeliverType, TakeType, HandlerReturnsType,
           AckArrivesType, AckReturnsType, ConnectionBreaksType, CrashType, BrokerRestartsType DEF Next

\* The task queue's state is well typed.
THEOREM TypeCorrect == Spec => []TypeOK
BY TypeInit, TypeStep, PTL DEF Spec

-----------------------------------------------------------------------------
(* What was confirmed is not lost.                                         *)

LEMMA SavedStep ==
  TypeOK /\ OkMeansSaved /\ SavedIsKept /\ [Next]_vars
    => OkMeansSaved' /\ SavedIsKept'
<1> SUFFICES ASSUME TypeOK, OkMeansSaved, SavedIsKept, [Next]_vars
             PROVE  OkMeansSaved' /\ SavedIsKept'
  OBVIOUS
<1> USE DEF OkMeansSaved, SavedIsKept, broker, worker, history, failures
<1>0. /\ call \in [Tasks -> Calls] /\ saved \subseteq Tasks
      /\ place \in [Tasks -> Places \cup Workers]
  BY DEF TypeOK
<1>1. ASSUME NEW t \in Tasks, Publish(t) \/ PublishReturns(t) \/ PublishBreaks(t)
      PROVE  OkMeansSaved' /\ SavedIsKept'
  BY <1>0, <1>1 DEF Publish, PublishReturns, PublishBreaks, Confirmed
<1>2. ASSUME NEW t \in Tasks, BrokerAccepts(t) \/ BrokerRefuses(t) \/ BrokerSaves(t)
      PROVE  OkMeansSaved' /\ SavedIsKept'
  BY <1>0, <1>2 DEF BrokerAccepts, BrokerRefuses, BrokerSaves
<1>3. ASSUME NEW w \in Workers, NEW t \in Tasks, Deliver(w, t)
      PROVE  OkMeansSaved' /\ SavedIsKept'
  BY <1>0, <1>3 DEF Deliver, Places
<1>4. ASSUME NEW w \in Workers, Take(w) \/ AckReturns(w) \/ Restart(w)
      PROVE  OkMeansSaved' /\ SavedIsKept'
  BY <1>4 DEF Take, AckReturns, Restart
<1>5. ASSUME NEW w \in Workers, NEW d \in runs[w], HandlerReturns(w, d)
      PROVE  OkMeansSaved' /\ SavedIsKept'
  BY <1>5 DEF HandlerReturns
<1>6. ASSUME NEW w \in Workers, NEW a \in acks[w], AckArrives(w, a)
      PROVE  OkMeansSaved' /\ SavedIsKept'
  <2>1. PlaceAfter(a.todo) \in {"ready", "ack", "drop"}
    BY <1>6, PlaceAfterType DEF TypeOK
  <2> QED BY <1>0, <1>6, <2>1 DEF AckArrives
<1>7. ASSUME NEW w \in Workers, ConnectionBreaks(w) \/ Crash(w)
      PROVE  OkMeansSaved' /\ SavedIsKept'
  BY <1>0, <1>7 DEF ConnectionBreaks, Crash, Requeued
<1>8. CASE BrokerRestarts
  BY <1>0, <1>8 DEF BrokerRestarts, Retained
<1>9. CASE UNCHANGED vars
  BY <1>9 DEF vars
<1> QED BY <1>1, <1>2, <1>3, <1>4, <1>5, <1>6, <1>7, <1>8, <1>9 DEF Next

LEMMA InvInit == Init => IInv
BY TypeInit DEF Init, IInv, OkMeansSaved, SavedIsKept

LEMMA InvStep == IInv /\ [Next]_vars => IInv'
BY TypeStep, SavedStep DEF IInv

\* IInv is an invariant of the task queue.
THEOREM Invariance == Spec => []IInv
BY InvInit, InvStep, PTL DEF Spec

\* A publish that returned Ok is kept, through every failure.
THEOREM ConfirmedIsKept == Spec => []ConfirmedNotLost
<1>1. IInv => ConfirmedNotLost
  BY DEF IInv, OkMeansSaved, SavedIsKept, ConfirmedNotLost
<1> QED BY <1>1, Invariance, PTL

-----------------------------------------------------------------------------
(* The prefetch count bounds what a worker holds.                          *)

\* The parts of TypeOK the steps below use.
LEMMA DeliveryTypes ==
  ASSUME TypeOK
  PROVE  /\ place \in [Tasks -> Places \cup Workers]
         /\ verdicts \in [Tasks -> SUBSET Verdicts]
         /\ \A w \in Workers :
              /\ conn[w] \in Nat /\ awaiting[w] \in Nat
              /\ inbox[w] \in Seq(Deliveries) /\ Len(inbox[w]) \in Nat
              /\ \A k \in 1..Len(inbox[w]) :
                   /\ inbox[w][k] \in Deliveries
                   /\ inbox[w][k].task \in Tasks /\ inbox[w][k].conn \in Nat
              /\ \A d \in runs[w] : d \in Deliveries /\ d.task \in Tasks /\ d.conn \in Nat
              /\ \A a \in acks[w] : /\ a \in Acks /\ a.task \in Tasks
                                    /\ a.todo \in {"requeue"} \cup Verdicts
<1>1. /\ place \in [Tasks -> Places \cup Workers]
      /\ verdicts \in [Tasks -> SUBSET Verdicts]
  BY DEF TypeOK
<1>2. ASSUME NEW w \in Workers
      PROVE  /\ conn[w] \in Nat /\ awaiting[w] \in Nat
             /\ inbox[w] \in Seq(Deliveries) /\ Len(inbox[w]) \in Nat
             /\ \A k \in 1..Len(inbox[w]) :
                  /\ inbox[w][k] \in Deliveries
                  /\ inbox[w][k].task \in Tasks /\ inbox[w][k].conn \in Nat
             /\ \A d \in runs[w] : d \in Deliveries /\ d.task \in Tasks /\ d.conn \in Nat
             /\ \A a \in acks[w] : /\ a \in Acks /\ a.task \in Tasks
                                   /\ a.todo \in {"requeue"} \cup Verdicts
  <2>1. conn[w] \in Nat /\ awaiting[w] \in Nat
    BY DEF TypeOK
  <2>2. inbox[w] \in Seq(Deliveries) /\ Len(inbox[w]) \in Nat
    BY DEF TypeOK
  <2>3. \A k \in 1..Len(inbox[w]) : inbox[w][k] \in Deliveries
    BY <2>2
  <2>4. runs[w] \subseteq Deliveries /\ acks[w] \subseteq Acks
    BY DEF TypeOK
  <2>5. \A d \in Deliveries : d.task \in Tasks /\ d.conn \in Nat
    BY DEF Deliveries
  <2>6. \A a \in Acks : a.task \in Tasks /\ a.todo \in {"requeue"} \cup Verdicts
    BY DEF Acks
  <2> QED BY <2>1, <2>2, <2>3, <2>4, <2>5, <2>6
<1> QED BY <1>1, <1>2

\* "the broker never has more unacked deliveries in flight" (rabbitmq.rs:170),
\* whatever breaks: no worker has more tasks unacked than its prefetch count.
QosKept ==
  Prefetch > 0 => \A w \in Workers : Cardinality(Unacked(w)) <= Prefetch

\* A worker never has more futures alive at once than it has slots: handlers
\* that run, those of connections that broke under it included, and futures
\* whose ack or nack has not returned.
SlotsKept ==
  \A w \in Workers :
    IsFiniteSet(runs[w]) /\ Cardinality(runs[w]) + awaiting[w] <= Slots

LEMMA UnackedFinite ==
  ASSUME NEW w
  PROVE  /\ IsFiniteSet(Unacked(w)) /\ Cardinality(Unacked(w)) \in Nat
         /\ IsFiniteSet(Unacked(w)') /\ Cardinality(Unacked(w)') \in Nat
<1>1. IsFiniteSet(Tasks)
  BY FS_Interval DEF Tasks
<1>2. Unacked(w) \subseteq Tasks /\ Unacked(w)' \subseteq Tasks
  BY DEF Unacked
<1> QED BY <1>1, <1>2, FS_Subset, FS_CardinalityType

\* Only a delivery gives a worker a task.
LEMMA NoneGained ==
  ASSUME TypeOK, [Next]_vars, NEW v \in Workers,
         \A w \in Workers, t \in Tasks : ~Deliver(w, t)
  PROVE  Unacked(v)' \subseteq Unacked(v)
<1> SUFFICES ASSUME NEW u \in Tasks, place'[u] = v PROVE place[u] = v
  BY DEF Unacked
<1> USE DEF broker
<1>a. v \notin Places /\ place \in [Tasks -> Places \cup Workers]
  BY DEF TypeOK
<1>1. ASSUME UNCHANGED place PROVE place[u] = v
  BY <1>1
<1>2. ASSUME NEW t \in Tasks, BrokerAccepts(t) PROVE place[u] = v
  BY <1>2, <1>a DEF BrokerAccepts, Places
<1>3. ASSUME NEW w \in Workers, NEW a \in acks[w], AckArrives(w, a) PROVE place[u] = v
  <2>1. PlaceAfter(a.todo) \in Places
    BY <1>3, DeliveryTypes, PlaceAfterType DEF Places
  <2> QED BY <1>3, <1>a, <2>1 DEF AckArrives
<1>4. ASSUME NEW w \in Workers, ConnectionBreaks(w) \/ Crash(w) PROVE place[u] = v
  BY <1>4, <1>a DEF ConnectionBreaks, Crash, Requeued, Places
<1>5. CASE BrokerRestarts
  BY <1>5, <1>a DEF BrokerRestarts, Places
<1>6. CASE UNCHANGED vars
  BY <1>6 DEF vars
<1>7. ASSUME NEW t \in Tasks,
             Publish(t) \/ PublishReturns(t) \/ PublishBreaks(t) \/ BrokerRefuses(t) \/ BrokerSaves(t)
      PROVE  place[u] = v
  BY <1>7, <1>1 DEF Publish, PublishReturns, PublishBreaks, BrokerRefuses, BrokerSaves
<1>8. ASSUME NEW w \in Workers, Restart(w) \/ Take(w) \/ AckReturns(w) PROVE place[u] = v
  BY <1>8, <1>1 DEF Restart, Take, AckReturns
<1>9. ASSUME NEW w \in Workers, NEW d \in runs[w], HandlerReturns(w, d) PROVE place[u] = v
  BY <1>9, <1>1 DEF HandlerReturns
<1> QED BY <1>2, <1>3, <1>4, <1>5, <1>6, <1>7, <1>8, <1>9 DEF Next

\* basic_qos is kept by every step.
LEMMA QosStep == TypeOK /\ QosKept /\ [Next]_vars => QosKept'
<1> SUFFICES ASSUME TypeOK, QosKept, [Next]_vars, Prefetch > 0, NEW v \in Workers
             PROVE  Cardinality(Unacked(v)') <= Prefetch
  BY DEF QosKept
<1>a. Cardinality(Unacked(v)) <= Prefetch
  BY DEF QosKept
<1>1. ASSUME Unacked(v)' \subseteq Unacked(v)
      PROVE  Cardinality(Unacked(v)') <= Prefetch
  <2>1. Cardinality(Unacked(v)') <= Cardinality(Unacked(v))
    BY <1>1, UnackedFinite, FS_Subset
  <2> QED BY <1>a, <2>1, UnackedFinite
<1>2. ASSUME NEW w \in Workers, NEW t \in Tasks, Deliver(w, t)
      PROVE  Cardinality(Unacked(v)') <= Prefetch
  <2>1. place' = [place EXCEPT ![t] = w] /\ place[t] = "ready" /\ HasRoom(w)
    BY <1>2 DEF Deliver
  <2>2. place \in [Tasks -> Places \cup Workers]
    BY DEF TypeOK
  <2>3. CASE v # w
    <3>1. Unacked(v)' \subseteq Unacked(v)
      BY <2>1, <2>2, <2>3 DEF Unacked
    <3> QED BY <3>1, <1>1
  <2>4. CASE v = w
    <3>1. Unacked(v)' \subseteq Unacked(v) \cup {t}
      BY <2>1, <2>2, <2>4 DEF Unacked
    <3>2. Cardinality(Unacked(v)) < Prefetch
      BY <2>1, <2>4 DEF HasRoom
    <3>3. /\ IsFiniteSet(Unacked(v) \cup {t})
          /\ \/ Cardinality(Unacked(v) \cup {t}) = Cardinality(Unacked(v)) + 1
             \/ Cardinality(Unacked(v) \cup {t}) = Cardinality(Unacked(v))
      BY UnackedFinite, FS_AddElement
    <3>4. Cardinality(Unacked(v)') <= Cardinality(Unacked(v) \cup {t})
      BY <3>1, <3>3, FS_Subset
    <3> QED BY <3>2, <3>3, <3>4, UnackedFinite
  <2> QED BY <2>3, <2>4
<1>3. CASE \A w \in Workers, t \in Tasks : ~Deliver(w, t)
  BY <1>3, <1>1, NoneGained
<1> QED BY <1>2, <1>3

\* for_each_concurrent is kept by every step.
LEMMA SlotsStep == TypeOK /\ SlotsKept /\ [Next]_vars => SlotsKept'
<1> SUFFICES ASSUME TypeOK, SlotsKept, [Next]_vars, NEW v \in Workers
             PROVE  IsFiniteSet(runs'[v]) /\ Cardinality(runs'[v]) + awaiting'[v] <= Slots
  BY DEF SlotsKept, Slots
<1> DEFINE Kept == IsFiniteSet(runs'[v]) /\ Cardinality(runs'[v]) + awaiting'[v] <= Slots
<1> USE DEF worker, acking
<1>a. /\ IsFiniteSet(runs[v]) /\ Cardinality(runs[v]) \in Nat /\ awaiting[v] \in Nat
      /\ Cardinality(runs[v]) + awaiting[v] <= Slots /\ Slots \in Nat
  BY FS_CardinalityType, DeliveryTypes DEF SlotsKept, Slots
<1>b. /\ runs \in [Workers -> SUBSET Deliveries] /\ awaiting \in [Workers -> Nat]
  BY DEF TypeOK
<1>1. ASSUME runs'[v] = runs[v], awaiting'[v] = awaiting[v]
      PROVE  Kept
  BY <1>1, <1>a
<1>2. ASSUME NEW w \in Workers, Take(w)
      PROVE  Kept
  <2>1. \/ UNCHANGED runs /\ awaiting' = [awaiting EXCEPT ![w] = @ + 1]
        \/ UNCHANGED awaiting /\ \E d : runs' = [runs EXCEPT ![w] = @ \cup {d}]
    BY <1>2 DEF Take, Acknowledge
  <2>2. CASE v # w
    BY <2>1, <2>2, <1>b, <1>1
  <2>3. CASE v = w /\ UNCHANGED runs /\ awaiting' = [awaiting EXCEPT ![w] = @ + 1]
    <3>1. awaiting'[v] = awaiting[v] + 1 /\ Cardinality(runs[v]) + awaiting[v] < Slots
      BY <1>2, <1>b, <2>3 DEF Take
    <3> QED BY <1>a, <2>3, <3>1
  <2>4. CASE v = w /\ UNCHANGED awaiting /\ \E d : runs' = [runs EXCEPT ![w] = @ \cup {d}]
    <3>1. PICK d : runs' = [runs EXCEPT ![w] = @ \cup {d}]
      BY <2>4
    <3>2. runs'[v] = runs[v] \cup {d}
      BY <2>4, <3>1, <1>b
    <3>3. /\ IsFiniteSet(runs[v] \cup {d})
          /\ \/ Cardinality(runs[v] \cup {d}) = Cardinality(runs[v]) + 1
             \/ Cardinality(runs[v] \cup {d}) = Cardinality(runs[v])
      BY <1>a, FS_AddElement
    <3>4. Cardinality(runs[v]) + awaiting[v] < Slots /\ awaiting'[v] = awaiting[v]
      BY <1>2, <2>4 DEF Take
    <3> QED BY <1>a, <3>2, <3>3, <3>4
  <2> QED BY <2>1, <2>2, <2>3, <2>4
<1>3. ASSUME NEW w \in Workers, NEW d \in runs[w], HandlerReturns(w, d)
      PROVE  Kept
  <2>1. /\ runs' = [runs EXCEPT ![w] = @ \ {d}]
        /\ awaiting' = [awaiting EXCEPT ![w] = @ + 1]
    BY <1>3 DEF HandlerReturns, Acknowledge
  <2>2. CASE v # w
    BY <2>1, <2>2, <1>b, <1>1
  <2>3. CASE v = w
    <3>1. /\ runs'[v] = runs[v] \ {d} /\ d \in runs[v]
          /\ awaiting'[v] = awaiting[v] + 1
      BY <2>1, <2>3, <1>b
    <3>2. /\ IsFiniteSet(runs[v] \ {d})
          /\ Cardinality(runs[v] \ {d}) = Cardinality(runs[v]) - 1
      BY <1>a, <3>1, FS_RemoveElement
    <3> QED BY <1>a, <3>1, <3>2
  <2> QED BY <2>2, <2>3
<1>4. ASSUME NEW w \in Workers, AckReturns(w)
      PROVE  Kept
  <2>1. runs' = runs /\ awaiting' = [awaiting EXCEPT ![w] = @ - 1]
    BY <1>4 DEF AckReturns
  <2>2. awaiting'[v] \in Int /\ awaiting'[v] <= awaiting[v]
    BY <1>a, <1>b, <2>1
  <2> QED BY <1>a, <2>1, <2>2
<1>5. ASSUME NEW w \in Workers, Crash(w)
      PROVE  Kept
  <2>1. CASE v # w
    BY <1>5, <1>b, <1>1, <2>1 DEF Crash
  <2>2. CASE v = w
    <3>1. runs'[v] = {} /\ awaiting'[v] = 0
      BY <1>5, <1>b, <2>2 DEF Crash
    <3> QED BY <1>a, <3>1, FS_EmptySet
  <2> QED BY <2>1, <2>2
<1>6. ASSUME NEW w \in Workers,
             \/ ConnectionBreaks(w) \/ Restart(w)
             \/ \E t \in Tasks : Deliver(w, t)
             \/ \E a \in acks[w] : AckArrives(w, a)
      PROVE  Kept
  BY <1>6, <1>1 DEF ConnectionBreaks, Restart, Deliver, AckArrives
<1>7. ASSUME NEW t \in Tasks,
             \/ Publish(t) \/ PublishReturns(t) \/ PublishBreaks(t) \/ BrokerAccepts(t)
             \/ BrokerRefuses(t) \/ BrokerSaves(t)
      PROVE  Kept
  BY <1>7, <1>1 DEF Publish, PublishReturns, PublishBreaks, BrokerAccepts, BrokerRefuses,
                    BrokerSaves
<1>8. CASE BrokerRestarts \/ UNCHANGED vars
  BY <1>8, <1>1 DEF BrokerRestarts, vars
<1> QED BY <1>2, <1>3, <1>4, <1>5, <1>6, <1>7, <1>8 DEF Next

LEMMA PrefetchInit == Init => QosKept /\ SlotsKept
<1> SUFFICES ASSUME Init PROVE QosKept /\ SlotsKept
  OBVIOUS
<1>1. \A w \in Workers : Unacked(w) = {} /\ runs[w] = {} /\ awaiting[w] = 0
  BY DEF Init, Unacked, Places
<1>2. IsFiniteSet({}) /\ Cardinality({}) = 0
  BY FS_EmptySet
<1>3. \A w \in Workers : Cardinality(Unacked(w)) = 0 /\ Cardinality(runs[w]) = 0
  BY <1>1, <1>2
<1>4. 0 <= Prefetch /\ 0 <= Slots
  BY DEF Slots
<1>5. QosKept
  BY <1>3, <1>4 DEF QosKept
<1>6. SlotsKept
  BY <1>1, <1>2, <1>3, <1>4 DEF SlotsKept
<1> QED BY <1>5, <1>6

\* No worker has more than prefetch_count tasks unacked or more than
\* max(prefetch_count, 1) futures alive, the handlers whose connection broke
\* under them and the awaited acknowledgements included.
THEOREM HeldAtMostPrefetch == Spec => [](QosKept /\ SlotsKept)
BY TypeCorrect, PrefetchInit, QosStep, SlotsStep, PTL DEF Spec

-----------------------------------------------------------------------------
(* What the broker has handed out, a worker has in hand.                   *)

\* w has a delivery of t over its current connection, waiting or handled, or
\* has sent the acknowledgement of one.
InHand(w, t) ==
  \/ \E k \in 1..Len(inbox[w]) : inbox[w][k].task = t /\ inbox[w][k].conn = conn[w]
  \/ \E d \in runs[w] : d.task = t /\ d.conn = conn[w]
  \/ \E a \in acks[w] : a.task = t

\* No delivery is forgotten: a task the broker counts as unacked at a worker is
\* on its way through a worker that runs, so its place in the prefetch window
\* comes free.
NoneForgotten == \A w \in Workers, t \in Tasks : place[t] = w => up[w] /\ InHand(w, t)

LEMMA NoneForgottenInit == Init => NoneForgotten
BY DEF Init, NoneForgotten, Places

\* What a step leaves in w's hands.
LEMMA StillInHand ==
  ASSUME TypeOK, NoneForgotten, NEW w \in Workers, NEW t \in Tasks,
         place'[t] = w => place[t] = w,
         UNCHANGED <<conn[w], inbox[w], runs[w], acks[w]>>, up[w] => up'[w]
  PROVE  place'[t] = w => up'[w] /\ InHand(w, t)'
BY DEF NoneForgotten, InHand

LEMMA NoneForgottenStep == TypeOK /\ NoneForgotten /\ [Next]_vars => NoneForgotten'
<1> SUFFICES ASSUME TypeOK, NoneForgotten, [Next]_vars,
                    NEW v \in Workers, NEW u \in Tasks, place'[u] = v
             PROVE  up'[v] /\ InHand(v, u)'
  BY DEF NoneForgotten
<1> USE DEF broker, worker, acking, history, failures
<1>a. /\ v \notin Places /\ place \in [Tasks -> Places \cup Workers]
      /\ inbox \in [Workers -> Seq(Deliveries)]
      /\ runs \in [Workers -> SUBSET Deliveries] /\ acks \in [Workers -> SUBSET Acks]
      /\ up \in [Workers -> BOOLEAN] /\ DOMAIN conn = Workers
      /\ conn = [w \in Workers |-> conn[w]]
  BY DEF TypeOK
<1>b. place[u] = v => up[v] /\ InHand(v, u)
  BY DEF NoneForgotten
<1>1. CASE UNCHANGED <<place, worker>>
  BY <1>1, StillInHand
<1>2. ASSUME NEW t \in Tasks,
             \/ Publish(t) \/ PublishReturns(t) \/ PublishBreaks(t)
             \/ BrokerRefuses(t) \/ BrokerSaves(t)
      PROVE  up'[v] /\ InHand(v, u)'
  BY <1>2, <1>1 DEF Publish, PublishReturns, PublishBreaks, BrokerRefuses, BrokerSaves
<1>3. ASSUME NEW t \in Tasks, BrokerAccepts(t) PROVE up'[v] /\ InHand(v, u)'
  <2>1. place[u] = v
    BY <1>3, <1>a DEF BrokerAccepts, Places
  <2> QED BY <1>3, <2>1, StillInHand DEF BrokerAccepts
<1>4. ASSUME NEW w \in Workers, NEW t \in Tasks, Deliver(w, t)
      PROVE  up'[v] /\ InHand(v, u)'
  <2>1. /\ place' = [place EXCEPT ![t] = w]
        /\ inbox' = [inbox EXCEPT ![w] = Append(@, [task |-> t, conn |-> conn[w]])]
        /\ up[w] /\ UNCHANGED <<up, conn, runs, acks>>
    BY <1>4 DEF Deliver
  <2>2. CASE v # w
    <3>1. place[u] = v /\ inbox'[v] = inbox[v]
      BY <2>1, <2>2, <1>a
    <3> QED BY <2>1, <3>1, StillInHand
  <2>3. CASE v = w
    <3>1. inbox'[v] = Append(inbox[v], [task |-> t, conn |-> conn[v]]) /\ up'[v]
      BY <2>1, <2>3, <1>a
    <3>2. inbox[v] \in Seq(Deliveries)
      BY <1>a
    <3>3. /\ Len(inbox'[v]) = Len(inbox[v]) + 1 /\ Len(inbox[v]) \in Nat
          /\ inbox'[v][Len(inbox[v]) + 1] = [task |-> t, conn |-> conn[v]]
          /\ \A k \in 1..Len(inbox[v]) : inbox'[v][k] = inbox[v][k]
      BY <3>1, <3>2
    <3>4. CASE u = t
      <4>1. /\ Len(inbox[v]) + 1 \in 1..Len(inbox'[v])
            /\ inbox'[v][Len(inbox[v]) + 1].task = u
            /\ inbox'[v][Len(inbox[v]) + 1].conn = conn'[v]
        BY <2>1, <3>3, <3>4
      <4> QED BY <3>1, <4>1 DEF InHand
    <3>5. CASE u # t
      <4>1. place[u] = v
        BY <2>1, <2>3, <3>5, <1>a
      <4>2. \A k \in 1..Len(inbox[v]) : k \in 1..Len(inbox'[v]) /\ inbox'[v][k] = inbox[v][k]
        BY <3>3
      <4> QED BY <1>b, <2>1, <3>1, <4>1, <4>2 DEF InHand
    <3> QED BY <3>4, <3>5
  <2> QED BY <2>2, <2>3
<1>5. ASSUME NEW w \in Workers, Take(w) PROVE up'[v] /\ InHand(v, u)'
  <2> DEFINE d == Head(inbox[w])
  <2>1. \/ Acknowledge(w, d, "drop") /\ UNCHANGED runs
        \/ runs' = [runs EXCEPT ![w] = @ \cup {d}] /\ UNCHANGED acks
    BY <1>5 DEF Take, Discard
  <2>2. /\ inbox[w] # <<>> /\ inbox' = [inbox EXCEPT ![w] = Tail(@)]
        /\ UNCHANGED <<place, up, conn>>
    BY <1>5 DEF Take
  <2>3. up'[v] /\ InHand(v, u)
    BY <1>b, <2>2
  <2>4. /\ runs[v] \subseteq runs'[v] /\ acks[v] \subseteq acks'[v]
        /\ v = w /\ d.conn = conn[w] =>
             d \in runs'[w] \/ [task |-> d.task, todo |-> "drop"] \in acks'[w]
    BY <1>a, <2>1 DEF Acknowledge
  <2>5. CASE v # w
    <3>1. inbox'[v] = inbox[v]
      BY <1>a, <2>2, <2>5
    <3> QED BY <2>2, <2>3, <2>4, <3>1 DEF InHand
  <2>6. CASE v = w
    <3>1. /\ inbox'[v] = Tail(inbox[v]) /\ conn'[v] = conn[v]
          /\ inbox[v] \in Seq(Deliveries) /\ inbox[v] # <<>>
      BY <1>a, <2>2, <2>6
    <3>2. CASE \/ \E r \in runs[v] : r.task = u /\ r.conn = conn[v]
               \/ \E a \in acks[v] : a.task = u
      BY <2>3, <2>4, <3>1, <3>2 DEF InHand
    <3>3. ASSUME NEW k \in 1..Len(inbox[v]), inbox[v][k].task = u, inbox[v][k].conn = conn[v]
          PROVE  InHand(v, u)'
      <4>1. CASE k = 1
        <5>1. d = inbox[v][1]
          BY <2>6, <3>1
        <5> HIDE DEF d
        <5>2. d.task = u /\ d.conn = conn'[v]
          BY <3>1, <3>3, <4>1, <5>1
        <5>3. d \in runs'[v] \/ [task |-> u, todo |-> "drop"] \in acks'[v]
          BY <2>4, <2>6, <3>1, <5>2
        <5>4. [task |-> u, todo |-> "drop"].task = u
          OBVIOUS
        <5> QED BY <5>2, <5>3, <5>4 DEF InHand
      <4>2. CASE k # 1
        <5>1. k - 1 \in 1..Len(inbox'[v]) /\ inbox'[v][k - 1] = inbox[v][k]
          BY <3>1, <4>2
        <5> QED BY <3>1, <3>3, <5>1 DEF InHand
      <4> QED BY <4>1, <4>2
    <3> QED BY <2>3, <3>2, <3>3 DEF InHand
  <2> QED BY <2>5, <2>6
<1>6. ASSUME NEW w \in Workers, NEW d \in runs[w], HandlerReturns(w, d)
      PROVE  up'[v] /\ InHand(v, u)'
  <2>1. PICK todo : Acknowledge(w, d, todo)
    BY <1>6 DEF HandlerReturns
  <2>2. UNCHANGED <<place, up, conn, inbox>> /\ runs' = [runs EXCEPT ![w] = @ \ {d}]
    BY <1>6 DEF HandlerReturns
  <2>3. up'[v] /\ InHand(v, u)
    BY <1>b, <2>2
  <2>4. /\ acks[v] \subseteq acks'[v]
        /\ \A r \in runs[v] : r \in runs'[v] \/ (v = w /\ r = d)
        /\ v = w /\ d.conn = conn[w] => [task |-> d.task, todo |-> todo] \in acks'[w]
    BY <1>a, <2>1, <2>2 DEF Acknowledge
  <2>5. ASSUME NEW r \in runs[v], r.task = u, r.conn = conn[v]
        PROVE  InHand(v, u)'
    <3>1. CASE r \in runs'[v]
      BY <2>2, <2>5, <3>1 DEF InHand
    <3>2. CASE v = w /\ r = d
      <4>1. [task |-> d.task, todo |-> todo].task = u
        BY <2>5, <3>2
      <4> QED BY <2>4, <2>5, <3>2, <4>1 DEF InHand
    <3> QED BY <2>4, <3>1, <3>2
  <2> QED BY <2>2, <2>3, <2>4, <2>5 DEF InHand
<1>7. ASSUME NEW w \in Workers, NEW a \in acks[w], AckArrives(w, a)
      PROVE  up'[v] /\ InHand(v, u)'
  <2>1. /\ acks' = [acks EXCEPT ![w] = @ \ {a}] /\ UNCHANGED <<up, conn, inbox, runs>>
        /\ place' = [place EXCEPT ![a.task] = PlaceAfter(a.todo)]
    BY <1>7 DEF AckArrives
  <2>2. a.task \in Tasks /\ PlaceAfter(a.todo) \in Places
    BY <1>7, DeliveryTypes, PlaceAfterType DEF Places
  <2>3. place[u] = v /\ u # a.task
    BY <1>a, <2>1, <2>2
  <2>4. \A b \in acks[v] : b.task = u => b \in acks'[v]
    BY <1>a, <2>1, <2>3
  <2> QED BY <1>b, <2>1, <2>3, <2>4 DEF InHand
<1>8. ASSUME NEW w \in Workers, AckReturns(w) PROVE up'[v] /\ InHand(v, u)'
  BY <1>8, <1>1, <1>b DEF AckReturns, InHand
<1>9. ASSUME NEW w \in Workers, ConnectionBreaks(w) PROVE up'[v] /\ InHand(v, u)'
  <2>1. place[u] = v /\ v # w
    BY <1>9, <1>a DEF ConnectionBreaks, Requeued, Places
  <2>2. UNCHANGED <<conn[v], inbox[v], runs[v], acks[v], up>>
    BY <1>9, <1>a, <2>1 DEF ConnectionBreaks
  <2> QED BY <2>1, <2>2, StillInHand
<1>10. ASSUME NEW w \in Workers, Crash(w) PROVE up'[v] /\ InHand(v, u)'
  <2>1. place[u] = v /\ v # w
    BY <1>10, <1>a DEF Crash, Requeued, Places
  <2>2. UNCHANGED <<conn[v], inbox[v], runs[v], acks[v], up[v]>>
    BY <1>10, <1>a, <2>1 DEF Crash
  <2> QED BY <2>1, <2>2, StillInHand
<1>11. ASSUME NEW w \in Workers, Restart(w) PROVE up'[v] /\ InHand(v, u)'
  <2>1. UNCHANGED <<place, conn, inbox, runs, acks>> /\ (up[v] => up'[v])
    BY <1>11, <1>a DEF Restart
  <2> QED BY <2>1, StillInHand
<1>12. CASE BrokerRestarts
  BY <1>12, <1>a DEF BrokerRestarts, Places
<1>13. CASE UNCHANGED vars
  BY <1>13, <1>1 DEF vars
<1> QED BY <1>2, <1>3, <1>4, <1>5, <1>6, <1>7, <1>9, <1>10, <1>11, <1>12, <1>13, <1>8 DEF Next

\* A task the broker has handed out is in the hands of a worker that runs,
\* through every failure: the broker's count of unacked tasks does not leak.
THEOREM NoDeliveryForgotten == Spec => []NoneForgotten
BY TypeCorrect, NoneForgottenInit, NoneForgottenStep, PTL DEF Spec

=============================================================================
