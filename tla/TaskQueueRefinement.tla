------------------------ MODULE TaskQueueRefinement ------------------------
(***************************************************************************)
(* The task queue implements AtLeastOnce, for any number of workers, tasks *)
(* and failures and any prefetch count.                                    *)
(*                                                                         *)
(* The hard step is the receipt of an acknowledgement: it must settle a    *)
(* task that is still in the queue, as somebody decided.  So the broker's  *)
(* view (place) and the workers' (inbox, runs, acks) have to agree on      *)
(* every delivery of the current connection, and there is at most one of a *)
(* task: it waits in the stream, or its handler runs, or its               *)
(* acknowledgement is on its way.                                          *)
(*                                                                         *)
(* The same agreement shows that a delivery never waits behind running     *)
(* handlers until a connection is recovered: it relates the broker's count *)
(* (tasks unacked at a worker) to the worker's (handlers that run,         *)
(* deliveries that wait).  The deliveries of one connection are of         *)
(* different tasks, so counting the tasks counts the deliveries.           *)
(***************************************************************************)
EXTENDS TaskQueueProofs

USE ConstantsAssumption

Fresh(w, d) == d.conn = conn[w]

\* What a worker holds of a task: the broker has accepted the task, and has it
\* unacked at this worker if the delivery is of the current connection.
Sound(w, d) ==
  /\ place[d.task] # "unsent"
  /\ d.conn <= conn[w]
  /\ Fresh(w, d) => place[d.task] = w

InboxSound == \A w \in Workers : \A k \in 1..Len(inbox[w]) : Sound(w, inbox[w][k])
RunsSound == \A w \in Workers : \A r \in runs[w] : Sound(w, r)

InboxUnique ==
  \A w \in Workers : \A j, k \in 1..Len(inbox[w]) :
    /\ Fresh(w, inbox[w][j]) /\ Fresh(w, inbox[w][k])
    /\ inbox[w][j].task = inbox[w][k].task
    => j = k
InboxApart ==
  \A w \in Workers : \A k \in 1..Len(inbox[w]) : \A d \in runs[w] :
    Fresh(w, inbox[w][k]) /\ Fresh(w, d) => inbox[w][k].task # d.task

\* An acknowledgement on its way is about a task the broker has unacked at this
\* worker, about which its verdict is recorded; the task is neither in the
\* stream nor being handled, and no other acknowledgement is about it.
AcksSound ==
  \A w \in Workers : \A a \in acks[w] :
    place[a.task] = w /\ (a.todo \in Verdicts => a.todo \in verdicts[a.task])
AcksUnique == \A w \in Workers : \A a, b \in acks[w] : a.task = b.task => a = b
AcksApart ==
  \A w \in Workers : \A a \in acks[w] :
    /\ \A k \in 1..Len(inbox[w]) : Fresh(w, inbox[w][k]) => inbox[w][k].task # a.task
    /\ \A d \in runs[w] : Fresh(w, d) => d.task # a.task

DeliveriesInv ==
  /\ InboxSound /\ RunsSound /\ AcksSound
  /\ InboxUnique /\ AcksUnique
  /\ InboxApart /\ AcksApart

-----------------------------------------------------------------------------
(* The deliveries of the current connections are what the broker thinks.   *)

LEMMA DeliveriesInit == Init => DeliveriesInv
BY DEF Init, DeliveriesInv, InboxSound, RunsSound, AcksSound, InboxUnique, AcksUnique,
       InboxApart, AcksApart

\* Two runs of one connection are of different tasks: they have no other fields.
LEMMA RunsUnique ==
  ASSUME TypeOK, NEW w \in Workers, NEW d \in runs[w], NEW e \in runs[w],
         Fresh(w, d), Fresh(w, e), d.task = e.task
  PROVE  d = e
BY DeliveryTypes DEF Fresh, Deliveries

\* A step that leaves the workers alone and takes no task from them.
LEMMA WorkersUntouched ==
  ASSUME TypeOK, DeliveriesInv,
         UNCHANGED <<conn, inbox, runs, acks, verdicts>>,
         \A t \in Tasks : /\ place[t] # "unsent" => place'[t] # "unsent"
                          /\ place[t] \in Workers => place'[t] = place[t]
  PROVE  DeliveriesInv'
<1> USE DEF DeliveriesInv
<1>1. InboxSound' /\ RunsSound'
  BY DeliveryTypes DEF InboxSound, RunsSound, Sound, Fresh
<1>2. AcksSound'
  BY DeliveryTypes DEF AcksSound
<1>3. InboxUnique' /\ AcksUnique' /\ InboxApart' /\ AcksApart'
  BY DEF InboxUnique, AcksUnique, InboxApart, AcksApart, Fresh
<1> QED BY <1>1, <1>2, <1>3

LEMMA DeliverKeeps ==
  ASSUME TypeOK, DeliveriesInv, NEW w \in Workers, NEW t \in Tasks, Deliver(w, t)
  PROVE  DeliveriesInv'
<1> DEFINE d == [task |-> t, conn |-> conn[w]]
<1> USE DEF DeliveriesInv
<1>1. /\ place[t] = "ready" /\ place' = [place EXCEPT ![t] = w]
      /\ inbox' = [inbox EXCEPT ![w] = Append(@, d)]
      /\ UNCHANGED <<conn, runs, acks, verdicts>>
  BY DEF Deliver, acking, history
<1>2. d.task = t /\ d.conn = conn[w] /\ w # "unsent" /\ "ready" \notin Workers
  BY DEF Places
<1> HIDE DEF d
\* no fresh delivery of t is held by anyone
<1>3. /\ \A v \in Workers : \A k \in 1..Len(inbox[v]) : Fresh(v, inbox[v][k]) => inbox[v][k].task # t
      /\ \A v \in Workers : \A r \in runs[v] : Fresh(v, r) => r.task # t
      /\ \A v \in Workers : \A a \in acks[v] : a.task # t
  BY <1>1, <1>2 DEF InboxSound, RunsSound, AcksSound, Sound
<1>4. /\ Len(inbox'[w]) = Len(inbox[w]) + 1 /\ inbox'[w][Len(inbox[w]) + 1] = d
      /\ \A k \in 1..Len(inbox[w]) : inbox'[w][k] = inbox[w][k]
      /\ \A v \in Workers \ {w} : inbox'[v] = inbox[v]
      /\ \A k \in 1..Len(inbox'[w]) : k \in 1..Len(inbox[w]) \/ k = Len(inbox[w]) + 1
  <2>1. inbox[w] \in Seq(Deliveries) /\ inbox'[w] = Append(inbox[w], d)
    BY <1>1, DeliveryTypes DEF TypeOK
  <2>2. \A v \in Workers \ {w} : inbox'[v] = inbox[v]
    BY <1>1 DEF TypeOK
  <2> QED BY <2>1, <2>2
<1>5. /\ place'[t] = w
      /\ \A u \in Tasks \ {t} : place'[u] = place[u]
  BY <1>1, DeliveryTypes
<1>6. \A v \in Workers : \A e : Fresh(v, e)' <=> Fresh(v, e)
  BY <1>1 DEF Fresh
<1>7. InboxSound'
  <2> SUFFICES ASSUME NEW v \in Workers, NEW k \in 1..Len(inbox'[v])
               PROVE  Sound(v, inbox[v][k])'
    BY DEF InboxSound
  <2>1. CASE v = w /\ k = Len(inbox[w]) + 1
    BY <1>1, <1>2, <1>4, <1>5, <2>1, DeliveryTypes DEF Sound, Fresh
  <2>2. CASE k \in 1..Len(inbox[v]) /\ inbox'[v][k] = inbox[v][k]
    BY <1>1, <1>2, <1>3, <1>5, <2>2, DeliveryTypes DEF InboxSound, Sound, Fresh
  <2> QED BY <1>4, <2>1, <2>2
<1>8. RunsSound'
  BY <1>1, <1>2, <1>3, <1>5, DeliveryTypes DEF RunsSound, Sound, Fresh
<1>9. InboxUnique'
  <2> SUFFICES ASSUME NEW v \in Workers,
                      NEW j \in 1..Len(inbox'[v]), NEW k \in 1..Len(inbox'[v]),
                      Fresh(v, inbox'[v][j]), Fresh(v, inbox'[v][k]),
                      inbox'[v][j].task = inbox'[v][k].task
               PROVE  j = k
    BY <1>6 DEF InboxUnique
  <2>1. CASE v # w
    BY <1>4, <2>1 DEF InboxUnique
  <2>2. CASE v = w
    <3>1. CASE j \in 1..Len(inbox[w]) /\ k \in 1..Len(inbox[w])
      BY <1>4, <2>2, <3>1 DEF InboxUnique
    <3>2. CASE j \in 1..Len(inbox[w]) /\ k = Len(inbox[w]) + 1
      BY <1>2, <1>3, <1>4, <2>2, <3>2
    <3>3. CASE k \in 1..Len(inbox[w]) /\ j = Len(inbox[w]) + 1
      BY <1>2, <1>3, <1>4, <2>2, <3>3
    <3> QED BY <1>4, <2>2, <3>1, <3>2, <3>3
  <2> QED BY <2>1, <2>2
<1>10. InboxApart'
  <2> SUFFICES ASSUME NEW v \in Workers, NEW k \in 1..Len(inbox'[v]), NEW r \in runs[v],
                      Fresh(v, inbox'[v][k]), Fresh(v, r)
               PROVE  inbox'[v][k].task # r.task
    BY <1>1, <1>6 DEF InboxApart
  <2>1. CASE v # w
    BY <1>4, <2>1 DEF InboxApart
  <2>2. CASE v = w
    BY <1>2, <1>3, <1>4, <2>2 DEF InboxApart
  <2> QED BY <2>1, <2>2
<1>11. AcksSound' /\ AcksUnique'
  BY <1>1, <1>3, <1>5, DeliveryTypes DEF AcksSound, AcksUnique
<1>12. AcksApart'
  <2> SUFFICES ASSUME NEW v \in Workers, NEW a \in acks[v],
                      NEW k \in 1..Len(inbox'[v]), Fresh(v, inbox'[v][k])
               PROVE  inbox'[v][k].task # a.task
    BY <1>1, <1>6 DEF AcksApart
  <2>1. CASE v # w
    <3>1. inbox'[v] = inbox[v]
      BY <1>4, <2>1
    <3>2. k \in 1..Len(inbox[v]) /\ Fresh(v, inbox[v][k])
      BY <3>1
    <3> QED BY <3>1, <3>2 DEF AcksApart
  <2>2. CASE v = w
    BY <1>2, <1>3, <1>4, <2>2 DEF AcksApart
  <2> QED BY <2>1, <2>2
<1> QED BY <1>7, <1>8, <1>9, <1>10, <1>11, <1>12

\* What becomes of a delivery d of w that is acknowledged: if it is of the
\* current connection, it is replaced by an acknowledgement of its own.
LEMMA AcknowledgeAdds ==
  ASSUME TypeOK, DeliveriesInv, NEW w \in Workers, NEW d \in Deliveries,
         NEW todo \in {"requeue"} \cup Verdicts, Acknowledge(w, d, todo),
         Sound(w, d), UNCHANGED place,
         Fresh(w, d) => \A a \in acks[w] : a.task # d.task
  PROVE  /\ AcksSound' /\ AcksUnique'
         /\ \A v \in Workers : \A a \in acks'[v] :
              a \in acks[v] \/ (v = w /\ Fresh(w, d) /\ a.task = d.task)
<1> DEFINE n == [task |-> d.task, todo |-> todo]
<1>1. d.task \in Tasks
  BY DEF Deliveries
<1>2. \/ Fresh(w, d) /\ acks' = [acks EXCEPT ![w] = @ \cup {n}]
      \/ UNCHANGED acks
  BY DEF Acknowledge, Fresh
<1>3. /\ n.task = d.task /\ n.todo = todo
  OBVIOUS
<1>4. /\ \A t \in Tasks : verdicts[t] \subseteq verdicts'[t]
      /\ todo \in Verdicts => todo \in verdicts'[d.task]
  <2>1. verdicts' = [verdicts EXCEPT ![d.task] = @ \cup ({todo} \cap Verdicts)]
    BY DEF Acknowledge
  <2> QED BY <1>1, <2>1, DeliveryTypes
<1> HIDE DEF n
<1>5. \A v \in Workers : \A a \in acks'[v] : a \in acks[v] \/ (v = w /\ Fresh(w, d) /\ a = n)
  BY <1>2 DEF TypeOK
<1>6. AcksSound'
  <2> SUFFICES ASSUME NEW v \in Workers, NEW a \in acks'[v]
               PROVE  place[a.task] = v /\ (a.todo \in Verdicts => a.todo \in verdicts'[a.task])
    BY DEF AcksSound
  <2>1. CASE a \in acks[v]
    BY <1>4, <2>1, DeliveryTypes DEF DeliveriesInv, AcksSound
  <2>2. CASE v = w /\ Fresh(w, d) /\ a = n
    BY <1>3, <1>4, <2>2 DEF Sound
  <2> QED BY <1>5, <2>1, <2>2
<1>7. AcksUnique'
  <2> SUFFICES ASSUME NEW v \in Workers, NEW a \in acks'[v], NEW b \in acks'[v],
                      a.task = b.task
               PROVE  a = b
    BY DEF AcksUnique
  <2>1. CASE a \in acks[v] /\ b \in acks[v]
    BY <2>1 DEF DeliveriesInv, AcksUnique
  <2>2. CASE v = w /\ Fresh(w, d) /\ (a = n \/ b = n)
    BY <1>3, <1>5, <2>2
  <2> QED BY <1>5, <2>1, <2>2
<1> QED BY <1>3, <1>5, <1>6, <1>7

LEMMA TakeKeeps ==
  ASSUME TypeOK, DeliveriesInv, NEW w \in Workers, Take(w)
  PROVE  DeliveriesInv'
<1> DEFINE d == Head(inbox[w])
<1> USE DEF DeliveriesInv
<1>1. inbox[w] \in Seq(Deliveries) /\ inbox[w] # <<>> /\ Len(inbox[w]) \in Nat
  BY DeliveryTypes DEF Take
<1>2. /\ inbox' = [inbox EXCEPT ![w] = Tail(@)]
      /\ UNCHANGED <<place, conn>>
  BY DEF Take, broker
<1>3. /\ Len(inbox[w]) >= 1 /\ d = inbox[w][1] /\ 1 \in 1..Len(inbox[w])
      /\ Len(inbox'[w]) = Len(inbox[w]) - 1
      /\ \A k \in 1..Len(inbox'[w]) : /\ k + 1 \in 1..Len(inbox[w]) /\ k + 1 # 1
                                     /\ inbox'[w][k] = inbox[w][k + 1]
      /\ \A v \in Workers \ {w} : inbox'[v] = inbox[v]
  <2>1. inbox'[w] = Tail(inbox[w]) /\ \A v \in Workers \ {w} : inbox'[v] = inbox[v]
    BY <1>2 DEF TypeOK
  <2> QED BY <1>1, <2>1
<1>4. \/ Acknowledge(w, d, "drop") /\ UNCHANGED runs
      \/ runs' = [runs EXCEPT ![w] = @ \cup {d}] /\ UNCHANGED <<acks, verdicts>>
  BY DEF Take, Discard, acking
<1> HIDE DEF d
<1>5. d \in Deliveries /\ Sound(w, d)
  BY <1>3, DeliveryTypes DEF InboxSound
<1>6. \A v \in Workers : \A e : (Fresh(v, e)' <=> Fresh(v, e)) /\ (Sound(v, e)' <=> Sound(v, e))
  BY <1>2 DEF Sound, Fresh
\* what else there is of the current connection is of other tasks
<1>7. /\ \A k \in 1..Len(inbox'[w]) :
           Fresh(w, inbox'[w][k]) /\ Fresh(w, d) => inbox'[w][k].task # d.task
      /\ \A a \in acks[w] : Fresh(w, d) => a.task # d.task
  <2>1. ASSUME NEW k \in 1..Len(inbox'[w]), Fresh(w, inbox'[w][k]), Fresh(w, d)
        PROVE  inbox'[w][k].task # d.task
    <3>1. k + 1 \in 1..Len(inbox[w]) /\ k + 1 # 1 /\ inbox'[w][k] = inbox[w][k + 1]
      BY <1>3
    <3> QED BY <1>3, <2>1, <3>1 DEF InboxUnique
  <2>2. \A a \in acks[w] : Fresh(w, d) => a.task # d.task
    BY <1>3 DEF AcksApart
  <2> QED BY <2>1, <2>2
<1>8. /\ AcksSound' /\ AcksUnique'
      /\ \A v \in Workers : \A r \in runs'[v] : r \in runs[v] \/ (v = w /\ r = d)
      /\ \A v \in Workers : \A a \in acks'[v] :
           a \in acks[v] \/ (v = w /\ Fresh(w, d) /\ a.task = d.task)
      /\ UNCHANGED runs \/ UNCHANGED acks
  <2>1. CASE Acknowledge(w, d, "drop") /\ UNCHANGED runs
    BY <1>2, <1>5, <1>7, <2>1, AcknowledgeAdds DEF Verdicts
  <2>2. CASE runs' = [runs EXCEPT ![w] = @ \cup {d}] /\ UNCHANGED <<acks, verdicts>>
    <3>1. AcksSound' /\ AcksUnique'
      BY <1>2, <2>2 DEF AcksSound, AcksUnique
    <3> QED BY <2>2, <3>1 DEF TypeOK
  <2> QED BY <1>4, <2>1, <2>2
<1>9. InboxSound' /\ RunsSound'
  BY <1>3, <1>5, <1>6, <1>8 DEF InboxSound, RunsSound
<1>10. InboxUnique'
  <2> SUFFICES ASSUME NEW v \in Workers,
                      NEW j \in 1..Len(inbox'[v]), NEW k \in 1..Len(inbox'[v]),
                      Fresh(v, inbox'[v][j]), Fresh(v, inbox'[v][k]),
                      inbox'[v][j].task = inbox'[v][k].task
               PROVE  j = k
    BY <1>6 DEF InboxUnique
  <2>1. CASE v # w
    BY <1>3, <2>1 DEF InboxUnique
  <2>2. CASE v = w
    <3>1. /\ j + 1 \in 1..Len(inbox[w]) /\ inbox'[w][j] = inbox[w][j + 1]
          /\ k + 1 \in 1..Len(inbox[w]) /\ inbox'[w][k] = inbox[w][k + 1]
      BY <1>3, <2>2
    <3>2. j + 1 = k + 1
      BY <2>2, <3>1 DEF InboxUnique
    <3> QED BY <1>1, <1>3, <2>2, <3>2
  <2> QED BY <2>1, <2>2
<1>11. InboxApart'
  <2> SUFFICES ASSUME NEW v \in Workers, NEW k \in 1..Len(inbox'[v]), NEW r \in runs'[v],
                      Fresh(v, inbox'[v][k]), Fresh(v, r)
               PROVE  inbox'[v][k].task # r.task
    BY <1>6 DEF InboxApart
  <2>1. CASE v # w
    <3>1. inbox'[v] = inbox[v] /\ r \in runs[v]
      BY <1>3, <1>8, <2>1
    <3>2. k \in 1..Len(inbox[v]) /\ Fresh(v, inbox[v][k])
      BY <3>1
    <3> QED BY <3>1, <3>2 DEF InboxApart
  <2>2. CASE v = w /\ r \in runs[w]
    <3>1. k + 1 \in 1..Len(inbox[w]) /\ inbox'[w][k] = inbox[w][k + 1]
      BY <1>3, <2>2
    <3> QED BY <2>2, <3>1 DEF InboxApart
  <2>3. CASE v = w /\ r = d
    BY <1>7, <2>3
  <2> QED BY <1>8, <2>1, <2>2, <2>3
<1>12. AcksApart'
  <2> SUFFICES ASSUME NEW v \in Workers, NEW a \in acks'[v]
               PROVE  /\ \A k \in 1..Len(inbox'[v]) :
                           Fresh(v, inbox'[v][k]) => inbox'[v][k].task # a.task
                      /\ \A r \in runs'[v] : Fresh(v, r) => r.task # a.task
    BY <1>6 DEF AcksApart
  <2>1. ASSUME NEW k \in 1..Len(inbox'[v]), Fresh(v, inbox'[v][k])
        PROVE  inbox'[v][k].task # a.task
    <3>1. CASE a \in acks[v] /\ v # w
      <4>1. inbox'[v] = inbox[v]
        BY <1>3, <3>1
      <4>2. k \in 1..Len(inbox[v]) /\ Fresh(v, inbox[v][k])
        BY <2>1, <4>1
      <4> QED BY <3>1, <4>1, <4>2 DEF AcksApart
    <3>2. CASE a \in acks[v] /\ v = w
      <4>1. k + 1 \in 1..Len(inbox[w]) /\ inbox'[v][k] = inbox[w][k + 1]
        BY <1>3, <3>2
      <4> QED BY <2>1, <3>2, <4>1 DEF AcksApart
    <3>3. CASE v = w /\ Fresh(w, d) /\ a.task = d.task
      BY <1>7, <2>1, <3>3
    <3> QED BY <1>8, <3>1, <3>2, <3>3
  <2>2. ASSUME NEW r \in runs'[v], Fresh(v, r)
        PROVE  r.task # a.task
    <3>1. CASE a \in acks[v] /\ r \in runs[v]
      BY <2>2, <3>1 DEF AcksApart
    <3>2. CASE a \in acks[v] /\ v = w /\ r = d
      BY <1>7, <2>2, <3>2
    <3>3. CASE v = w /\ Fresh(w, d) /\ a.task = d.task /\ r \in runs[v]
      BY <1>3, <2>2, <3>3 DEF InboxApart
    <3>4. CASE a \notin acks[v] /\ r \notin runs[v]
      BY <1>8, <3>4
    <3> QED BY <1>8, <3>1, <3>2, <3>3, <3>4
  <2> QED BY <2>1, <2>2
<1> QED BY <1>8, <1>9, <1>10, <1>11, <1>12

LEMMA HandlerReturnsKeeps ==
  ASSUME TypeOK, DeliveriesInv, NEW w \in Workers, NEW d \in runs[w], HandlerReturns(w, d)
  PROVE  DeliveriesInv'
<1> USE DEF DeliveriesInv
<1>1. UNCHANGED <<place, conn, inbox>>
  BY DEF HandlerReturns, broker
<1>2. PICK todo \in {"requeue"} \cup Verdicts : Acknowledge(w, d, todo)
  BY OutcomesType DEF HandlerReturns
<1>3. d \in Deliveries /\ Sound(w, d)
  BY DeliveryTypes DEF RunsSound
<1>4. Fresh(w, d) => \A a \in acks[w] : a.task # d.task
  BY DEF AcksApart
<1>5. /\ AcksSound' /\ AcksUnique'
      /\ \A v \in Workers : \A a \in acks'[v] :
           a \in acks[v] \/ (v = w /\ Fresh(w, d) /\ a.task = d.task)
  BY <1>1, <1>2, <1>3, <1>4, AcknowledgeAdds
<1>6. \A v \in Workers : \A r \in runs'[v] : r \in runs[v] /\ ~(v = w /\ r = d)
  BY DEF HandlerReturns, TypeOK
<1>7. \A v \in Workers : \A e : (Fresh(v, e)' <=> Fresh(v, e)) /\ (Sound(v, e)' <=> Sound(v, e))
  BY <1>1 DEF Sound, Fresh
<1>8. InboxSound' /\ RunsSound' /\ InboxUnique' /\ InboxApart'
  BY <1>1, <1>6, <1>7 DEF InboxSound, RunsSound, InboxUnique, InboxApart
<1>9. AcksApart'
  <2> SUFFICES ASSUME NEW v \in Workers, NEW a \in acks'[v]
               PROVE  /\ \A k \in 1..Len(inbox[v]) :
                           Fresh(v, inbox[v][k]) => inbox[v][k].task # a.task
                      /\ \A r \in runs'[v] : Fresh(v, r) => r.task # a.task
    BY <1>1, <1>7 DEF AcksApart
  <2>1. CASE a \in acks[v]
    BY <1>6, <2>1 DEF AcksApart
  <2>2. CASE v = w /\ Fresh(w, d) /\ a.task = d.task
    <3>1. \A r \in runs'[w] : Fresh(w, r) => r.task # d.task
      BY <1>6, <2>2, RunsUnique
    <3> QED BY <2>2, <3>1 DEF InboxApart
  <2> QED BY <1>5, <2>1, <2>2
<1> QED BY <1>5, <1>8, <1>9

\* An acknowledgement that arrives moves a task nobody else holds.
LEMMA AckArrivesKeeps ==
  ASSUME TypeOK, DeliveriesInv, NEW w \in Workers, NEW a \in acks[w], AckArrives(w, a)
  PROVE  DeliveriesInv'
<1> USE DEF DeliveriesInv
<1>1. UNCHANGED <<conn, inbox, runs, verdicts>>
  BY DEF AckArrives, history
<1>2. \A v \in Workers : \A b \in acks'[v] : b \in acks[v] /\ ~(v = w /\ b = a)
  BY DEF AckArrives, TypeOK
<1>3. a.task \in Tasks /\ place[a.task] = w /\ PlaceAfter(a.todo) # "unsent"
  BY DeliveryTypes, PlaceAfterType DEF AcksSound
<1>4. /\ place'[a.task] = PlaceAfter(a.todo)
      /\ \A t \in Tasks \ {a.task} : place'[t] = place[t]
  BY <1>3, DeliveryTypes DEF AckArrives
<1>5. InboxUnique' /\ InboxApart' /\ AcksUnique' /\ AcksApart'
  BY <1>1, <1>2 DEF InboxUnique, InboxApart, AcksUnique, AcksApart, Fresh
<1>6. InboxSound'
  <2> SUFFICES ASSUME NEW v \in Workers, NEW k \in 1..Len(inbox[v])
               PROVE  Sound(v, inbox[v][k])'
    BY <1>1 DEF InboxSound
  <2>1. Fresh(v, inbox[v][k]) => inbox[v][k].task # a.task
    BY <1>3 DEF InboxSound, AcksApart, Sound
  <2> QED BY <1>1, <1>3, <1>4, <2>1, DeliveryTypes DEF InboxSound, Sound, Fresh
<1>7. RunsSound'
  <2> SUFFICES ASSUME NEW v \in Workers, NEW d \in runs[v]
               PROVE  Sound(v, d)'
    BY <1>1 DEF RunsSound
  <2>1. Fresh(v, d) => d.task # a.task
    BY <1>3 DEF RunsSound, AcksApart, Sound
  <2> QED BY <1>1, <1>3, <1>4, <2>1, DeliveryTypes DEF RunsSound, Sound, Fresh
<1>8. AcksSound'
  <2> SUFFICES ASSUME NEW v \in Workers, NEW b \in acks'[v]
               PROVE  place'[b.task] = v /\ (b.todo \in Verdicts => b.todo \in verdicts[b.task])
    BY <1>1 DEF AcksSound
  <2>1. b \in acks[v] /\ b.task \in Tasks /\ place[b.task] = v
    BY <1>2, DeliveryTypes DEF AcksSound
  <2>2. b.task # a.task
    BY <1>2, <1>3, <2>1 DEF AcksUnique
  <2> QED BY <1>4, <2>1, <2>2 DEF AcksSound
<1> QED BY <1>5, <1>6, <1>7, <1>8

\* A recovered connection makes what a worker holds stale.
LEMMA ConnectionBreaksKeeps ==
  ASSUME TypeOK, DeliveriesInv, NEW w \in Workers, ConnectionBreaks(w)
  PROVE  DeliveriesInv'
<1> USE DEF DeliveriesInv
<1>1. /\ conn' = [conn EXCEPT ![w] = @ + 1] /\ place' = Requeued(w)
      /\ acks'[w] = {} /\ \A v \in Workers \ {w} : acks'[v] = acks[v]
      /\ UNCHANGED <<runs, verdicts>>
  BY DEF ConnectionBreaks, history, TypeOK
<1>2. /\ conn'[w] = conn[w] + 1 /\ conn[w] \in Nat
      /\ \A v \in Workers \ {w} : conn'[v] = conn[v]
  BY <1>1, DeliveryTypes DEF TypeOK
<1>3. /\ inbox'[w] \in {inbox[w], <<>>}
      /\ \A v \in Workers \ {w} : inbox'[v] = inbox[v]
  BY DEF ConnectionBreaks, TypeOK
<1>4. \A t \in Tasks : /\ place[t] # "unsent" => place'[t] # "unsent"
                       /\ place[t] \in Workers \ {w} => place'[t] = place[t]
  BY <1>1, DeliveryTypes DEF Requeued
<1>5. \A d : Sound(w, d) /\ d.conn \in Nat => ~Fresh(w, d)'
  BY <1>2 DEF Sound, Fresh
<1>6. /\ \A k \in 1..Len(inbox'[w]) : k \in 1..Len(inbox[w]) /\ inbox'[w][k] = inbox[w][k]
      /\ \A k \in 1..Len(inbox'[w]) : Sound(w, inbox'[w][k]) /\ inbox'[w][k].conn \in Nat
                                      /\ inbox'[w][k].task \in Tasks
  BY <1>3, DeliveryTypes DEF InboxSound
<1>7. InboxSound'
  <2> SUFFICES ASSUME NEW v \in Workers, NEW k \in 1..Len(inbox'[v])
               PROVE  Sound(v, inbox[v][k])'
    BY DEF InboxSound
  <2>1. CASE v = w
    BY <1>2, <1>4, <1>5, <1>6, <2>1 DEF Sound
  <2>2. CASE v # w
    BY <1>2, <1>3, <1>4, <2>2, DeliveryTypes DEF InboxSound, Sound, Fresh
  <2> QED BY <2>1, <2>2
<1>8. RunsSound'
  <2> SUFFICES ASSUME NEW v \in Workers, NEW r \in runs[v]
               PROVE  Sound(v, r)'
    BY <1>1 DEF RunsSound
  <2>1. Sound(v, r) /\ r.conn \in Nat /\ r.task \in Tasks
    BY DeliveryTypes DEF RunsSound
  <2>2. CASE v = w
    BY <1>2, <1>4, <1>5, <2>1, <2>2 DEF Sound
  <2>3. CASE v # w
    BY <1>2, <1>4, <2>1, <2>3 DEF Sound, Fresh
  <2> QED BY <2>2, <2>3
<1>9. \A r \in runs[w] : ~Fresh(w, r)'
  BY <1>5, DeliveryTypes DEF RunsSound
<1>10. \A k \in 1..Len(inbox'[w]) : ~Fresh(w, inbox[w][k])'
  BY <1>5, <1>6
<1>11. \A v \in Workers \ {w} : \A e : Fresh(v, e)' <=> Fresh(v, e)
  BY <1>2 DEF Fresh
<1>12. InboxUnique'
  BY <1>3, <1>10, <1>11 DEF InboxUnique
<1>13. InboxApart'
  BY <1>1, <1>3, <1>9, <1>11 DEF InboxApart
<1>14. AcksSound' /\ AcksUnique'
  BY <1>1, <1>4, DeliveryTypes DEF AcksSound, AcksUnique
<1>15. AcksApart'
  BY <1>1, <1>3, <1>11 DEF AcksApart
<1> QED BY <1>7, <1>8, <1>12, <1>13, <1>14, <1>15

LEMMA CrashKeeps ==
  ASSUME TypeOK, DeliveriesInv, NEW w \in Workers, Crash(w)
  PROVE  DeliveriesInv'
<1> USE DEF DeliveriesInv
<1>1. /\ inbox'[w] = <<>> /\ runs'[w] = {} /\ acks'[w] = {}
      /\ \A v \in Workers \ {w} :
           inbox'[v] = inbox[v] /\ runs'[v] = runs[v] /\ acks'[v] = acks[v]
      /\ place' = Requeued(w) /\ UNCHANGED <<conn, verdicts>>
  BY DEF Crash, TypeOK, history
<1>2. \A t \in Tasks : /\ place[t] # "unsent" => place'[t] # "unsent"
                       /\ place[t] \in Workers \ {w} => place'[t] = place[t]
  BY <1>1, DeliveryTypes DEF Requeued
<1>3. InboxSound' /\ RunsSound'
  BY <1>1, <1>2, DeliveryTypes DEF InboxSound, RunsSound, Sound, Fresh
<1>4. InboxUnique' /\ InboxApart' /\ AcksUnique' /\ AcksApart'
  BY <1>1 DEF InboxUnique, InboxApart, AcksUnique, AcksApart, Fresh
<1>5. AcksSound'
  BY <1>1, <1>2, DeliveryTypes DEF AcksSound
<1> QED BY <1>3, <1>4, <1>5

LEMMA BrokerRestartsKeeps ==
  ASSUME TypeOK, DeliveriesInv, BrokerRestarts
  PROVE  DeliveriesInv'
<1> USE DEF DeliveriesInv
<1>1. UNCHANGED <<runs, verdicts>> /\ \A w \in Workers : acks'[w] = {}
  BY DEF BrokerRestarts, history
<1>2. \A w \in Workers : conn'[w] = conn[w] + 1 /\ conn[w] \in Nat
  BY DeliveryTypes DEF BrokerRestarts
<1>3. \A w \in Workers : \A k \in 1..Len(inbox'[w]) :
        k \in 1..Len(inbox[w]) /\ inbox'[w][k] = inbox[w][k]
  BY DEF BrokerRestarts
<1>4. \A t \in Tasks : place[t] # "unsent" => place'[t] # "unsent"
  BY DeliveryTypes DEF BrokerRestarts
<1>5. \A w \in Workers : \A d :
        Sound(w, d) /\ d.conn \in Nat /\ d.task \in Tasks => Sound(w, d)' /\ ~Fresh(w, d)'
  BY <1>2, <1>4 DEF Sound, Fresh
<1>6. \A w \in Workers : \A k \in 1..Len(inbox'[w]) :
        Sound(w, inbox[w][k])' /\ ~Fresh(w, inbox[w][k])'
  BY <1>3, <1>5, DeliveryTypes DEF InboxSound
<1>7. \A w \in Workers : \A r \in runs[w] : Sound(w, r)' /\ ~Fresh(w, r)'
  BY <1>5, DeliveryTypes DEF RunsSound
<1>8. AcksSound' /\ AcksUnique' /\ AcksApart'
  BY <1>1 DEF AcksSound, AcksUnique, AcksApart
<1> QED BY <1>1, <1>6, <1>7, <1>8 DEF InboxSound, RunsSound, InboxUnique, InboxApart

\* The broker puts only new tasks in the queue.
LEMMA AcceptedOnce ==
  ASSUME NEW t \in Tasks, BrokerAccepts(t)
  PROVE  place[t] = "unsent"
<1>1. t \in Nat /\ ~(t < t)
  BY DEF Tasks
<1> QED BY <1>1 DEF BrokerAccepts

\* DeliveriesInv is inductive on top of TypeOK.
LEMMA DeliveriesStep == TypeOK /\ DeliveriesInv /\ [Next]_vars => DeliveriesInv'
<1> SUFFICES ASSUME TypeOK, DeliveriesInv, [Next]_vars PROVE DeliveriesInv'
  OBVIOUS
<1>1. ASSUME NEW t \in Tasks,
             Publish(t) \/ PublishReturns(t) \/ PublishBreaks(t) \/ BrokerRefuses(t) \/ BrokerSaves(t)
      PROVE  DeliveriesInv'
  <2>1. UNCHANGED <<place, conn, inbox, runs, acks, verdicts>>
    BY <1>1 DEF Publish, PublishReturns, PublishBreaks, BrokerRefuses, BrokerSaves,
                broker, worker, acking, history
  <2> QED BY <2>1, WorkersUntouched
<1>2. ASSUME NEW t \in Tasks, BrokerAccepts(t) PROVE DeliveriesInv'
  <2>1. /\ place[t] = "unsent" /\ place' = [place EXCEPT ![t] = "ready"]
        /\ UNCHANGED <<conn, inbox, runs, acks, verdicts>>
    BY <1>2, AcceptedOnce DEF BrokerAccepts, worker, acking, history
  <2>2. "unsent" \notin Workers
    BY DEF Places
  <2> QED BY <2>1, <2>2, WorkersUntouched, DeliveryTypes
<1>3. ASSUME NEW w \in Workers, Restart(w) PROVE DeliveriesInv'
  <2>1. UNCHANGED <<place, conn, inbox, runs, acks, verdicts>>
    BY <1>3 DEF Restart, broker, acking, history
  <2> QED BY <2>1, WorkersUntouched
<1>4. CASE UNCHANGED vars
  <2>1. UNCHANGED <<place, conn, inbox, runs, acks, verdicts>>
    BY <1>4 DEF vars, broker, worker, acking, history
  <2> QED BY <2>1, WorkersUntouched
<1>5. ASSUME NEW w \in Workers, AckReturns(w) PROVE DeliveriesInv'
  <2>1. UNCHANGED <<place, conn, inbox, runs, acks, verdicts>>
    BY <1>5 DEF AckReturns, broker, history
  <2> QED BY <2>1, WorkersUntouched
<1> QED BY <1>1, <1>2, <1>3, <1>4, <1>5, DeliverKeeps, TakeKeeps, HandlerReturnsKeeps,
           AckArrivesKeeps, ConnectionBreaksKeeps, CrashKeeps, BrokerRestartsKeeps DEF Next

-----------------------------------------------------------------------------
(* Every step is a step of AtLeastOnce, or none.                           *)

\* What Status says of a task, read off place.
LEMMA StatusOf ==
  ASSUME TypeOK, NEW t \in Tasks
  PROVE  /\ place[t] = "unsent" <=> Status[t] = "none"
         /\ place[t] \in Workers \cup {"ready"} <=> Status[t] = "queued"
         /\ place[t] \notin Workers \cup {"unsent", "ready"} => Status[t] = place[t]
BY DEF Status, TypeOK, Places

\* Where a task is of no concern to the abstract queue, only that it is there.
LEMMA SameStatus ==
  ASSUME TypeOK, TypeOK',
         \A t \in Tasks : \/ place'[t] = place[t]
                          \/ {place[t], place'[t]} \subseteq Workers \cup {"ready"}
  PROVE  Status' = Status
<1>1. ASSUME NEW t \in Tasks PROVE Status'[t] = Status[t]
  BY DEF Status, Places
<1> QED BY <1>1 DEF Status

LEMMA StepRefines ==
  ASSUME IInv, IInv', DeliveriesInv, [Next]_vars
  PROVE  [Abstract!AbstractNext]_(Abstract!avars)
<1> USE DEF IInv
<1>1. ASSUME NEW t \in Tasks, PublishReturns(t)
      PROVE  \/ Abstract!Promise(t)
             \/ UNCHANGED <<Status, Promised, verdicts>>
  <2>1. UNCHANGED <<place, verdicts>> /\ Status' = Status
    BY <1>1, SameStatus DEF PublishReturns, broker, history
  <2>2. CASE Confirmed(t) /\ call' = [call EXCEPT ![t] = "ok"]
    <3>1. Status[t] \notin {"none", "lost"}
      BY <2>2, StatusOf DEF Confirmed, SavedIsKept
    <3>2. Promised' = Promised \cup {t}
      BY <2>2 DEF Promised, TypeOK
    <3> QED BY <2>1, <3>1, <3>2 DEF Abstract!Promise
  <2>3. CASE call' = [call EXCEPT ![t] = "err"]
    <3>1. Promised' = Promised
      BY <1>1, <2>3 DEF PublishReturns, Promised, TypeOK
    <3> QED BY <2>1, <3>1
  <2> QED BY <1>1, <2>2, <2>3 DEF PublishReturns
<1>2. ASSUME NEW t \in Tasks, Publish(t) \/ PublishBreaks(t)
      PROVE  UNCHANGED <<Status, Promised, verdicts>>
  <2>1. UNCHANGED <<place, verdicts>> /\ Status' = Status
    BY <1>2, SameStatus DEF Publish, PublishBreaks, broker, history
  <2>2. Promised' = Promised
    BY <1>2 DEF Publish, PublishBreaks, Promised, TypeOK
  <2> QED BY <2>1, <2>2
<1>3. ASSUME NEW t \in Tasks, BrokerAccepts(t)
      PROVE  Abstract!Accept(t)
  <2>1. /\ place[t] = "unsent" /\ place' = [place EXCEPT ![t] = "ready"]
        /\ UNCHANGED <<call, verdicts>>
    BY <1>3, AcceptedOnce DEF BrokerAccepts, history
  <2>2. Status[t] = "none" /\ Status' = [Status EXCEPT ![t] = "queued"]
    BY <2>1 DEF Status, TypeOK, Places
  <2> QED BY <2>1, <2>2 DEF Abstract!Accept, Promised
<1>4. ASSUME NEW t \in Tasks, BrokerRefuses(t) \/ BrokerSaves(t)
      PROVE  UNCHANGED <<Status, Promised, verdicts>>
  <2>1. UNCHANGED <<call, place, verdicts>>
    BY <1>4 DEF BrokerRefuses, BrokerSaves, broker, history
  <2> QED BY <2>1, SameStatus DEF Promised
<1>5. ASSUME NEW w \in Workers, NEW t \in Tasks, Deliver(w, t)
      PROVE  UNCHANGED <<Status, Promised, verdicts>>
  <2>1. /\ place[t] = "ready" /\ place' = [place EXCEPT ![t] = w]
        /\ UNCHANGED <<call, verdicts>>
    BY <1>5 DEF Deliver, history
  <2>2. \A u \in Tasks : \/ place'[u] = place[u]
                         \/ {place[u], place'[u]} \subseteq Workers \cup {"ready"}
    BY <2>1 DEF TypeOK
  <2> QED BY <2>1, <2>2, SameStatus DEF Promised
<1>6. ASSUME NEW w \in Workers, Take(w)
      PROVE  \/ \E t \in Tasks : Abstract!Decide(t, "drop")
             \/ UNCHANGED <<Status, Promised, verdicts>>
  <2> DEFINE d == Head(inbox[w])
  <2>1. UNCHANGED <<call, place>> /\ Status' = Status /\ Promised' = Promised
    BY <1>6, SameStatus DEF Take, broker, Promised
  <2>2. 1 \in 1..Len(inbox[w]) /\ d = inbox[w][1]
    BY <1>6, DeliveryTypes DEF Take
  <2>3. d.task \in Tasks /\ Status[d.task] # "none"
    BY <2>2, StatusOf, DeliveryTypes DEF DeliveriesInv, InboxSound, Sound
  <2>4. \/ verdicts' = [verdicts EXCEPT ![d.task] = @ \cup {"drop"}]
        \/ UNCHANGED verdicts
    <3>1. {"drop"} \cap Verdicts = {"drop"}
      BY DEF Verdicts
    <3> QED BY <1>6, <3>1 DEF Take, Discard, Acknowledge
  <2> HIDE DEF d
  <2> QED BY <2>1, <2>3, <2>4 DEF Abstract!Decide
<1>7. ASSUME NEW w \in Workers, NEW d \in runs[w], HandlerReturns(w, d)
      PROVE  \/ \E v \in Verdicts : Abstract!Decide(d.task, v)
             \/ UNCHANGED <<Status, Promised, verdicts>>
  <2>1. UNCHANGED <<call, place>> /\ Status' = Status /\ Promised' = Promised
    BY <1>7, SameStatus DEF HandlerReturns, broker, Promised
  <2>2. d.task \in Tasks /\ Status[d.task] # "none"
    BY StatusOf, DeliveryTypes DEF DeliveriesInv, RunsSound, Sound
  <2>3. PICK todo : verdicts' = [verdicts EXCEPT ![d.task] = @ \cup ({todo} \cap Verdicts)]
    BY <1>7 DEF HandlerReturns, Acknowledge
  <2>4. CASE todo \in Verdicts
    <3>1. {todo} \cap Verdicts = {todo}
      BY <2>4
    <3> QED BY <2>1, <2>2, <2>3, <2>4, <3>1 DEF Abstract!Decide
  <2>5. CASE todo \notin Verdicts
    <3>1. verdicts[d.task] \cup ({todo} \cap Verdicts) = verdicts[d.task]
      BY <2>5
    <3>2. verdicts' = verdicts
      BY <2>2, <2>3, <3>1, DeliveryTypes
    <3> QED BY <2>1, <3>2
  <2> QED BY <2>4, <2>5
<1>8. ASSUME NEW w \in Workers, NEW a \in acks[w], AckArrives(w, a)
      PROVE  \/ \E v \in Verdicts : Abstract!Settle(a.task, v)
             \/ UNCHANGED <<Status, Promised, verdicts>>
  <2>1. /\ UNCHANGED <<call, verdicts>> /\ Promised' = Promised
        /\ a.task \in Tasks /\ a.todo \in Verdicts \cup {"requeue"}
        /\ place' = [place EXCEPT ![a.task] = PlaceAfter(a.todo)]
    BY <1>8, DeliveryTypes DEF AckArrives, history, Promised
  <2>2. place[a.task] = w
    BY DEF DeliveriesInv, AcksSound
  <2>3. CASE a.todo = "requeue"
    <3>1. place' = [place EXCEPT ![a.task] = "ready"]
      BY <2>1, <2>3 DEF PlaceAfter
    <3>2. \A u \in Tasks : \/ place'[u] = place[u]
                           \/ {place[u], place'[u]} \subseteq Workers \cup {"ready"}
      BY <2>2, <3>1 DEF TypeOK
    <3> QED BY <2>1, <3>2, SameStatus
  <2>4. CASE a.todo \in Verdicts
    <3>1. place' = [place EXCEPT ![a.task] = a.todo]
      BY <2>1, <2>4 DEF PlaceAfter, Verdicts
    <3>2. a.todo \in verdicts[a.task]
      BY <2>4 DEF DeliveriesInv, AcksSound
    <3>3. Status[a.task] = "queued"
      BY <2>1, <2>2, StatusOf
    <3>4. Status' = [Status EXCEPT ![a.task] = a.todo]
      BY <2>1, <2>4, <3>1 DEF Status, TypeOK, Places, Verdicts
    <3> QED BY <2>1, <2>4, <3>2, <3>3, <3>4 DEF Abstract!Settle
  <2> QED BY <2>1, <2>3, <2>4
<1>9. ASSUME NEW w \in Workers, ConnectionBreaks(w) \/ Crash(w)
      PROVE  UNCHANGED <<Status, Promised, verdicts>>
  <2>1. place' = Requeued(w) /\ UNCHANGED <<call, verdicts>>
    BY <1>9 DEF ConnectionBreaks, Crash, history
  <2>2. \A u \in Tasks : \/ place'[u] = place[u]
                         \/ {place[u], place'[u]} \subseteq Workers \cup {"ready"}
    BY <2>1 DEF Requeued
  <2> QED BY <2>1, <2>2, SameStatus DEF Promised
<1>10. ASSUME NEW w \in Workers, Restart(w) \/ AckReturns(w)
      PROVE  UNCHANGED <<Status, Promised, verdicts>>
  <2>1. UNCHANGED <<call, place, verdicts>>
    BY <1>10 DEF Restart, AckReturns, broker, history
  <2> QED BY <2>1, SameStatus DEF Promised
<1>11. ASSUME UNCHANGED vars
      PROVE  UNCHANGED <<Status, Promised, verdicts>>
  <2>1. UNCHANGED <<call, place, verdicts>>
    BY <1>11 DEF vars, broker, history
  <2> QED BY <2>1, SameStatus DEF Promised
<1>12. ASSUME BrokerRestarts
      PROVE  \E S \in SUBSET Tasks : Abstract!Lose(S)
  <2> DEFINE S == {t \in Tasks : place[t] \in Workers \cup {"ready"} /\ t \notin saved}
  <2>1. UNCHANGED <<call, verdicts>> /\ Promised' = Promised
    BY <1>12 DEF BrokerRestarts, history, Promised
  <2>2. \A t \in S : Status[t] = "queued" /\ t \notin Promised
    BY StatusOf DEF Promised, OkMeansSaved
  <2>3. Status' = [t \in Tasks |-> IF t \in S THEN "lost" ELSE Status[t]]
    <3>1. place' = [t \in Tasks |->
                     IF place[t] \in Workers \cup {"ready"}
                     THEN IF t \in saved THEN "ready" ELSE "lost"
                     ELSE place[t]]
      BY <1>12 DEF BrokerRestarts, Retained
    <3>2. ASSUME NEW t \in Tasks
          PROVE  Status'[t] = IF t \in S THEN "lost" ELSE Status[t]
      BY <3>1 DEF Status, Places, TypeOK
    <3> QED BY <3>2 DEF Status
  <2> QED BY <2>1, <2>2, <2>3 DEF Abstract!Lose
<1> DEFINE Refined == [Abstract!AbstractNext]_(Abstract!avars)
<1>13. UNCHANGED <<Status, Promised, verdicts>> => Refined
  BY DEF Abstract!avars
<1>14. /\ \A t \in Tasks : Abstract!Accept(t) \/ Abstract!Promise(t) => Refined
       /\ \A t \in Tasks, v \in Verdicts :
            Abstract!Decide(t, v) \/ Abstract!Settle(t, v) => Refined
       /\ \A S \in SUBSET Tasks : Abstract!Lose(S) => Refined
  BY DEF Abstract!AbstractNext, Abstract!Verdicts, Verdicts
<1>15. \A w \in Workers : /\ \A d \in runs[w] : d.task \in Tasks
                         /\ \A a \in acks[w] : a.task \in Tasks
  BY DeliveryTypes
<1>16. "drop" \in Verdicts
  BY DEF Verdicts
<1> HIDE DEF Refined
<1>17. ASSUME NEW t \in Tasks,
              \/ Publish(t) \/ PublishReturns(t) \/ PublishBreaks(t)
              \/ BrokerAccepts(t) \/ BrokerRefuses(t) \/ BrokerSaves(t)
       PROVE  Refined
  BY <1>1, <1>2, <1>3, <1>4, <1>13, <1>14, <1>17
<1>18. ASSUME NEW w \in Workers,
              \/ \E t \in Tasks : Deliver(w, t)
              \/ Take(w) \/ AckReturns(w)
              \/ ConnectionBreaks(w) \/ Crash(w) \/ Restart(w)
       PROVE  Refined
  BY <1>5, <1>6, <1>9, <1>10, <1>13, <1>14, <1>16, <1>18
<1>19. ASSUME NEW w \in Workers,
              \/ \E d \in runs[w] : HandlerReturns(w, d)
              \/ \E a \in acks[w] : AckArrives(w, a)
       PROVE  Refined
  BY <1>7, <1>8, <1>13, <1>14, <1>15, <1>19
<1>20. ASSUME Next PROVE Refined
  BY <1>12, <1>14, <1>17, <1>18, <1>19, <1>20 DEF Next
<1>21. ASSUME UNCHANGED vars PROVE Refined
  BY <1>11, <1>13, <1>21
<1>22. Refined
  BY <1>20, <1>21
<1> QED BY <1>22 DEF Refined

LEMMA InitRefines == Init => Abstract!AbstractInit
BY DEF Init, Abstract!AbstractInit, Status, Promised, Places

\* The agreement of broker and workers on what is being delivered, with
\* acknowledgements that arrive before or after the call that sent them returns.
THEOREM DeliveriesAgree == Spec => []DeliveriesInv
BY TypeCorrect, DeliveriesInit, DeliveriesStep, PTL DEF Spec

\* The task queue implements AtLeastOnce: through broken connections, crashes
\* and restarts, tasks leave the queue as decided, and what was promised stays.
THEOREM Refinement == Spec => ImplementsAtLeastOnce
<1>1. IInv /\ IInv' /\ DeliveriesInv /\ [Next]_vars => [Abstract!AbstractNext]_(Abstract!avars)
  BY StepRefines
<1> QED BY <1>1, InitRefines, Invariance, DeliveriesAgree, PTL
        DEF Spec, ImplementsAtLeastOnce, Abstract!AbstractSpec

-----------------------------------------------------------------------------
(* What the abstract queue says of this one.                               *)

Settled(t) == Status[t] \in Verdicts

\* A promised task waits to be settled or is settled, and a settled one is so
\* as some handler decided.
KeptUntilDecided ==
  /\ \A t \in Promised : Status[t] = "queued" \/ Settled(t)
  /\ \A t \in Tasks : Settled(t) => Status[t] \in verdicts[t]

\* What is settled stays as it is: no reconnection brings it back to a worker,
\* and no second acknowledgement changes it.  An acknowledgement that a
\* restarted broker has forgotten is not modelled: such a task is queued again.
SettledOnce == \A t \in Tasks : Settled(t) => Status'[t] = Status[t]

LEMMA AbstractStep ==
  ASSUME Abstract!AbstractTypeOK, KeptUntilDecided, [Abstract!AbstractNext]_(Abstract!avars)
  PROVE  Abstract!AbstractTypeOK' /\ KeptUntilDecided' /\ SettledOnce
<1> USE DEF Abstract!AbstractTypeOK, Abstract!Statuses, Abstract!Verdicts, Verdicts, Settled,
            KeptUntilDecided, SettledOnce
<1> HIDE DEF Status, Promised
<1>1. ASSUME NEW t \in Tasks, Abstract!Accept(t) \/ Abstract!Promise(t)
      PROVE  Abstract!AbstractTypeOK' /\ KeptUntilDecided' /\ SettledOnce
  BY <1>1 DEF Abstract!Accept, Abstract!Promise
<1>2. ASSUME NEW t \in Tasks, NEW v \in Abstract!Verdicts,
             Abstract!Decide(t, v) \/ Abstract!Settle(t, v)
      PROVE  Abstract!AbstractTypeOK' /\ KeptUntilDecided' /\ SettledOnce
  BY <1>2 DEF Abstract!Decide, Abstract!Settle
<1>3. ASSUME NEW S \in SUBSET Tasks, Abstract!Lose(S)
      PROVE  Abstract!AbstractTypeOK' /\ KeptUntilDecided' /\ SettledOnce
  BY <1>3 DEF Abstract!Lose
<1>4. CASE UNCHANGED Abstract!avars
  BY <1>4 DEF Abstract!avars
<1> QED BY <1>1, <1>2, <1>3, <1>4 DEF Abstract!AbstractNext

\* Whatever breaks, a task is settled once, as a handler decided, and not
\* before it was accepted: this follows from the abstract queue alone.
THEOREM SettledAsDecided == Spec => []KeptUntilDecided /\ [][SettledOnce]_(Abstract!avars)
<1>1. Abstract!AbstractInit => Abstract!AbstractTypeOK /\ KeptUntilDecided
  BY DEF Abstract!AbstractInit, Abstract!AbstractTypeOK, Abstract!Statuses,
         KeptUntilDecided, Settled, Verdicts
<1>2. Abstract!AbstractTypeOK /\ KeptUntilDecided /\ [Abstract!AbstractNext]_(Abstract!avars)
        => Abstract!AbstractTypeOK' /\ KeptUntilDecided' /\ SettledOnce
  BY AbstractStep
<1> QED BY <1>1, <1>2, Refinement, PTL DEF ImplementsAtLeastOnce, Abstract!AbstractSpec

-----------------------------------------------------------------------------
(* No delivery waits behind handlers.                                      *)

\* As long as w's connection has not been recovered, everything it holds is of
\* that connection, so the deliveries whose handlers run and the one that waits
\* are of different tasks, all unacked at w.
LEMMA WaitingHasSlot ==
  ASSUME TypeOK, DeliveriesInv, QosKept, Prefetch > 0,
         NEW w \in Workers, conn[w] = 0, inbox[w] # <<>>
  PROVE  Cardinality(runs[w]) < Slots
<1> DEFINE h == inbox[w][1].task
           rest == Unacked(w) \ {h}
           task == [r \in runs[w] |-> r.task]
<1>1. Len(inbox[w]) > 0 /\ 1 \in 1..Len(inbox[w])
  BY DeliveryTypes
<1>2. \A d : Sound(w, d) /\ d.conn \in Nat => Fresh(w, d)
  BY DEF Sound, Fresh
<1>3. Fresh(w, inbox[w][1]) /\ h \in Unacked(w)
  <2>1. Sound(w, inbox[w][1]) /\ inbox[w][1].conn \in Nat /\ h \in Tasks
    BY <1>1, DeliveryTypes DEF DeliveriesInv, InboxSound
  <2> QED BY <1>2, <2>1 DEF Sound, Unacked
<1>4. ASSUME NEW r \in runs[w] PROVE Fresh(w, r) /\ r.task \in rest
  <2>1. Sound(w, r) /\ r.conn \in Nat /\ r.task \in Tasks
    BY DeliveryTypes DEF DeliveriesInv, RunsSound
  <2>2. Fresh(w, r) /\ r.task \in Unacked(w)
    BY <1>2, <2>1 DEF Sound, Unacked
  <2>3. r.task # h
    BY <1>1, <1>3, <2>2 DEF DeliveriesInv, InboxApart
  <2> QED BY <2>2, <2>3
<1>5. task \in Injection(runs[w], rest)
  <2>1. task \in [runs[w] -> rest]
    BY <1>4
  <2>2. \A r, s \in runs[w] : task[r] = task[s] => r = s
    BY <1>4, RunsUnique
  <2> HIDE DEF task, rest
  <2> QED BY <2>1, <2>2 DEF Injection, IsInjective
<1>6. IsFiniteSet(rest) /\ Cardinality(rest) = Cardinality(Unacked(w)) - 1
  BY <1>3, UnackedFinite, FS_RemoveElement
<1> HIDE DEF task, rest, h
<1>7. IsFiniteSet(runs[w]) /\ Cardinality(runs[w]) <= Cardinality(rest)
  BY <1>5, <1>6, FS_Injection
<1>8. Cardinality(runs[w]) \in Nat /\ Cardinality(Unacked(w)) <= Prefetch
  BY <1>7, FS_CardinalityType DEF QosKept
<1> QED BY <1>6, <1>7, <1>8, UnackedFinite DEF Slots

\* With a positive prefetch count no delivery in a worker's stream waits behind
\* running handlers, in every run until a connection is recovered under a
\* worker, whatever workers crash and however late an ack returns.
THEOREM NoHandlerDelays ==
  ASSUME Prefetch > 0
  PROVE  Spec => [](breaks = 0 /\ restarts = 0 => NoDeliveryWaits)
<1>1. TypeOK /\ DeliveriesInv /\ QosKept =>
        (breaks = 0 /\ restarts = 0 => NoDeliveryWaits)
  <2> SUFFICES ASSUME TypeOK, DeliveriesInv, QosKept, breaks = 0, restarts = 0,
                      NEW w \in Workers, inbox[w] # <<>>
               PROVE  Cardinality(runs[w]) < Slots
    BY DEF NoDeliveryWaits
  <2>1. conn[w] = 0
    BY DEF TypeOK
  <2> QED BY <2>1, WaitingHasSlot
<1> QED BY <1>1, TypeCorrect, DeliveriesAgree, HeldAtMostPrefetch, PTL

=============================================================================
