------------------------- MODULE RpcConsumerProofs -------------------------
(***************************************************************************)
(* Proofs about the request consumer for every number of replicas,         *)
(* requests, crashes and reassignments and every batch size.               *)
(*                                                                         *)
(* The safety properties are not inductive: CrashLossBound needs to know   *)
(* that whatever is below the stored offset was taken by someone, which    *)
(* needs that stores trail the stream (StoresTrail) and that polls leave   *)
(* no gap (NothingSkipped).  TakenOncePerAssignment needs to count who may *)
(* still take a request (TakesAccounted).  IInv is the conjunction of      *)
(* these facts.                                                            *)
(***************************************************************************)
EXTENDS RpcConsumer, TLAPS, FiniteSetTheorems

\* A buffer holds what the stream has not yielded, the store task only what
\* it has.
BuffersAhead == \A i \in Instances : \A b \in buffer[i] : cursor[i] < b
StoresTrail == \A i \in Instances : \A o \in toStore[i] : o <= cursor[i]

\* Whatever lies before a stored offset, a cursor or a buffered request, and
\* is not buffered itself, was taken by some replica.
NothingSkipped ==
  \A m \in Messages :
    /\ m <= committed => taken[m] > 0
    /\ \A i \in Instances :
         /\ m <= cursor[i] => taken[m] > 0
         /\ m \notin buffer[i] /\ (\E b \in buffer[i] : m < b) => taken[m] > 0

\* A request that was taken is decided, in flight, or fell with its replica.
TakenAccounted ==
  \A m \in Messages :
    taken[m] > 0 => \/ fate[m] # {} \/ m \in abandoned
                    \/ \E i \in Instances : stage[i][m] # "none"

FlightsBounded == \A i \in Instances : Cardinality(InFlight(i)) <= BatchSize
AbandonedBounded == Cardinality(abandoned) <= crashes * BatchSize

\* Until an assignment moves between live members only the owner has requests
\* to take or offsets to store, and what it has to take is not stored.
OnlyOwnerWorks ==
  moves = 0 =>
    \A i \in Instances :
      /\ buffer[i] # {} \/ toStore[i] # {} => owner = i
      /\ \A b \in buffer[i] : committed < b

\* The gate asks before the server stamps, the server stamps before now, and
\* nothing happens to a request before it is sent.
StampsOrdered == \A m \in Messages : askedAt[m] <= sentAt[m] /\ sentAt[m] <= now
UnsentUntouched ==
  \A m \in Messages :
    m > produced => fate[m] = {} /\ \A i \in Instances : stage[i][m] = "none"

\* Who may still take m as things stand: a replica that holds it in its
\* buffer, the owner if its stream has not passed m, and, while nobody owns the
\* partition, the owner to come.
MayTake(m) ==
  {i \in Instances \cup {NoOwner} :
     \/ i = owner /\ (i \in Instances => cursor[i] < m)
     \/ i \in Instances /\ m \in buffer[i]}

\* Every further candidate was paid for by a crash or a reassignment, and
\* whoever takes m is a candidate no more.
TakesAccounted ==
  \A m \in Messages : taken[m] + Cardinality(MayTake(m)) <= 1 + crashes + moves

LossInv == NothingSkipped /\ TakenAccounted
BoundInv == FlightsBounded /\ AbandonedBounded
IInv ==
  /\ TypeOK /\ BuffersAhead /\ StoresTrail
  /\ LossInv /\ BoundInv /\ OnlyOwnerWorks
  /\ StampsOrdered /\ UnsentUntouched /\ TakesAccounted

-----------------------------------------------------------------------------
(* Lemmas on the steps.                                                    *)

USE ConstantsAssumption

\* Whatever the closure does with a request, its stage stays a stage and its
\* fate only grows.
LEMMA ReplyType ==
  ASSUME TypeOK, NEW i \in Instances, NEW m \in Messages, Reply(i, m)
  PROVE  /\ stage' \in [Instances -> [Messages -> Stages]]
         /\ fate' \in [Messages -> SUBSET Fates]
<1>1. CASE MoveTo(i, m, "sending") /\ UNCHANGED fate
  BY <1>1 DEF MoveTo, TypeOK, Stages
<1>2. CASE MoveTo(i, m, "none") /\ Settle(m, "unbuilt")
  <2>1. stage' \in [Instances -> [Messages -> Stages]]
    BY <1>2 DEF MoveTo, TypeOK, Stages
  <2>2. fate' \in [Messages -> SUBSET Fates]
    BY <1>2 DEF Settle, TypeOK, Fates
  <2> QED BY <2>1, <2>2
<1> QED BY <1>1, <1>2 DEF Reply

\* TypeOK is inductive by itself.
LEMMA TypeInit == Init => TypeOK
BY DEF Init, TypeOK, Stages, Fates

LEMMA TypeStep == TypeOK /\ [Next]_vars => TypeOK'
<1> SUFFICES ASSUME TypeOK, [Next]_vars PROVE TypeOK'
  OBVIOUS
<1> USE DEF environment, group, client, history
<1>1. CASE Tick
  BY <1>1 DEF Tick, TypeOK
<1>2. CASE Append
  <2>1. /\ produced' \in 0..MaxMessages
        /\ 0..produced \subseteq 0..produced'
        /\ 1..produced \subseteq 1..produced'
    BY <1>2 DEF Append, TypeOK
  <2>2. /\ committed' \in 0..produced'
        /\ cursor' \in [Instances -> 0..produced']
        /\ buffer' \in [Instances -> SUBSET (1..produced')]
        /\ toStore' \in [Instances -> SUBSET (1..produced')]
    BY <1>2, <2>1 DEF Append, TypeOK
  <2>3. /\ askedAt' \in [Messages -> 0..MaxTime]
        /\ sentAt' \in [Messages -> 0..MaxTime]
    <3>1. PICK t \in 0..now : askedAt' = [askedAt EXCEPT ![produced + 1] = t]
      BY <1>2 DEF Append
    <3>2. t \in 0..MaxTime /\ now \in 0..MaxTime
      BY DEF TypeOK
    <3>3. sentAt' = [sentAt EXCEPT ![produced + 1] = now]
      BY <1>2 DEF Append
    <3> QED BY <3>1, <3>2, <3>3 DEF TypeOK
  <2>4. UNCHANGED <<now, owner, up, stage, fate, taken, abandoned, crashes, moves>>
    BY <1>2 DEF Append
  <2> QED BY <2>1, <2>2, <2>3, <2>4 DEF TypeOK
<1>3. ASSUME NEW i \in Instances, Assign(i) PROVE TypeOK'
  BY <1>3 DEF Assign, TypeOK
<1>4. ASSUME NEW i \in Instances, Poll(i) PROVE TypeOK'
  BY <1>4 DEF Poll, TypeOK, Fetched, StoredWhenPolled
<1>5. ASSUME NEW i \in Instances, StoreOffset(i) PROVE TypeOK'
  BY <1>5 DEF StoreOffset, TypeOK
<1>6. ASSUME NEW i \in Instances, Take(i) PROVE TypeOK'
  <2>1. PICK m \in buffer[i] :
          /\ buffer' = [buffer EXCEPT ![i] = @ \ {m}]
          /\ cursor' = [cursor EXCEPT ![i] = m]
          /\ toStore' = [toStore EXCEPT ![i] = @ \cup StoredWhenTaken(m)]
          /\ taken' = [taken EXCEPT ![m] = @ + 1]
          /\ \/ (Settle(m, "stale") \/ Settle(m, "undecodable")) /\ UNCHANGED stage
             \/ Reply(i, m)
             \/ MoveTo(i, m, "handling") /\ UNCHANGED fate
    BY <1>6 DEF Take
  <2>2. m \in Messages /\ m \in 1..produced
    BY <2>1 DEF TypeOK, Messages
  <2>3. /\ stage' \in [Instances -> [Messages -> Stages]]
        /\ fate' \in [Messages -> SUBSET Fates]
    <3>1. CASE (Settle(m, "stale") \/ Settle(m, "undecodable")) /\ UNCHANGED stage
      BY <3>1, <2>2 DEF Settle, TypeOK, Fates
    <3>2. CASE Reply(i, m)
      BY <3>2, <2>2, ReplyType
    <3>3. CASE MoveTo(i, m, "handling") /\ UNCHANGED fate
      BY <3>3, <2>2 DEF MoveTo, TypeOK, Stages
    <3> QED BY <2>1, <3>1, <3>2, <3>3
  <2>4. UNCHANGED <<now, produced, askedAt, sentAt, committed, owner, up,
                    abandoned, crashes, moves>>
    BY <1>6 DEF Take
  <2>5. /\ cursor' \in [Instances -> 0..produced]
        /\ buffer' \in [Instances -> SUBSET (1..produced)]
        /\ toStore' \in [Instances -> SUBSET (1..produced)]
        /\ taken' \in [Messages -> Nat]
    BY <2>1, <2>2 DEF TypeOK, StoredWhenTaken
  <2> QED BY <2>3, <2>4, <2>5 DEF TypeOK
<1>7. ASSUME NEW i \in Instances, Crash(i) PROVE TypeOK'
  BY <1>7 DEF Crash, TypeOK, Stages, InFlight
<1>8. ASSUME NEW i \in Instances, Restart(i) PROVE TypeOK'
  BY <1>8 DEF Restart, TypeOK
<1>9. ASSUME NEW i \in Instances, NEW m \in Messages, HandlerReturns(i, m)
      PROVE TypeOK'
  <2>1. Reply(i, m)
    BY <1>9 DEF HandlerReturns
  <2> QED BY <1>9, <2>1, ReplyType DEF HandlerReturns, TypeOK
<1>10. ASSUME NEW i \in Instances, NEW m \in Messages, SendReturns(i, m)
       PROVE TypeOK'
  <2>1. stage' \in [Instances -> [Messages -> Stages]]
    BY <1>10 DEF SendReturns, MoveTo, TypeOK, Stages
  <2>2. fate' \in [Messages -> SUBSET Fates]
    BY <1>10 DEF SendReturns, Settle, TypeOK, Fates
  <2> QED BY <1>10, <2>1, <2>2 DEF SendReturns, TypeOK
<1>11. CASE UNCHANGED vars
  BY <1>11 DEF vars, TypeOK
<1> QED BY <1>1, <1>2, <1>3, <1>4, <1>5, <1>6, <1>7, <1>8, <1>9, <1>10, <1>11
        DEF Next

\* The consumer's state is well typed in every reachable state.
THEOREM TypeCorrect == Spec => []TypeOK
BY TypeInit, TypeStep, PTL DEF Spec

-----------------------------------------------------------------------------
(* What a step of the closure does to the request it is about.             *)

\* Only the future of m at i moves and only the fate of m grows; m is skipped
\* only if it is stale and ends the step decided or in flight.
Advances(i, m) ==
  /\ \A j \in Instances, n \in Messages :
       j # i \/ n # m => stage'[j][n] = stage[j][n]
  /\ \A n \in Messages : n # m => fate'[n] = fate[n]
  /\ fate[m] \subseteq fate'[m]
  /\ "stale" \in fate'[m] => "stale" \in fate[m] \/ Stale(m)
  /\ fate'[m] # {} \/ stage'[i][m] # "none"

LEMMA SettleAdvances ==
  ASSUME TypeOK, NEW i \in Instances, NEW m \in Messages, NEW f,
         Settle(m, f), f # "stale" \/ Stale(m), MoveTo(i, m, "none") \/ UNCHANGED stage
  PROVE  Advances(i, m)
BY DEF TypeOK, Settle, MoveTo, Advances

LEMMA MoveAdvances ==
  ASSUME TypeOK, NEW i \in Instances, NEW m \in Messages, UNCHANGED fate,
         MoveTo(i, m, "sending") \/ MoveTo(i, m, "handling")
  PROVE  Advances(i, m)
BY DEF TypeOK, MoveTo, Advances

LEMMA ReplyAdvances ==
  ASSUME TypeOK, NEW i \in Instances, NEW m \in Messages, Reply(i, m)
  PROVE  Advances(i, m)
BY SettleAdvances, MoveAdvances DEF Reply

LEMMA ReturnsAdvance ==
  ASSUME TypeOK, NEW i \in Instances, NEW m \in Messages,
         HandlerReturns(i, m) \/ SendReturns(i, m)
  PROVE  /\ Advances(i, m)
         /\ stage[i][m] # "none"
         /\ UNCHANGED <<environment, group, cursor, buffer, toStore, history>>
<1>1. CASE HandlerReturns(i, m)
  BY <1>1, ReplyAdvances DEF HandlerReturns
<1>2. CASE SendReturns(i, m)
  BY <1>2, SettleAdvances DEF SendReturns
<1> QED BY <1>1, <1>2

\* Taking the next request of the buffer: its offset goes to the store task.
Takes(i, m) ==
  /\ HasSlot(i) /\ IsNext(i, m)
  /\ buffer' = [buffer EXCEPT ![i] = @ \ {m}]
  /\ cursor' = [cursor EXCEPT ![i] = m]
  /\ toStore' = [toStore EXCEPT ![i] = @ \cup {m}]
  /\ taken' = [taken EXCEPT ![m] = @ + 1]
  /\ Advances(i, m)
  /\ UNCHANGED <<environment, group, abandoned, crashes, moves>>

LEMMA TakeTakes ==
  ASSUME TypeOK, NEW i \in Instances, Take(i)
  PROVE  \E m \in Messages : Takes(i, m)
<1>1. PICK m \in buffer[i] :
        /\ IsNext(i, m)
        /\ buffer' = [buffer EXCEPT ![i] = @ \ {m}]
        /\ cursor' = [cursor EXCEPT ![i] = m]
        /\ toStore' = [toStore EXCEPT ![i] = @ \cup StoredWhenTaken(m)]
        /\ taken' = [taken EXCEPT ![m] = @ + 1]
        /\ \/ Stale(m) /\ Settle(m, "stale") /\ UNCHANGED stage
           \/ Settle(m, "undecodable") /\ UNCHANGED stage
           \/ Reply(i, m)
           \/ MoveTo(i, m, "handling") /\ UNCHANGED fate
  BY DEF Take
<1>2. m \in Messages
  BY <1>1 DEF TypeOK, Messages
<1>3. Advances(i, m)
  BY <1>1, <1>2, SettleAdvances, MoveAdvances, ReplyAdvances
<1>4. HasSlot(i) /\ UNCHANGED <<environment, group, abandoned, crashes, moves>>
  BY DEF Take
<1> QED BY <1>1, <1>2, <1>3, <1>4 DEF Takes, StoredWhenTaken

-----------------------------------------------------------------------------
(* The parts of the inductive invariant, one lemma each.                   *)

\* Offsets are buffered, taken and stored in order.
LEMMA OrderStep ==
  ASSUME TypeOK, BuffersAhead, StoresTrail, [Next]_vars
  PROVE  (BuffersAhead /\ StoresTrail)'
<1> USE DEF environment, group, client, history, BuffersAhead, StoresTrail
<1>1. CASE Tick \/ Append \/ UNCHANGED vars
  BY <1>1 DEF Tick, Append, vars
<1>2. ASSUME NEW i \in Instances, Assign(i) \/ Restart(i)
      PROVE (BuffersAhead /\ StoresTrail)'
  BY <1>2 DEF Assign, Restart
<1>3. ASSUME NEW i \in Instances, Poll(i)
      PROVE (BuffersAhead /\ StoresTrail)'
  BY <1>3 DEF Poll, Fetched, StoredWhenPolled, TypeOK
<1>4. ASSUME NEW i \in Instances, StoreOffset(i)
      PROVE (BuffersAhead /\ StoresTrail)'
  BY <1>4 DEF StoreOffset, TypeOK
<1>5. ASSUME NEW i \in Instances, Take(i)
      PROVE (BuffersAhead /\ StoresTrail)'
  <2>1. PICK m \in Messages : Takes(i, m)
    BY <1>5, TakeTakes
  <2>2. m \in buffer[i] /\ \A n \in buffer[i] : m <= n
    BY <2>1 DEF Takes, IsNext
  <2>3. m \in Int /\ \A n \in buffer[i] : n \in Int
    BY <2>2 DEF TypeOK
  <2>4. cursor[i] < m /\ cursor[i] \in Int /\ \A o \in toStore[i] : o \in Int
    BY <2>2 DEF TypeOK
  <2>5. BuffersAhead'
    BY <2>1, <2>2, <2>3 DEF Takes, TypeOK
  <2>6. StoresTrail'
    BY <2>1, <2>2, <2>3, <2>4 DEF Takes, TypeOK
  <2> QED BY <2>5, <2>6
<1>6. ASSUME NEW i \in Instances, Crash(i)
      PROVE (BuffersAhead /\ StoresTrail)'
  BY <1>6 DEF Crash, TypeOK
<1>7. ASSUME NEW i \in Instances, NEW m \in Messages,
             HandlerReturns(i, m) \/ SendReturns(i, m)
      PROVE (BuffersAhead /\ StoresTrail)'
  BY <1>7, ReturnsAdvance
<1> QED BY <1>1, <1>2, <1>3, <1>4, <1>5, <1>6, <1>7 DEF Next

\* A stored offset never passes a request that nobody took.
LEMMA SkippedStep ==
  ASSUME TypeOK, BuffersAhead, StoresTrail, NothingSkipped, [Next]_vars
  PROVE  NothingSkipped'
<1> USE DEF environment, group, client, history, NothingSkipped
<1>1. CASE Tick \/ Append \/ UNCHANGED vars
  BY <1>1 DEF Tick, Append, vars
<1>2. ASSUME NEW i \in Instances, Assign(i) \/ Restart(i) PROVE NothingSkipped'
  BY <1>2 DEF Assign, Restart
<1>3. ASSUME NEW i \in Instances, Poll(i) PROVE NothingSkipped'
  <2>1. buffer' = [buffer EXCEPT ![i] = Fetched(i)] /\ UNCHANGED <<committed, cursor, taken>>
    BY <1>3 DEF Poll
  <2>2. ASSUME NEW m \in Messages, NEW b \in Fetched(i), m < b, m \notin Fetched(i)
        PROVE  taken[m] > 0
    <3>1. m <= committed \/ m <= cursor[i]
      BY <2>2 DEF Fetched, PollBase, TypeOK, Messages
    <3> QED BY <3>1
  <2> QED BY <2>1, <2>2 DEF TypeOK
<1>4. ASSUME NEW i \in Instances, StoreOffset(i) PROVE NothingSkipped'
  <2>1. PICK o \in toStore[i] : committed' = o
    BY <1>4 DEF StoreOffset
  <2>2. ASSUME NEW m \in Messages, m <= o PROVE taken[m] > 0
    <3>1. m <= cursor[i]
      BY <2>2 DEF StoresTrail, TypeOK, Messages
    <3> QED BY <3>1
  <2> QED BY <1>4, <2>1, <2>2 DEF StoreOffset
<1>5. ASSUME NEW i \in Instances, Take(i) PROVE NothingSkipped'
  <2>1. PICK m \in Messages : Takes(i, m)
    BY <1>5, TakeTakes
  <2>2. m \in buffer[i] /\ \A n \in buffer[i] : m <= n
    BY <2>1 DEF Takes, IsNext
  <2>3. \A n \in Messages : n \in Int /\ taken[n] \in Nat
    BY DEF TypeOK, Messages
  <2>4. taken'[m] > 0 /\ \A n \in Messages : taken[n] > 0 => taken'[n] > 0
    BY <2>1, <2>3 DEF Takes, TypeOK
  <2>5. ASSUME NEW n \in Messages, n <= m PROVE taken'[n] > 0
    <3>1. CASE n = m
      BY <3>1, <2>4
    <3>2. CASE n < m
      <4>1. n \notin buffer[i]
        BY <3>2, <2>2, <2>3
      <4> QED BY <4>1, <3>2, <2>2, <2>4
    <3> QED BY <2>5, <3>1, <3>2, <2>3
  <2>6. ASSUME NEW n \in Messages, n <= committed' PROVE taken'[n] > 0
    BY <2>1, <2>6, <2>4 DEF Takes
  <2>7. ASSUME NEW n \in Messages, NEW j \in Instances, n <= cursor'[j]
        PROVE  taken'[n] > 0
    BY <2>1, <2>4, <2>5, <2>7 DEF Takes, TypeOK
  <2>8. ASSUME NEW n \in Messages, NEW j \in Instances, n \notin buffer'[j],
               NEW b \in buffer'[j], n < b
        PROVE  taken'[n] > 0
    <3>1. CASE n = m
      BY <3>1, <2>4
    <3>2. CASE n # m
      <4>1. n \notin buffer[j] /\ b \in buffer[j]
        BY <2>1, <2>8, <3>2 DEF Takes, TypeOK
      <4> QED BY <4>1, <2>8, <2>4
    <3> QED BY <3>1, <3>2
  <2> QED BY <2>6, <2>7, <2>8
<1>6. ASSUME NEW i \in Instances, Crash(i) PROVE NothingSkipped'
  BY <1>6 DEF Crash, TypeOK, Messages
<1>7. ASSUME NEW i \in Instances, NEW m \in Messages,
             HandlerReturns(i, m) \/ SendReturns(i, m)
      PROVE NothingSkipped'
  BY <1>7, ReturnsAdvance
<1> QED BY <1>1, <1>2, <1>3, <1>4, <1>5, <1>6, <1>7 DEF Next

\* Nobody forgets a request it took, except by dying.
LEMMA AccountedStep ==
  ASSUME TypeOK, TakenAccounted, [Next]_vars
  PROVE  TakenAccounted'
<1> USE DEF environment, group, client, history, TakenAccounted
<1>1. CASE Tick \/ Append \/ UNCHANGED vars
  BY <1>1 DEF Tick, Append, vars
<1>2. ASSUME NEW i \in Instances, Assign(i) \/ Restart(i) \/ Poll(i) \/ StoreOffset(i)
      PROVE TakenAccounted'
  BY <1>2 DEF Assign, Restart, Poll, StoreOffset
<1>3. ASSUME NEW i \in Instances, NEW m \in Messages, Advances(i, m),
             \A n \in Messages : n # m => taken'[n] = taken[n],
             UNCHANGED abandoned
      PROVE TakenAccounted'
  BY <1>3 DEF Advances
<1>4. ASSUME NEW i \in Instances, Take(i) PROVE TakenAccounted'
  <2>1. PICK m \in Messages : Takes(i, m)
    BY <1>4, TakeTakes
  <2> QED BY <2>1, <1>3 DEF Takes, TypeOK
<1>5. ASSUME NEW i \in Instances, Crash(i) PROVE TakenAccounted'
  <2>1. ASSUME NEW m \in Messages, NEW j \in Instances, stage[j][m] # "none"
        PROVE  stage'[j][m] # "none" \/ m \in abandoned'
    BY <1>5, <2>1 DEF Crash, InFlight, TypeOK
  <2>2. UNCHANGED <<fate, taken>> /\ abandoned \subseteq abandoned'
    BY <1>5 DEF Crash
  <2> QED BY <2>1, <2>2
<1>6. ASSUME NEW i \in Instances, NEW m \in Messages,
             HandlerReturns(i, m) \/ SendReturns(i, m)
      PROVE TakenAccounted'
  BY <1>6, <1>3, ReturnsAdvance
<1> QED BY <1>1, <1>2, <1>4, <1>5, <1>6 DEF Next

LEMMA FlightsFinite ==
  ASSUME NEW i \in Instances
  PROVE  IsFiniteSet(InFlight(i)) /\ IsFiniteSet(InFlight(i)')
<1>1. IsFiniteSet(Messages)
  BY FS_Interval DEF Messages, ConstantsAssumption
<1>2. InFlight(i) \subseteq Messages /\ InFlight(i)' \subseteq Messages
  BY DEF InFlight
<1> QED BY <1>1, <1>2, FS_Subset

\* A replica never handles more than batch_size requests at once.
LEMMA FlightsStep ==
  ASSUME TypeOK, FlightsBounded, [Next]_vars
  PROVE  FlightsBounded'
<1> SUFFICES ASSUME NEW j \in Instances
             PROVE  Cardinality(InFlight(j)') <= BatchSize
  BY DEF FlightsBounded
<1> USE DEF environment, group, client, history
<1>a. Cardinality(InFlight(j)) <= BatchSize
  BY DEF FlightsBounded
<1>b. IsFiniteSet(InFlight(j)) /\ IsFiniteSet(InFlight(j)')
  BY FlightsFinite
<1>c. ASSUME InFlight(j)' \subseteq InFlight(j)
      PROVE  Cardinality(InFlight(j)') <= BatchSize
  <2>1. /\ Cardinality(InFlight(j)') <= Cardinality(InFlight(j))
        /\ Cardinality(InFlight(j)) \in Nat /\ Cardinality(InFlight(j)') \in Nat
    BY <1>b, <1>c, FS_Subset, FS_CardinalityType
  <2> QED BY <2>1, <1>a DEF ConstantsAssumption
<1>1. CASE Tick \/ Append \/ UNCHANGED vars
  BY <1>1, <1>c DEF Tick, Append, vars, InFlight
<1>2. ASSUME NEW i \in Instances, Assign(i) \/ Restart(i) \/ Poll(i) \/ StoreOffset(i)
      PROVE Cardinality(InFlight(j)') <= BatchSize
  BY <1>2, <1>c DEF Assign, Restart, Poll, StoreOffset, InFlight
<1>3. ASSUME NEW i \in Instances, Take(i)
      PROVE Cardinality(InFlight(j)') <= BatchSize
  <2>1. PICK m \in Messages : Takes(i, m)
    BY <1>3, TakeTakes
  <2>2. CASE j # i
    <3>1. InFlight(j)' \subseteq InFlight(j)
      BY <2>1, <2>2 DEF Takes, Advances, InFlight
    <3> QED BY <3>1, <1>c
  <2>3. CASE j = i
    <3>1. InFlight(j)' \subseteq InFlight(j) \cup {m}
      BY <2>1, <2>3 DEF Takes, Advances, InFlight
    <3>2. Cardinality(InFlight(j)) < BatchSize
      BY <2>1, <2>3 DEF Takes, HasSlot
    <3>3. /\ IsFiniteSet(InFlight(j) \cup {m})
          /\ \/ Cardinality(InFlight(j) \cup {m}) = Cardinality(InFlight(j)) + 1
             \/ Cardinality(InFlight(j) \cup {m}) = Cardinality(InFlight(j))
      BY <1>b, FS_AddElement
    <3>4. /\ Cardinality(InFlight(j)') <= Cardinality(InFlight(j) \cup {m})
          /\ Cardinality(InFlight(j) \cup {m}) \in Nat
          /\ Cardinality(InFlight(j)') \in Nat /\ Cardinality(InFlight(j)) \in Nat
      BY <1>b, <3>1, <3>3, FS_Subset, FS_CardinalityType
    <3> QED BY <3>2, <3>3, <3>4 DEF ConstantsAssumption
  <2> QED BY <2>2, <2>3
<1>4. ASSUME NEW i \in Instances, Crash(i)
      PROVE Cardinality(InFlight(j)') <= BatchSize
  <2>1. InFlight(j)' \subseteq InFlight(j)
    BY <1>4 DEF Crash, InFlight, TypeOK
  <2> QED BY <2>1, <1>c
<1>5. ASSUME NEW i \in Instances, NEW m \in Messages,
             HandlerReturns(i, m) \/ SendReturns(i, m)
      PROVE Cardinality(InFlight(j)') <= BatchSize
  <2>1. InFlight(j)' \subseteq InFlight(j)
    BY <1>5, ReturnsAdvance DEF Advances, InFlight
  <2> QED BY <2>1, <1>c
<1> QED BY <1>1, <1>2, <1>3, <1>4, <1>5 DEF Next

\* Each crash abandons at most the batch_size requests being handled.
LEMMA AbandonedStep ==
  ASSUME TypeOK, FlightsBounded, AbandonedBounded, [Next]_vars
  PROVE  AbandonedBounded'
<1> USE DEF environment, group, client, history, AbandonedBounded
<1>1. CASE UNCHANGED <<abandoned, crashes>>
  BY <1>1
<1>2. ASSUME NEW i \in Instances, Crash(i) PROVE AbandonedBounded'
  <2>1. IsFiniteSet(abandoned)
    <3>1. IsFiniteSet(Messages)
      BY FS_Interval DEF Messages, ConstantsAssumption
    <3> QED BY <3>1, FS_Subset DEF TypeOK
  <2>2. IsFiniteSet(InFlight(i)) /\ Cardinality(InFlight(i)) <= BatchSize
    BY FlightsFinite DEF FlightsBounded
  <2>3. /\ IsFiniteSet(abandoned \cap InFlight(i))
        /\ IsFiniteSet(abandoned \cup InFlight(i))
        /\ Cardinality(abandoned \cup InFlight(i))
             = Cardinality(abandoned) + Cardinality(InFlight(i))
               - Cardinality(abandoned \cap InFlight(i))
    BY <2>1, <2>2, FS_Union, FS_Intersection
  <2>4. /\ Cardinality(abandoned) \in Nat /\ Cardinality(InFlight(i)) \in Nat
        /\ Cardinality(abandoned \cap InFlight(i)) \in Nat
    BY <2>1, <2>2, <2>3, FS_CardinalityType
  <2>5. Cardinality(abandoned \cup InFlight(i)) <= crashes * BatchSize + BatchSize
    <3>1. crashes * BatchSize \in Nat
      BY DEF TypeOK, ConstantsAssumption
    <3> HIDE DEF AbandonedBounded
    <3>2. Cardinality(abandoned) <= crashes * BatchSize
      BY DEF AbandonedBounded
    <3> QED BY <3>1, <3>2, <2>2, <2>3, <2>4 DEF ConstantsAssumption
  <2>6. crashes' * BatchSize = crashes * BatchSize + BatchSize
    BY <1>2 DEF Crash, TypeOK, ConstantsAssumption
  <2>7. abandoned' = abandoned \cup InFlight(i)
    BY <1>2 DEF Crash
  <2> QED BY <2>5, <2>6, <2>7
<1> QED BY <1>1, <1>2, ReturnsAdvance
        DEF Next, Tick, Append, vars, Assign, Restart, Poll, StoreOffset, Take

\* Without live reassignments only the owner works, on what is not stored.
LEMMA OwnerStep ==
  ASSUME TypeOK, BuffersAhead, StoresTrail, OnlyOwnerWorks, [Next]_vars
  PROVE  OnlyOwnerWorks'
<1> SUFFICES ASSUME moves' = 0
             PROVE  \A j \in Instances :
                      /\ buffer'[j] # {} \/ toStore'[j] # {} => owner' = j
                      /\ \A b \in buffer'[j] : committed' < b
  BY DEF OnlyOwnerWorks
<1> USE DEF environment, group, client, history
<1>1. moves = 0
  <2>1. moves \in Nat
    BY DEF TypeOK
  <2> QED BY <2>1, ReturnsAdvance
      DEF Next, vars, Tick, Append, Assign, Poll, StoreOffset, Take, Crash, Restart
<1>2. \A j \in Instances :
        /\ buffer[j] # {} \/ toStore[j] # {} => owner = j
        /\ \A b \in buffer[j] : committed < b
  BY <1>1 DEF OnlyOwnerWorks
<1>3. CASE Tick \/ Append \/ UNCHANGED vars
  BY <1>2, <1>3 DEF Tick, Append, vars
<1>4. ASSUME NEW i \in Instances, Assign(i)
      PROVE  \A j \in Instances :
               /\ buffer'[j] # {} \/ toStore'[j] # {} => owner' = j
               /\ \A b \in buffer'[j] : committed' < b
  <2>1. owner = NoOwner
    BY <1>1, <1>4 DEF Assign
  <2>2. \A j \in Instances : buffer[j] = {} /\ toStore[j] = {}
    BY <1>2, <2>1 DEF ConstantsAssumption
  <2> QED BY <1>4, <2>2 DEF Assign
<1>5. ASSUME NEW i \in Instances, Poll(i)
      PROVE  \A j \in Instances :
               /\ buffer'[j] # {} \/ toStore'[j] # {} => owner' = j
               /\ \A b \in buffer'[j] : committed' < b
  BY <1>2, <1>5 DEF Poll, Fetched, PollBase, StoredWhenPolled, TypeOK
<1>6. ASSUME NEW i \in Instances, StoreOffset(i)
      PROVE  \A j \in Instances :
               /\ buffer'[j] # {} \/ toStore'[j] # {} => owner' = j
               /\ \A b \in buffer'[j] : committed' < b
  <2>1. PICK o \in toStore[i] :
          committed' = o /\ toStore' = [toStore EXCEPT ![i] = @ \ {o}]
    BY <1>6 DEF StoreOffset
  <2>2. owner = i /\ UNCHANGED <<owner, buffer>>
    BY <1>2, <1>6, <2>1 DEF StoreOffset
  <2>3. \A b \in buffer[i] : o < b
    <3>1. \A b \in buffer[i] : o <= cursor[i] /\ cursor[i] < b
      BY <2>1 DEF StoresTrail, BuffersAhead
    <3>2. o \in Int /\ cursor[i] \in Int /\ \A b \in buffer[i] : b \in Int
      BY <2>1 DEF TypeOK
    <3> QED BY <3>1, <3>2
  <2> QED BY <1>2, <2>1, <2>2, <2>3 DEF TypeOK
<1>7. ASSUME NEW i \in Instances, Take(i)
      PROVE  \A j \in Instances :
               /\ buffer'[j] # {} \/ toStore'[j] # {} => owner' = j
               /\ \A b \in buffer'[j] : committed' < b
  <2>1. PICK m \in Messages : Takes(i, m)
    BY <1>7, TakeTakes
  <2>2. owner = i /\ UNCHANGED <<owner, committed>>
    BY <1>2, <2>1 DEF Takes, IsNext
  <2> QED BY <1>2, <2>1, <2>2 DEF Takes, TypeOK
<1>8. ASSUME NEW i \in Instances, Crash(i)
      PROVE  \A j \in Instances :
               /\ buffer'[j] # {} \/ toStore'[j] # {} => owner' = j
               /\ \A b \in buffer'[j] : committed' < b
  BY <1>2, <1>8 DEF Crash, TypeOK
<1>9. ASSUME NEW i \in Instances, Restart(i)
      PROVE  \A j \in Instances :
               /\ buffer'[j] # {} \/ toStore'[j] # {} => owner' = j
               /\ \A b \in buffer'[j] : committed' < b
  BY <1>2, <1>9 DEF Restart
<1>10. ASSUME NEW i \in Instances, NEW m \in Messages,
              HandlerReturns(i, m) \/ SendReturns(i, m)
       PROVE  \A j \in Instances :
                /\ buffer'[j] # {} \/ toStore'[j] # {} => owner' = j
                /\ \A b \in buffer'[j] : committed' < b
  BY <1>2, <1>10, ReturnsAdvance
<1> QED BY <1>3, <1>4, <1>5, <1>6, <1>7, <1>8, <1>9, <1>10 DEF Next

\* The gate's and the server's stamps stay in order and in the past.
LEMMA StampsStep ==
  ASSUME TypeOK, StampsOrdered, [Next]_vars
  PROVE  StampsOrdered'
<1> USE DEF environment, group, client, history, StampsOrdered
<1>1. CASE Tick
  BY <1>1 DEF Tick, TypeOK
<1>2. CASE Append
  <2>1. PICK t \in 0..now : askedAt' = [askedAt EXCEPT ![produced + 1] = t]
    BY <1>2 DEF Append
  <2>2. sentAt' = [sentAt EXCEPT ![produced + 1] = now] /\ now' = now
    BY <1>2 DEF Append
  <2> QED BY <2>1, <2>2 DEF TypeOK
<1>3. CASE UNCHANGED environment
  BY <1>3
<1> QED BY <1>1, <1>2, <1>3, ReturnsAdvance
        DEF Next, vars, Assign, Poll, StoreOffset, Take, Crash, Restart

\* A request that is not sent yet has no future and no fate.
LEMMA UnsentStep ==
  ASSUME TypeOK, UnsentUntouched, [Next]_vars
  PROVE  UnsentUntouched'
<1> USE DEF environment, group, client, history, UnsentUntouched
<1>1. CASE UNCHANGED <<produced, stage, fate>>
  BY <1>1
<1>2. CASE Append
  BY <1>2 DEF Append, TypeOK, Messages
<1>3. ASSUME NEW i \in Instances, NEW m \in Messages, Advances(i, m),
             m <= produced, UNCHANGED produced
      PROVE  UnsentUntouched'
  <2>1. ~(m > produced)
    BY <1>3 DEF TypeOK, Messages
  <2>2. ASSUME NEW n \in Messages, n > produced, NEW j \in Instances
        PROVE  n # m /\ fate'[n] = fate[n] /\ stage'[j][n] = stage[j][n]
    BY <1>3, <2>1, <2>2 DEF Advances
  <2> QED BY <1>3, <2>2
<1>4. ASSUME NEW i \in Instances, Take(i) PROVE UnsentUntouched'
  <2>1. PICK m \in Messages : Takes(i, m)
    BY <1>4, TakeTakes
  <2>2. m <= produced
    BY <2>1 DEF Takes, IsNext, TypeOK
  <2> QED BY <2>1, <2>2, <1>3 DEF Takes
<1>5. ASSUME NEW i \in Instances, NEW m \in Messages,
             HandlerReturns(i, m) \/ SendReturns(i, m)
      PROVE  UnsentUntouched'
  <2>1. Advances(i, m) /\ stage[i][m] # "none" /\ UNCHANGED produced
    BY <1>5, ReturnsAdvance
  <2>2. m <= produced
    BY <2>1 DEF TypeOK, Messages
  <2> QED BY <2>1, <2>2, <1>3
<1>6. ASSUME NEW i \in Instances, Crash(i) PROVE UnsentUntouched'
  BY <1>6 DEF Crash, TypeOK
<1> QED BY <1>1, <1>2, <1>4, <1>5, <1>6
        DEF Next, vars, Tick, Assign, Poll, StoreOffset, Restart

\* Skew <= 0: what is skipped now was asked more than Timeout ago.
LEMMA SkippedSafeStep ==
  ASSUME Skew <= 0, TypeOK, StampsOrdered, UnsentUntouched,
         SkippedOnlyAfterGateGaveUp, [Next]_vars
  PROVE  SkippedOnlyAfterGateGaveUp'
<1> USE DEF environment, group, client, history, SkippedOnlyAfterGateGaveUp
<1>1. \A m \in Messages : askedAt[m] \in Int /\ sentAt[m] \in Int /\ now \in Int
  BY DEF TypeOK
<1>2. CASE Tick
  BY <1>1, <1>2 DEF Tick, ConstantsAssumption
<1>3. CASE Append
  <2>1. \A m \in Messages : m # produced + 1 => askedAt'[m] = askedAt[m]
    BY <1>3 DEF Append, TypeOK
  <2>2. \A m \in Messages : m = produced + 1 => fate[m] = {}
    BY DEF UnsentUntouched, TypeOK
  <2> QED BY <1>3, <2>1, <2>2 DEF Append
<1>4. ASSUME NEW i \in Instances, NEW m \in Messages, Advances(i, m),
             UNCHANGED environment
      PROVE  SkippedOnlyAfterGateGaveUp'
  <2>1. Stale(m) => now - askedAt[m] > Timeout
    BY <1>1 DEF Stale, Age, StampsOrdered, ConstantsAssumption
  <2> QED BY <1>4, <2>1 DEF Advances
<1>5. ASSUME NEW i \in Instances, Take(i) PROVE SkippedOnlyAfterGateGaveUp'
  <2>1. PICK m \in Messages : Takes(i, m)
    BY <1>5, TakeTakes
  <2> QED BY <2>1, <1>4 DEF Takes
<1>6. ASSUME NEW i \in Instances, NEW m \in Messages,
             HandlerReturns(i, m) \/ SendReturns(i, m)
      PROVE  SkippedOnlyAfterGateGaveUp'
  BY <1>6, <1>4, ReturnsAdvance
<1>7. CASE UNCHANGED <<environment, fate>>
  BY <1>7
<1> QED BY <1>2, <1>3, <1>5, <1>6, <1>7
        DEF Next, vars, Assign, Poll, StoreOffset, Crash, Restart

-----------------------------------------------------------------------------
(* How often a request is taken.                                           *)

\* Adding, removing and exchanging an element of a finite set.
LEMMA CountChanges ==
  ASSUME NEW S, IsFiniteSet(S), NEW T, NEW x
  PROVE  /\ T \subseteq S => Cardinality(T) <= Cardinality(S)
         /\ T \subseteq S \cup {x} => Cardinality(T) <= Cardinality(S) + 1
         /\ T \subseteq S \ {x} /\ x \in S => Cardinality(T) + 1 <= Cardinality(S)
         /\ \A y : T \subseteq (S \ {y}) \cup {x} /\ y \in S => Cardinality(T) <= Cardinality(S)
         /\ Cardinality(S) \in Nat
         /\ T \subseteq S \cup {x} => Cardinality(T) \in Nat
<1>1. Cardinality(S) \in Nat
  BY FS_CardinalityType
<1>2. \A R : IsFiniteSet(R) => IsFiniteSet(R \cup {x}) /\ Cardinality(R \cup {x}) \in Nat
               /\ Cardinality(R \cup {x}) <= Cardinality(R) + 1
  <2> SUFFICES ASSUME NEW R, IsFiniteSet(R)
               PROVE  /\ IsFiniteSet(R \cup {x}) /\ Cardinality(R \cup {x}) \in Nat
                      /\ Cardinality(R \cup {x}) <= Cardinality(R) + 1
    OBVIOUS
  <2>1. /\ IsFiniteSet(R \cup {x}) /\ Cardinality(R) \in Nat
        /\ \/ Cardinality(R \cup {x}) = Cardinality(R)
           \/ Cardinality(R \cup {x}) = Cardinality(R) + 1
    BY FS_AddElement, FS_CardinalityType
  <2> QED BY <2>1
<1>3. \A y \in S : /\ IsFiniteSet(S \ {y})
                   /\ Cardinality(S \ {y}) = Cardinality(S) - 1
  BY FS_RemoveElement
<1>4. \A R : IsFiniteSet(R) /\ T \subseteq R =>
               Cardinality(T) <= Cardinality(R) /\ Cardinality(T) \in Nat
  BY FS_Subset, FS_CardinalityType
<1>5. T \subseteq S => Cardinality(T) <= Cardinality(S)
  BY <1>4
<1>6. T \subseteq S \cup {x} => Cardinality(T) <= Cardinality(S) + 1 /\ Cardinality(T) \in Nat
  <2> SUFFICES ASSUME T \subseteq S \cup {x}
               PROVE  Cardinality(T) <= Cardinality(S) + 1 /\ Cardinality(T) \in Nat
    OBVIOUS
  <2>1. /\ Cardinality(S \cup {x}) \in Nat
        /\ Cardinality(S \cup {x}) <= Cardinality(S) + 1
    BY <1>2
  <2>2. Cardinality(T) <= Cardinality(S \cup {x}) /\ Cardinality(T) \in Nat
    BY <1>2, <1>4
  <2> QED BY <1>1, <2>1, <2>2
<1>7. T \subseteq S \ {x} /\ x \in S => Cardinality(T) + 1 <= Cardinality(S)
  <2> SUFFICES ASSUME T \subseteq S \ {x}, x \in S
               PROVE  Cardinality(T) + 1 <= Cardinality(S)
    OBVIOUS
  <2>1. Cardinality(T) <= Cardinality(S \ {x}) /\ Cardinality(T) \in Nat
    BY <1>3, <1>4
  <2>2. Cardinality(S \ {x}) = Cardinality(S) - 1
    BY <1>3
  <2> QED BY <1>1, <2>1, <2>2
<1>8. ASSUME NEW y, T \subseteq (S \ {y}) \cup {x}, y \in S
      PROVE  Cardinality(T) <= Cardinality(S)
  <2>1. /\ IsFiniteSet(S \ {y})
        /\ Cardinality(S \ {y}) = Cardinality(S) - 1
    BY <1>3, <1>8
  <2>2. /\ IsFiniteSet((S \ {y}) \cup {x})
        /\ Cardinality((S \ {y}) \cup {x}) \in Nat
        /\ Cardinality((S \ {y}) \cup {x}) <= Cardinality(S \ {y}) + 1
    BY <2>1, <1>2
  <2>3. Cardinality(T) <= Cardinality((S \ {y}) \cup {x}) /\ Cardinality(T) \in Nat
    BY <2>2, <1>4, <1>8
  <2> QED BY <1>1, <2>1, <2>2, <2>3
<1> QED BY <1>1, <1>5, <1>6, <1>7, <1>8

LEMMA MayTakeFinite == ASSUME NEW m PROVE IsFiniteSet(MayTake(m))
<1>1. IsFiniteSet(Instances \cup {NoOwner})
  BY FS_AddElement DEF ConstantsAssumption
<1>2. MayTake(m) \subseteq Instances \cup {NoOwner}
  BY DEF MayTake
<1> QED BY <1>1, <1>2, FS_Subset

\* Taking m costs a candidate for m; a candidate costs a crash or a move.
LEMMA TakesStep ==
  ASSUME TypeOK, BuffersAhead, TakesAccounted, [Next]_vars
  PROVE  TakesAccounted'
<1> SUFFICES ASSUME NEW m \in Messages
             PROVE  taken'[m] + Cardinality(MayTake(m)') <= 1 + crashes' + moves'
  BY DEF TakesAccounted
<1> USE DEF environment, group, client, history
<1>a. IsFiniteSet(MayTake(m)) /\ Cardinality(MayTake(m)) \in Nat
  BY MayTakeFinite, FS_CardinalityType
<1>b. /\ taken[m] + Cardinality(MayTake(m)) <= 1 + crashes + moves
      /\ taken[m] \in Nat /\ crashes \in Nat /\ moves \in Nat /\ m \in Nat
  BY DEF TakesAccounted, TypeOK, Messages
<1>c. ASSUME MayTake(m)' \subseteq MayTake(m), UNCHANGED <<taken, crashes, moves>>
      PROVE  taken'[m] + Cardinality(MayTake(m)') <= 1 + crashes' + moves'
  <2>1. Cardinality(MayTake(m)') <= Cardinality(MayTake(m)) /\ Cardinality(MayTake(m)') \in Nat
    BY <1>a, <1>c, CountChanges
  <2> QED BY <1>a, <1>b, <1>c, <2>1
<1>d. ASSUME NEW x, MayTake(m)' \subseteq MayTake(m) \cup {x}, UNCHANGED taken,
             \/ crashes' = crashes + 1 /\ UNCHANGED moves
             \/ moves' = moves + 1 /\ UNCHANGED crashes
      PROVE  taken'[m] + Cardinality(MayTake(m)') <= 1 + crashes' + moves'
  <2>1. /\ Cardinality(MayTake(m)') <= Cardinality(MayTake(m)) + 1
        /\ Cardinality(MayTake(m)') \in Nat
    BY <1>a, <1>d, CountChanges
  <2> QED BY <1>a, <1>b, <1>d, <2>1
<1>1. CASE Tick \/ Append \/ UNCHANGED vars
  BY <1>1, <1>c DEF Tick, Append, vars, MayTake
<1>2. ASSUME NEW i \in Instances, Assign(i)
      PROVE  taken'[m] + Cardinality(MayTake(m)') <= 1 + crashes' + moves'
  <2>1. owner' = i /\ UNCHANGED <<cursor, buffer, taken, crashes>>
    BY <1>2 DEF Assign
  <2>2. CASE owner = NoOwner /\ UNCHANGED moves
    <3>1. NoOwner \in MayTake(m)
      BY <2>2 DEF MayTake, ConstantsAssumption
    <3>2. MayTake(m)' \subseteq (MayTake(m) \ {NoOwner}) \cup {i}
      BY <2>1, <2>2 DEF MayTake, ConstantsAssumption
    <3>3. Cardinality(MayTake(m)') <= Cardinality(MayTake(m))
      BY <1>a, <3>1, <3>2, CountChanges
    <3>4. Cardinality(MayTake(m)') \in Nat
      BY MayTakeFinite, <3>2, <1>a, CountChanges
    <3> QED BY <1>a, <1>b, <2>1, <2>2, <3>3, <3>4
  <2>3. CASE owner # NoOwner /\ moves' = moves + 1
    <3>1. MayTake(m)' \subseteq MayTake(m) \cup {i}
      BY <2>1, <2>3 DEF MayTake
    <3> QED BY <3>1, <2>1, <2>3, <1>d
  <2> QED BY <1>2, <2>2, <2>3 DEF Assign
<1>3. ASSUME NEW i \in Instances, Poll(i)
      PROVE  taken'[m] + Cardinality(MayTake(m)') <= 1 + crashes' + moves'
  <2>1. MayTake(m)' \subseteq MayTake(m)
    BY <1>3 DEF Poll, MayTake, Fetched, TypeOK
  <2> QED BY <1>3, <2>1, <1>c DEF Poll
<1>4. ASSUME NEW i \in Instances, StoreOffset(i) \/ Restart(i)
      PROVE  taken'[m] + Cardinality(MayTake(m)') <= 1 + crashes' + moves'
  BY <1>4, <1>c DEF StoreOffset, Restart, MayTake
<1>5. ASSUME NEW i \in Instances, Take(i)
      PROVE  taken'[m] + Cardinality(MayTake(m)') <= 1 + crashes' + moves'
  <2>1. PICK n \in Messages : Takes(i, n)
    BY <1>5, TakeTakes
  <2>2. n \in buffer[i] /\ cursor[i] < n /\ n \in Nat /\ cursor[i] \in Nat
    BY <2>1 DEF Takes, IsNext, BuffersAhead, TypeOK, Messages
  <2>3. /\ \A j \in Instances : /\ cursor'[j] = IF j = i THEN n ELSE cursor[j]
                                /\ buffer'[j] = IF j = i THEN buffer[j] \ {n} ELSE buffer[j]
        /\ taken'[m] = IF m = n THEN taken[m] + 1 ELSE taken[m]
        /\ UNCHANGED <<owner, crashes, moves>>
    BY <2>1 DEF Takes, TypeOK
  <2>4. \A j \in Instances : cursor[j] \in Nat
    BY DEF TypeOK
  <2>5. MayTake(m)' \subseteq MayTake(m)
    <3>1. ASSUME NEW j \in Instances PROVE cursor'[j] < m => cursor[j] < m
      <4>1. CASE j = i
        <5>1. cursor'[j] = n /\ cursor[j] < n /\ cursor[j] \in Nat
          BY <4>1, <2>2, <2>3
        <5> QED BY <1>b, <2>2, <5>1
      <4>2. CASE j # i
        <5>1. cursor'[j] = cursor[j]
          BY <4>2, <2>3
        <5> QED BY <5>1
      <4> QED BY <4>1, <4>2
    <3>2. \A j \in Instances : buffer'[j] \subseteq buffer[j]
      BY <2>3
    <3> QED BY <2>3, <3>1, <3>2 DEF MayTake
  <2>6. CASE m = n
    <3>1. i \in MayTake(m)
      BY <2>2, <2>6 DEF MayTake
    <3>2. i \notin MayTake(m)'
      <4>1. cursor'[i] = m /\ buffer'[i] = buffer[i] \ {m}
        BY <2>3, <2>6
      <4>2. ~(cursor'[i] < m)
        BY <1>b, <4>1
      <4> QED BY <4>1, <4>2 DEF MayTake
    <3>3. MayTake(m)' \subseteq MayTake(m) \ {i}
      BY <2>5, <3>2
    <3>4. Cardinality(MayTake(m)') + 1 <= Cardinality(MayTake(m))
      BY <1>a, <3>1, <3>3, CountChanges
    <3>5. Cardinality(MayTake(m)') \in Nat
      BY <1>a, <2>5, CountChanges
    <3>6. taken'[m] = taken[m] + 1
      BY <2>3, <2>6
    <3> QED BY <1>a, <1>b, <2>3, <3>4, <3>5, <3>6
  <2>7. CASE m # n
    <3>1. Cardinality(MayTake(m)') <= Cardinality(MayTake(m))
      BY <1>a, <2>5, CountChanges
    <3>2. Cardinality(MayTake(m)') \in Nat
      BY <1>a, <2>5, CountChanges
    <3> QED BY <1>a, <1>b, <2>3, <2>7, <3>1, <3>2
  <2> QED BY <2>6, <2>7
<1>6. ASSUME NEW i \in Instances, Crash(i)
      PROVE  taken'[m] + Cardinality(MayTake(m)') <= 1 + crashes' + moves'
  <2>1. /\ \A j \in Instances : /\ j # i => cursor'[j] = cursor[j]
                                /\ buffer'[j] = IF j = i THEN {} ELSE buffer[j]
        /\ owner' = IF owner = i THEN NoOwner ELSE owner
        /\ crashes' = crashes + 1 /\ UNCHANGED <<taken, moves>>
    BY <1>6 DEF Crash, TypeOK
  <2>2. MayTake(m)' \subseteq MayTake(m) \cup {NoOwner}
    BY <2>1 DEF MayTake, ConstantsAssumption
  <2> QED BY <2>1, <2>2, <1>d
<1>7. ASSUME NEW i \in Instances, NEW n \in Messages,
             HandlerReturns(i, n) \/ SendReturns(i, n)
      PROVE  taken'[m] + Cardinality(MayTake(m)') <= 1 + crashes' + moves'
  BY <1>7, <1>c, ReturnsAdvance DEF MayTake
<1> QED BY <1>1, <1>2, <1>3, <1>4, <1>5, <1>6, <1>7 DEF Next

-----------------------------------------------------------------------------
(* The theorems.                                                           *)

LEMMA InvInit == Init => IInv
<1> SUFFICES ASSUME Init PROVE IInv
  OBVIOUS
<1>1. TypeOK
  BY TypeInit
<1>2. BuffersAhead /\ StoresTrail /\ OnlyOwnerWorks
  BY DEF Init, BuffersAhead, StoresTrail, OnlyOwnerWorks
<1>3. LossInv
  BY DEF Init, LossInv, NothingSkipped, TakenAccounted, Messages
<1>4. BoundInv
  <2>1. \A i \in Instances : InFlight(i) = {}
    BY DEF Init, InFlight
  <2>2. Cardinality({}) = 0
    BY FS_EmptySet
  <2>3. FlightsBounded
    BY <2>1, <2>2 DEF FlightsBounded, ConstantsAssumption
  <2>4. AbandonedBounded
    BY <2>2 DEF Init, AbandonedBounded, ConstantsAssumption
  <2> QED BY <2>3, <2>4 DEF BoundInv
<1>5. StampsOrdered /\ UnsentUntouched
  BY DEF Init, StampsOrdered, UnsentUntouched
<1>6. TakesAccounted
  <2> SUFFICES ASSUME NEW m \in Messages
               PROVE  taken[m] + Cardinality(MayTake(m)) <= 1 + crashes + moves
    BY DEF TakesAccounted
  <2>1. MayTake(m) = {NoOwner}
    BY DEF Init, MayTake, ConstantsAssumption
  <2>2. Cardinality(MayTake(m)) = 1
    BY <2>1, FS_Singleton
  <2> QED BY <2>2 DEF Init
<1> QED BY <1>1, <1>2, <1>3, <1>4, <1>5, <1>6 DEF IInv

LEMMA InvStep == IInv /\ [Next]_vars => IInv'
BY TypeStep, OrderStep, SkippedStep, AccountedStep, FlightsStep, AbandonedStep,
   OwnerStep, StampsStep, UnsentStep, TakesStep
   DEF IInv, LossInv, BoundInv

\* The inductive invariant holds in every reachable state.
THEOREM Invariance == Spec => []IInv
BY InvInit, InvStep, PTL DEF Spec

\* A crash loses at most the batch_size requests its replica was handling, for
\* any number of replicas, crashes and reassignments.
THEOREM LossIsBounded == Spec => []CrashLossBound
<1>1. IInv => CrashLossBound
  <2> SUFFICES ASSUME IInv PROVE CrashLossBound
    OBVIOUS
  <2> USE DEF IInv
  <2>1. {m \in Messages : Lost(m)} \subseteq abandoned
    BY DEF Lost, LossInv, NothingSkipped, TakenAccounted
  <2>2. IsFiniteSet(abandoned)
    <3>1. IsFiniteSet(Messages)
      BY FS_Interval DEF Messages, ConstantsAssumption
    <3> QED BY <3>1, FS_Subset DEF TypeOK
  <2>3. Cardinality({m \in Messages : Lost(m)}) <= Cardinality(abandoned)
    BY <2>1, <2>2, FS_Subset
  <2>4. /\ Cardinality(abandoned) \in Nat
        /\ Cardinality({m \in Messages : Lost(m)}) \in Nat
    BY <2>1, <2>2, FS_Subset, FS_CardinalityType
  <2>5. crashes * BatchSize \in Nat /\ Cardinality(abandoned) <= crashes * BatchSize
    BY DEF TypeOK, ConstantsAssumption, BoundInv, AbandonedBounded
  <2> HIDE DEF IInv
  <2> QED BY <2>1, <2>3, <2>4, <2>5 DEF CrashLossBound
<1> QED BY <1>1, Invariance, PTL

\* A request is handled at most once for each time the partition found a new
\* owner, for any number of replicas and however their buffers, stores and
\* cursors interleave.
THEOREM TakenAtMostOncePerAssignment == Spec => []TakenOncePerAssignment
<1>1. IInv => TakenOncePerAssignment
  <2> SUFFICES ASSUME IInv, NEW m \in Messages PROVE taken[m] <= 1 + crashes + moves
    BY DEF TakenOncePerAssignment
  <2>1. Cardinality(MayTake(m)) \in Nat
    BY MayTakeFinite, FS_CardinalityType
  <2>2. taken[m] + Cardinality(MayTake(m)) <= 1 + crashes + moves
    BY DEF IInv, TakesAccounted
  <2>3. taken[m] \in Nat /\ crashes \in Nat /\ moves \in Nat
    BY DEF IInv, TypeOK
  <2> QED BY <2>1, <2>2, <2>3
<1> QED BY <1>1, Invariance, PTL

\* Without a live reassignment a request is handled again only if its offset
\* had not been stored.
THEOREM RedeliveryIsOfUncommitted == Spec => RedeliveredOnlyIfUncommitted
<1>1. IInv /\ [Next]_vars =>
        [\A m \in Messages :
           taken'[m] > taken[m] => taken[m] = 0 \/ moves > 0 \/ m > committed]_vars
  <2> SUFFICES ASSUME IInv, Next, NEW m \in Messages, taken'[m] > taken[m], moves = 0
               PROVE  m > committed
    BY DEF IInv, TypeOK
  <2>1. taken[m] \in Nat
    BY DEF IInv, TypeOK
  <2>2. PICK i \in Instances : Take(i)
    BY <2>1, ReturnsAdvance DEF Next, IInv, Tick, Append, Assign, Poll, StoreOffset,
       Crash, Restart, environment, group, client, history
  <2>3. PICK n \in Messages : Takes(i, n)
    BY <2>2, TakeTakes DEF IInv
  <2>4. n = m
    BY <2>1, <2>3 DEF Takes, IInv, TypeOK
  <2>5. m \in buffer[i]
    BY <2>3, <2>4 DEF Takes, IsNext
  <2> QED BY <2>5 DEF IInv, OnlyOwnerWorks, TypeOK, Messages
<1> QED BY <1>1, Invariance, PTL DEF Spec, RedeliveredOnlyIfUncommitted

\* Where the clock of the service does not run ahead of the iggy server's, a
\* request is skipped as stale only after its gate stopped waiting for it.
THEOREM SkippingIsSafe ==
  ASSUME Skew <= 0
  PROVE  Spec => []SkippedOnlyAfterGateGaveUp
<1>1. Init => SkippedOnlyAfterGateGaveUp
  BY DEF Init, SkippedOnlyAfterGateGaveUp
<1>2. IInv /\ SkippedOnlyAfterGateGaveUp /\ [Next]_vars => SkippedOnlyAfterGateGaveUp'
  BY SkippedSafeStep DEF IInv
<1> QED BY <1>1, <1>2, Invariance, PTL DEF Spec

=============================================================================
