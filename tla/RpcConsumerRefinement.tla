----------------------- MODULE RpcConsumerRefinement -----------------------
(***************************************************************************)
(* Until a partition moves between live replicas, the replicas of a        *)
(* service implement one reader of the log (LogReader), for any number of  *)
(* replicas, requests and crashes and any batch size.                      *)
(*                                                                         *)
(* Taking a request must start exactly the next one, and storing an offset *)
(* must move the stored position by one.  So the owner's buffer has to     *)
(* begin where the reader stands and have no gap (BufferGapless), what it  *)
(* has to store must be all it took since the stored offset (StoresAll),   *)
(* and a replica that is not the owner must have nothing left (OthersIdle).*)
(***************************************************************************)
EXTENDS RpcConsumerProofs

USE ConstantsAssumption

\* What is in flight was taken from the stream.
FlightsBehind ==
  \A i \in Instances : \A m \in InFlight(i) : m <= cursor[i]

OthersIdle ==
  \A i \in Instances :
    owner # i => /\ cursor[i] = 0 /\ buffer[i] = {} /\ toStore[i] = {}
                 /\ InFlight(i) = {}

StoresAll ==
  \A i \in Instances :
    owner = i => toStore[i] = {m \in Messages : committed < m /\ m <= cursor[i]}

BufferGapless ==
  \A i \in Instances :
    owner = i => \A b \in buffer[i], m \in Messages :
                   committed < m /\ cursor[i] < m /\ m < b => m \in buffer[i]

OneReader == moves = 0 => OthersIdle /\ StoresAll /\ BufferGapless

ReaderInv == FlightsBehind /\ OneReader

-----------------------------------------------------------------------------
(* What the owner takes and stores is what comes next.                     *)

LEMMA ReaderTypes ==
  ASSUME TypeOK
  PROVE  /\ produced \in Nat /\ committed \in Nat /\ committed <= produced
         /\ \A n \in 1..produced : n \in Messages
         /\ \A n \in Messages : n \in Nat
         /\ \A i \in Instances :
              /\ cursor[i] \in Nat /\ cursor[i] <= produced
              /\ \A b \in buffer[i] : b \in Messages /\ b \in Nat /\ b <= produced
              /\ \A o \in toStore[i] : o \in Messages /\ o \in Nat
<1>1. /\ produced \in Nat /\ produced <= MaxMessages /\ MaxMessages \in Nat
      /\ committed \in 0..produced
  BY DEF TypeOK, ConstantsAssumption
<1>2. \A n \in 1..produced : n \in Messages
  BY <1>1 DEF Messages
<1>3. ASSUME NEW i \in Instances
      PROVE  /\ cursor[i] \in 0..produced
             /\ buffer[i] \subseteq 1..produced /\ toStore[i] \subseteq 1..produced
  BY DEF TypeOK
<1>4. ASSUME NEW i \in Instances
      PROVE  /\ cursor[i] \in Nat /\ cursor[i] <= produced
             /\ \A b \in buffer[i] : b \in Messages /\ b \in Nat /\ b <= produced
             /\ \A o \in toStore[i] : o \in Messages /\ o \in Nat
  BY <1>1, <1>2, <1>3
<1> QED BY <1>1, <1>2, <1>4 DEF Messages

\* The facts about the owner that its steps rest on.
LEMMA OwnersPart ==
  ASSUME IInv, ReaderInv, moves = 0,
         NEW i \in Instances, buffer[i] # {} \/ toStore[i] # {}
  PROVE  /\ owner = i /\ owner # NoOwner
         /\ cursor[i] \in Nat /\ committed \in Nat
         /\ \A b \in buffer[i] : b \in Messages /\ b \in Nat /\ cursor[i] < b /\ committed < b
         /\ \A o \in toStore[i] : o \in Messages /\ o \in Nat
         /\ toStore[i] = {m \in Messages : committed < m /\ m <= cursor[i]}
<1>1. owner = i /\ owner # NoOwner
  BY DEF IInv, OnlyOwnerWorks, ConstantsAssumption
<1>2. /\ cursor[i] \in Nat /\ committed \in Nat
      /\ \A b \in buffer[i] : b \in Messages /\ b \in Nat
      /\ \A o \in toStore[i] : o \in Messages /\ o \in Nat
  BY ReaderTypes DEF IInv
<1>3. \A b \in buffer[i] : cursor[i] < b /\ committed < b
  BY DEF IInv, BuffersAhead, OnlyOwnerWorks
<1>4. toStore[i] = {m \in Messages : committed < m /\ m <= cursor[i]}
  BY <1>1 DEF ReaderInv, OneReader, StoresAll
<1> QED BY <1>1, <1>2, <1>3, <1>4

\* The request taken is the one after the reader's position.
LEMMA TakesTheNext ==
  ASSUME IInv, ReaderInv, moves = 0,
         NEW i \in Instances, NEW m \in Messages, IsNext(i, m)
  PROVE  /\ owner = i
         /\ m = ReadUpTo + 1
         /\ \A n \in Messages : n < m => n <= committed \/ n <= cursor[i]
<1>1. m \in buffer[i] /\ \A n \in buffer[i] : m <= n
  BY DEF IsNext
<1>2. /\ owner = i /\ owner # NoOwner /\ cursor[i] \in Nat /\ committed \in Nat
      /\ m \in Nat /\ cursor[i] < m /\ committed < m
  BY <1>1, OwnersPart
<1>3. ASSUME NEW n \in Messages, n < m, committed < n, cursor[i] < n PROVE FALSE
  <2>1. n \in buffer[i]
    BY <1>1, <1>2, <1>3 DEF ReaderInv, OneReader, BufferGapless
  <2>2. m <= n /\ n \in Nat
    BY <1>1, <2>1 DEF Messages
  <2> QED BY <1>2, <1>3, <2>2
<1>4. \A n \in Messages : n < m => n <= committed \/ n <= cursor[i]
  BY <1>2, <1>3 DEF Messages
<1>5. ReadUpTo \in Nat /\ ReadUpTo < m /\ committed <= ReadUpTo /\ cursor[i] <= ReadUpTo
  BY <1>2 DEF ReadUpTo
<1>6. ~(ReadUpTo + 1 < m)
  <2> SUFFICES ASSUME ReadUpTo + 1 < m PROVE FALSE
    OBVIOUS
  <2>1. ReadUpTo + 1 \in Messages
    BY <1>2, <1>5 DEF Messages, ConstantsAssumption
  <2> QED BY <1>2, <1>4, <1>5, <2>1
<1> QED BY <1>2, <1>4, <1>5, <1>6

\* The offset stored is the one after the stored offset.
LEMMA StoresTheNext ==
  ASSUME IInv, ReaderInv, moves = 0,
         NEW i \in Instances, NEW o \in toStore[i], \A p \in toStore[i] : o <= p
  PROVE  owner = i /\ o = committed + 1 /\ o <= cursor[i]
<1>1. /\ owner = i /\ cursor[i] \in Nat /\ committed \in Nat /\ o \in Nat /\ o \in Messages
      /\ toStore[i] = {m \in Messages : committed < m /\ m <= cursor[i]}
  BY OwnersPart
<1>2. committed < o /\ o <= cursor[i]
  BY <1>1
<1>3. committed + 1 \in Messages
  BY <1>1, <1>2 DEF Messages, ConstantsAssumption
<1>4. committed + 1 \in toStore[i]
  BY <1>1, <1>2, <1>3
<1> QED BY <1>1, <1>2, <1>4

-----------------------------------------------------------------------------
(* The invariant is kept.                                                  *)

LEMMA ReaderInvInit == Init => ReaderInv
<1> SUFFICES ASSUME Init PROVE ReaderInv
  OBVIOUS
<1>1. \A i \in Instances : InFlight(i) = {}
  BY DEF Init, InFlight
<1>2. FlightsBehind /\ OthersIdle
  BY <1>1 DEF Init, FlightsBehind, OthersIdle
<1>3. StoresAll /\ BufferGapless
  BY DEF Init, StoresAll, BufferGapless, ConstantsAssumption
<1> QED BY <1>2, <1>3 DEF ReaderInv, OneReader

LEMMA BehindStep ==
  ASSUME TypeOK, BuffersAhead, FlightsBehind, [Next]_vars
  PROVE  FlightsBehind'
<1> SUFFICES ASSUME NEW j \in Instances, NEW n \in Messages, stage'[j][n] # "none"
             PROVE  n <= cursor'[j]
  BY DEF FlightsBehind, InFlight
<1> USE DEF environment, group, client, history
<1>a. stage[j][n] # "none" => n <= cursor[j]
  BY DEF FlightsBehind, InFlight
<1>1. ASSUME UNCHANGED <<cursor, stage>> PROVE n <= cursor'[j]
  BY <1>1, <1>a
<1>2. CASE Tick \/ Append \/ UNCHANGED vars
  BY <1>2, <1>1 DEF Tick, Append, vars
<1>3. ASSUME NEW i \in Instances, Assign(i) \/ Poll(i) \/ StoreOffset(i) \/ Restart(i)
      PROVE  n <= cursor'[j]
  BY <1>3, <1>1 DEF Assign, Poll, StoreOffset, Restart
<1>4. ASSUME NEW i \in Instances, Take(i) PROVE n <= cursor'[j]
  <2>1. PICK m \in Messages : Takes(i, m)
    BY <1>4, TakeTakes
  <2>2. m \in Nat /\ n \in Nat /\ cursor[i] \in Nat /\ cursor[i] < m
    BY <2>1, ReaderTypes DEF Takes, IsNext, BuffersAhead
  <2>3. cursor'[j] = IF j = i THEN m ELSE cursor[j]
    BY <2>1 DEF Takes, TypeOK
  <2>4. CASE j = i /\ n = m
    BY <2>2, <2>3, <2>4
  <2>5. CASE ~(j = i /\ n = m)
    <3>1. n <= cursor[j]
      BY <2>1, <2>5, <1>a DEF Takes, Advances
    <3> QED BY <2>2, <2>3, <3>1
  <2> QED BY <2>4, <2>5
<1>5. ASSUME NEW i \in Instances, Crash(i) PROVE n <= cursor'[j]
  BY <1>5, <1>a DEF Crash, TypeOK
<1>6. ASSUME NEW i \in Instances, NEW m \in Messages,
             HandlerReturns(i, m) \/ SendReturns(i, m)
      PROVE  n <= cursor'[j]
  BY <1>6, <1>a, ReturnsAdvance DEF Advances
<1> QED BY <1>2, <1>3, <1>4, <1>5, <1>6 DEF Next

\* Nothing the invariant is about has changed.
LEMMA SameOneReader ==
  ASSUME OneReader, moves = 0,
         UNCHANGED <<committed, owner, cursor, buffer, toStore, stage>>
  PROVE  (OthersIdle /\ StoresAll /\ BufferGapless)'
BY DEF OneReader, OthersIdle, StoresAll, BufferGapless, InFlight

LEMMA OneReaderStep ==
  ASSUME IInv, ReaderInv, [Next]_vars
  PROVE  OneReader'
<1>a. moves' = 0 => moves = 0
  BY ReturnsAdvance DEF Next, IInv, TypeOK, Tick, Append, Assign, Poll, StoreOffset,
     Take, Crash, Restart, vars, environment, group, client, history
<1> SUFFICES ASSUME moves = 0, moves' = 0
             PROVE  (OthersIdle /\ StoresAll /\ BufferGapless)'
  BY <1>a DEF OneReader
<1> USE DEF environment, group, client, history
<1>b. TypeOK /\ OneReader /\ OthersIdle /\ StoresAll /\ BufferGapless
  BY DEF IInv, ReaderInv, OneReader
<1>1. CASE Tick \/ Append \/ UNCHANGED vars
  BY <1>1, <1>b, SameOneReader DEF Tick, Append, vars
<1>2. ASSUME NEW i \in Instances, Restart(i)
      PROVE  (OthersIdle /\ StoresAll /\ BufferGapless)'
  BY <1>2, <1>b, SameOneReader DEF Restart
<1>3. ASSUME NEW i \in Instances, Assign(i)
      PROVE  (OthersIdle /\ StoresAll /\ BufferGapless)'
  <2>1. /\ owner = NoOwner /\ owner' = i
        /\ UNCHANGED <<committed, cursor, buffer, toStore, stage>>
    BY <1>3, <1>b DEF Assign, TypeOK
  <2>2. \A j \in Instances :
          cursor[j] = 0 /\ buffer[j] = {} /\ toStore[j] = {} /\ InFlight(j) = {}
    BY <1>b, <2>1 DEF OthersIdle, ConstantsAssumption
  <2>3. OthersIdle'
    BY <2>1, <2>2 DEF OthersIdle, InFlight
  <2>4. StoresAll'
    <3>1. {m \in Messages : committed < m /\ m <= 0} = {}
      BY <1>b, ReaderTypes
    <3> QED BY <2>1, <2>2, <3>1 DEF StoresAll
  <2>5. BufferGapless'
    BY <2>1, <2>2 DEF BufferGapless
  <2> QED BY <2>3, <2>4, <2>5
<1>4. ASSUME NEW i \in Instances, Poll(i)
      PROVE  (OthersIdle /\ StoresAll /\ BufferGapless)'
  <2>1. /\ owner = i /\ UNCHANGED <<committed, owner, cursor, stage>>
        /\ \A j \in Instances : /\ toStore'[j] = toStore[j]
                                /\ buffer'[j] = IF j = i THEN Fetched(i) ELSE buffer[j]
    BY <1>4, <1>b DEF Poll, StoredWhenPolled, TypeOK
  <2>2. OthersIdle' /\ StoresAll'
    BY <1>b, <2>1 DEF OthersIdle, StoresAll, InFlight
  <2>3. ASSUME NEW b \in Fetched(i), NEW m \in Messages,
               committed < m, cursor[i] < m, m < b
        PROVE  m \in Fetched(i)
    <3>1. /\ b \in 1..produced /\ b <= committed + BatchSize
          /\ committed \in Nat /\ produced \in Nat /\ m \in Nat /\ BatchSize \in Nat
      BY <1>b, ReaderTypes DEF Fetched, PollBase, ConstantsAssumption
    <3>2. m \in 1..produced /\ m <= committed + BatchSize
      BY <2>3, <3>1
    <3> QED BY <2>3, <3>2 DEF Fetched, PollBase
  <2>4. BufferGapless'
    BY <2>1, <2>3 DEF BufferGapless
  <2> QED BY <2>2, <2>4
<1>5. ASSUME NEW i \in Instances, StoreOffset(i)
      PROVE  (OthersIdle /\ StoresAll /\ BufferGapless)'
  <2>1. PICK o \in toStore[i] :
          /\ \A p \in toStore[i] : o <= p
          /\ committed' = o
          /\ toStore' = [toStore EXCEPT ![i] = @ \ {o}]
    BY <1>5 DEF StoreOffset
  <2>2. /\ UNCHANGED <<owner, cursor, buffer, stage>>
        /\ \A j \in Instances : toStore'[j] = IF j = i THEN toStore[i] \ {o} ELSE toStore[j]
    BY <1>5, <1>b, <2>1 DEF StoreOffset, TypeOK
  <2>3. owner = i /\ o = committed + 1 /\ o <= cursor[i] /\ committed \in Nat
    BY <2>1, <1>b, StoresTheNext, ReaderTypes
  <2>4. OthersIdle'
    BY <1>b, <2>2, <2>3 DEF OthersIdle, InFlight
  <2>5. StoresAll'
    <3>1. toStore[i] = {m \in Messages : committed < m /\ m <= cursor[i]}
      BY <1>b, <2>3 DEF StoresAll
    <3>2. ASSUME NEW n \in Messages
          PROVE  n \in toStore'[i] <=> committed' < n /\ n <= cursor[i]
      <4>1. n \in Nat
        BY <1>b, ReaderTypes
      <4>2. n \in toStore[i] <=> committed < n /\ n <= cursor[i]
        BY <3>1
      <4>3. n \in toStore'[i] <=> n \in toStore[i] /\ n # committed + 1
        BY <2>2, <2>3
      <4>4. committed' = committed + 1
        BY <2>1, <2>3
      <4> QED BY <2>3, <4>1, <4>2, <4>3, <4>4
    <3>3. toStore'[i] \subseteq Messages
      BY <2>2, <3>1
    <3>4. toStore'[i] = {m \in Messages : committed' < m /\ m <= cursor[i]}
      BY <3>2, <3>3
    <3> QED BY <2>2, <2>3, <3>4 DEF StoresAll
  <2>6. BufferGapless'
    <3>1. \A m \in Messages : committed' < m => committed < m
      BY <1>b, <2>1, <2>3, ReaderTypes
    <3> QED BY <1>b, <2>2, <3>1 DEF BufferGapless
  <2> QED BY <2>4, <2>5, <2>6
<1>6. ASSUME NEW i \in Instances, Take(i)
      PROVE  (OthersIdle /\ StoresAll /\ BufferGapless)'
  <2>1. PICK m \in Messages : Takes(i, m)
    BY <1>6, <1>b, TakeTakes
  <2>2. /\ owner = i
        /\ \A n \in Messages : n < m => n <= committed \/ n <= cursor[i]
    BY <2>1, TakesTheNext DEF Takes
  <2>3. /\ m \in buffer[i] /\ (\A n \in buffer[i] : m <= n)
        /\ cursor[i] < m /\ committed < m /\ m \in Nat /\ cursor[i] \in Nat
        /\ committed \in Nat
    BY <2>1, OwnersPart DEF Takes, IsNext
  <2>4. /\ UNCHANGED <<committed, owner>>
        /\ \A j \in Instances :
             /\ cursor'[j] = IF j = i THEN m ELSE cursor[j]
             /\ buffer'[j] = IF j = i THEN buffer[i] \ {m} ELSE buffer[j]
             /\ toStore'[j] = IF j = i THEN toStore[i] \cup {m} ELSE toStore[j]
             /\ j # i => InFlight(j)' = InFlight(j)
    BY <1>b, <2>1 DEF Takes, TypeOK, Advances, InFlight
  <2>5. OthersIdle'
    BY <1>b, <2>2, <2>4 DEF OthersIdle
  <2>6. StoresAll'
    <3>1. toStore[i] = {n \in Messages : committed < n /\ n <= cursor[i]}
      BY <1>b, <2>2 DEF StoresAll
    <3>2. ASSUME NEW n \in Messages
          PROVE  n \in toStore'[i] <=> committed < n /\ n <= m
      <4>1. n \in Nat
        BY <1>b, ReaderTypes
      <4>2. n \in toStore[i] <=> committed < n /\ n <= cursor[i]
        BY <3>1
      <4>3. n \in toStore'[i] <=> n \in toStore[i] \/ n = m
        BY <2>4
      <4>4. n < m => n <= committed \/ n <= cursor[i]
        BY <2>2
      <4> QED BY <2>3, <4>1, <4>2, <4>3, <4>4
    <3>3. toStore'[i] \subseteq Messages
      BY <2>4, <3>1
    <3>4. toStore'[i] = {n \in Messages : committed < n /\ n <= m}
      BY <3>2, <3>3
    <3> QED BY <2>2, <2>4, <3>4 DEF StoresAll
  <2>7. BufferGapless'
    <3> SUFFICES ASSUME NEW b \in buffer[i] \ {m}, NEW n \in Messages,
                        committed < n, m < n, n < b
                 PROVE  n \in buffer[i] \ {m}
      BY <2>2, <2>4 DEF BufferGapless
    <3>1. n \in Nat
      BY <1>b, ReaderTypes
    <3>2. cursor[i] < n /\ n # m
      BY <2>3, <3>1
    <3> QED BY <1>b, <2>2, <3>2 DEF BufferGapless
  <2> QED BY <2>5, <2>6, <2>7
<1>7. ASSUME NEW i \in Instances, Crash(i)
      PROVE  (OthersIdle /\ StoresAll /\ BufferGapless)'
  <2>1. /\ owner' = IF owner = i THEN NoOwner ELSE owner
        /\ UNCHANGED committed
        /\ \A j \in Instances :
             /\ j # i => /\ cursor'[j] = cursor[j] /\ buffer'[j] = buffer[j]
                         /\ toStore'[j] = toStore[j] /\ InFlight(j)' = InFlight(j)
             /\ j = i => /\ cursor'[j] = 0 /\ buffer'[j] = {}
                         /\ toStore'[j] = {} /\ InFlight(j)' = {}
    BY <1>7, <1>b DEF Crash, TypeOK, InFlight
  <2>2. OthersIdle'
    BY <1>b, <2>1 DEF OthersIdle
  <2>3. \A j \in Instances : owner' = j => owner = j /\ j # i
    BY <2>1 DEF ConstantsAssumption
  <2>4. StoresAll' /\ BufferGapless'
    BY <1>b, <2>1, <2>3 DEF StoresAll, BufferGapless
  <2> QED BY <2>2, <2>4
<1>8. ASSUME NEW i \in Instances, NEW m \in Messages,
             HandlerReturns(i, m) \/ SendReturns(i, m)
      PROVE  (OthersIdle /\ StoresAll /\ BufferGapless)'
  <2>1. /\ Advances(i, m) /\ stage[i][m] # "none"
        /\ UNCHANGED <<committed, owner, cursor, buffer, toStore>>
    BY <1>8, <1>b, ReturnsAdvance
  <2>2. owner = i
    BY <1>b, <2>1 DEF OthersIdle, InFlight
  <2>3. \A j \in Instances : j # i => InFlight(j)' = InFlight(j)
    BY <2>1 DEF Advances, InFlight
  <2> QED BY <1>b, <2>1, <2>2, <2>3 DEF OthersIdle, StoresAll, BufferGapless
<1> QED BY <1>1, <1>2, <1>3, <1>4, <1>5, <1>6, <1>7, <1>8 DEF Next

\* The reader's invariant holds in every reachable state.
THEOREM OneReaderUntilMoved == Spec => []ReaderInv
<1>1. IInv /\ ReaderInv /\ [Next]_vars => ReaderInv'
  BY BehindStep, OneReaderStep DEF ReaderInv, IInv
<1> QED BY <1>1, ReaderInvInit, Invariance, PTL DEF Spec

-----------------------------------------------------------------------------
(* What a step of a future does to the reader.                             *)

\* The future of m at i goes on, or ends with m decided; nothing else moves.
Outcome(i, m) ==
  /\ \A j \in Instances, n \in Messages :
       j # i \/ n # m => stage'[j][n] = stage[j][n]
  /\ \A n \in Messages : n # m => fate'[n] = fate[n]
  /\ \/ stage'[i][m] # "none" /\ fate'[m] = fate[m]
     \/ stage'[i][m] = "none" /\ fate'[m] # {}

LEMMA GoesOn ==
  ASSUME TypeOK, NEW i \in Instances, NEW m \in Messages, UNCHANGED fate,
         MoveTo(i, m, "sending") \/ MoveTo(i, m, "handling")
  PROVE  Outcome(i, m)
BY DEF TypeOK, MoveTo, Outcome

LEMMA Ends ==
  ASSUME TypeOK, NEW i \in Instances, NEW m \in Messages, NEW f, Settle(m, f),
         MoveTo(i, m, "none") \/ (UNCHANGED stage /\ stage[i][m] = "none")
  PROVE  Outcome(i, m)
BY DEF TypeOK, MoveTo, Settle, Outcome

LEMMA ReplyOutcome ==
  ASSUME TypeOK, NEW i \in Instances, NEW m \in Messages, Reply(i, m)
  PROVE  Outcome(i, m)
BY GoesOn, Ends DEF Reply

LEMMA ReturnsOutcome ==
  ASSUME TypeOK, NEW i \in Instances, NEW m \in Messages,
         HandlerReturns(i, m) \/ SendReturns(i, m)
  PROVE  Outcome(i, m)
<1>1. CASE HandlerReturns(i, m)
  BY <1>1, ReplyOutcome DEF HandlerReturns
<1>2. CASE SendReturns(i, m)
  BY <1>2, Ends DEF SendReturns
<1> QED BY <1>1, <1>2

LEMMA TakeOutcome ==
  ASSUME TypeOK, BuffersAhead, FlightsBehind, NEW i \in Instances, Take(i)
  PROVE  \E m \in Messages : Takes(i, m) /\ Outcome(i, m) /\ stage[i][m] = "none"
<1>1. PICK m \in Messages : Takes(i, m)
  BY TakeTakes
<1>2. PICK n \in buffer[i] :
        /\ buffer' = [buffer EXCEPT ![i] = @ \ {n}]
        /\ cursor' = [cursor EXCEPT ![i] = n]
        /\ \/ (Settle(n, "stale") \/ Settle(n, "undecodable")) /\ UNCHANGED stage
           \/ Reply(i, n)
           \/ MoveTo(i, n, "handling") /\ UNCHANGED fate
  BY DEF Take
<1>3. n = m
  <2>1. cursor'[i] = n /\ cursor'[i] = m
    BY <1>1, <1>2 DEF Takes, TypeOK
  <2> QED BY <2>1
<1>4. stage[i][m] = "none"
  <2>1. m \in Nat /\ cursor[i] \in Nat /\ cursor[i] < m
    BY <1>1, ReaderTypes DEF Takes, IsNext, BuffersAhead
  <2>2. stage[i][m] # "none" => m <= cursor[i]
    BY DEF FlightsBehind, InFlight
  <2> QED BY <2>1, <2>2
<1>5. Outcome(i, m)
  BY <1>2, <1>3, <1>4, GoesOn, Ends, ReplyOutcome
<1> QED BY <1>1, <1>4, <1>5

\* What Outcome means to the reader.
LEMMA OutcomeMaps ==
  ASSUME NEW i \in Instances, NEW m \in Messages, Outcome(i, m),
         \A j \in Instances : j # i => stage[j][m] = "none"
  PROVE  \/ /\ Handling' = Handling \cup {m} /\ UNCHANGED Decided
         \/ /\ Handling' = Handling \ {m} /\ Decided' = Decided \cup {m}
<1>1. \A n \in Messages : n # m => (n \in Handling' <=> n \in Handling)
  BY DEF Outcome, Handling, InFlight
<1>2. \A n \in Messages : n # m => (n \in Decided' <=> n \in Decided)
  BY DEF Outcome, Decided
<1>3. Handling \subseteq Messages /\ Handling' \subseteq Messages
  BY DEF Handling, InFlight
<1>4. Decided \subseteq Messages /\ Decided' \subseteq Messages
  BY DEF Decided
<1>5. CASE stage'[i][m] # "none" /\ fate'[m] = fate[m]
  <2>1. m \in Handling'
    BY <1>5 DEF Handling, InFlight
  <2>2. m \in Decided' <=> m \in Decided
    BY <1>5 DEF Decided
  <2>3. Handling' = Handling \cup {m}
    BY <1>1, <1>3, <2>1
  <2>4. Decided' = Decided
    BY <1>2, <1>4, <2>2
  <2> QED BY <2>3, <2>4
<1>6. CASE stage'[i][m] = "none" /\ fate'[m] # {}
  <2>1. m \notin Handling'
    <3>1. \A j \in Instances : stage'[j][m] = "none"
      BY <1>6 DEF Outcome
    <3> QED BY <3>1 DEF Handling, InFlight
  <2>2. m \in Decided'
    BY <1>6 DEF Decided
  <2>3. Handling' = Handling \ {m}
    BY <1>1, <1>3, <2>1
  <2>4. Decided' = Decided \cup {m}
    BY <1>2, <1>4, <2>2
  <2> QED BY <2>3, <2>4
<1> QED BY <1>5, <1>6 DEF Outcome

-----------------------------------------------------------------------------
(* The refinement.                                                         *)

LEMMA InitMaps == Init => Reader!ReaderInit
<1> SUFFICES ASSUME Init PROVE Reader!ReaderInit
  OBVIOUS
<1>1. ReadUpTo = 0
  BY DEF Init, ReadUpTo
<1>2. Handling = {} /\ Decided = {}
  BY DEF Init, Handling, InFlight, Decided
<1> QED BY <1>1, <1>2 DEF Init, Reader!ReaderInit

LEMMA SameReader ==
  ASSUME UNCHANGED <<produced, committed, owner, cursor, stage, fate>>
  PROVE  UNCHANGED Reader!rvars
BY DEF Reader!rvars, ReadUpTo, Handling, InFlight, Decided

LEMMA StepMaps ==
  ASSUME IInv, ReaderInv, moves = 0, moves' = 0, [Next]_vars
  PROVE  [Reader!ReaderNext]_(Reader!rvars)
<1> USE DEF environment, group, client, history
<1>a. TypeOK /\ BuffersAhead /\ FlightsBehind /\ OthersIdle
  BY DEF IInv, ReaderInv, OneReader
<1>1. CASE Tick \/ UNCHANGED vars
  BY <1>1, SameReader DEF Tick, vars
<1>2. CASE Append
  <2>1. produced' = produced + 1 /\ UNCHANGED <<committed, owner, cursor, stage, fate>>
    BY <1>2 DEF Append
  <2>2. UNCHANGED <<ReadUpTo, committed, Handling, Decided>>
    BY <2>1 DEF ReadUpTo, Handling, InFlight, Decided
  <2>3. Reader!Arrive
    BY <2>1, <2>2 DEF Reader!Arrive
  <2> QED BY <2>3 DEF Reader!ReaderNext
<1>3. ASSUME NEW i \in Instances, Poll(i) \/ Restart(i)
      PROVE  [Reader!ReaderNext]_(Reader!rvars)
  BY <1>3, SameReader DEF Poll, Restart
<1>4. ASSUME NEW i \in Instances, Assign(i)
      PROVE  [Reader!ReaderNext]_(Reader!rvars)
  <2>1. /\ owner = NoOwner /\ owner' = i
        /\ UNCHANGED <<produced, committed, cursor, stage, fate>>
    BY <1>4, <1>a DEF Assign, TypeOK
  <2>2. cursor[i] = 0 /\ committed \in Nat
    BY <1>a, <2>1, ReaderTypes DEF OthersIdle, ConstantsAssumption
  <2>3. UNCHANGED <<ReadUpTo, Handling, Decided>>
    BY <2>1, <2>2 DEF ReadUpTo, Handling, InFlight, Decided, ConstantsAssumption
  <2> QED BY <2>1, <2>3 DEF Reader!rvars
<1>5. ASSUME NEW i \in Instances, StoreOffset(i)
      PROVE  [Reader!ReaderNext]_(Reader!rvars)
  <2>1. PICK o \in toStore[i] : (\A p \in toStore[i] : o <= p) /\ committed' = o
    BY <1>5 DEF StoreOffset
  <2>2. UNCHANGED <<produced, owner, cursor, stage, fate>>
    BY <1>5 DEF StoreOffset
  <2>3. /\ owner = i /\ o = committed + 1 /\ o <= cursor[i]
        /\ committed \in Nat /\ cursor[i] \in Nat /\ owner # NoOwner
    BY <2>1, <1>a, StoresTheNext, ReaderTypes DEF ConstantsAssumption
  <2>4. ReadUpTo = cursor[i] /\ ReadUpTo' = cursor[i]
    BY <2>1, <2>2, <2>3 DEF ReadUpTo
  <2>5. UNCHANGED <<Handling, Decided>>
    BY <2>2 DEF Handling, InFlight, Decided
  <2>6. Reader!Store
    BY <2>1, <2>2, <2>3, <2>4, <2>5 DEF Reader!Store
  <2> QED BY <2>6 DEF Reader!ReaderNext
<1>6. ASSUME NEW i \in Instances, Take(i)
      PROVE  [Reader!ReaderNext]_(Reader!rvars)
  <2>1. PICK m \in Messages : Takes(i, m) /\ Outcome(i, m) /\ stage[i][m] = "none"
    BY <1>6, <1>a, TakeOutcome
  <2>2. owner = i /\ m = ReadUpTo + 1
    BY <2>1, TakesTheNext DEF Takes
  <2>3. m \in buffer[i] /\ committed < m /\ m \in Nat /\ m <= produced
        /\ committed \in Nat /\ owner # NoOwner /\ produced \in Nat
    BY <2>1, <1>a, OwnersPart, ReaderTypes DEF Takes, IsNext
  <2>4. /\ cursor'[i] = m
        /\ UNCHANGED <<produced, committed, owner>>
    BY <2>1, <1>a DEF Takes, TypeOK
  <2>5. ReadUpTo' = m
    BY <2>2, <2>3, <2>4 DEF ReadUpTo
  <2>6. \A j \in Instances : j # i => InFlight(j) = {} /\ stage[j][m] = "none"
    BY <1>a, <2>2 DEF OthersIdle, InFlight
  <2>7. Handling = InFlight(i) /\ m \notin Handling
    BY <2>1, <2>6 DEF Handling, InFlight
  <2>8. Cardinality(Handling) < BatchSize
    BY <2>1, <2>7 DEF Takes, HasSlot
  <2>9. \/ Handling' = Handling \cup {m} /\ UNCHANGED Decided
        \/ UNCHANGED Handling /\ Decided' = Decided \cup {m}
    BY <2>1, <2>6, <2>7, OutcomeMaps
  <2>10. ReadUpTo \in Int
    BY <1>a, <2>2, <2>3, ReaderTypes DEF ReadUpTo
  <2>11. ReadUpTo < produced
    BY <2>2, <2>3, <2>10
  <2>12. Reader!Start
    <3>1. /\ ReadUpTo' = ReadUpTo + 1
          /\ \/ Decided' = Decided \cup {ReadUpTo + 1} /\ UNCHANGED Handling
             \/ Handling' = Handling \cup {ReadUpTo + 1} /\ UNCHANGED Decided
      BY <2>2, <2>5, <2>9
    <3>2. UNCHANGED <<produced, committed>>
      BY <2>4
    <3>3. Reader!Cardinality(Handling) < BatchSize
      BY <2>8 DEF Cardinality, Reader!Cardinality
    <3> QED BY <2>11, <3>1, <3>2, <3>3 DEF Reader!Start
  <2> QED BY <2>12 DEF Reader!ReaderNext
<1>7. ASSUME NEW i \in Instances, Crash(i)
      PROVE  [Reader!ReaderNext]_(Reader!rvars)
  <2>1. /\ owner' = IF owner = i THEN NoOwner ELSE owner
        /\ UNCHANGED <<produced, committed, fate>>
        /\ \A j \in Instances : j # i => cursor'[j] = cursor[j] /\ InFlight(j)' = InFlight(j)
        /\ InFlight(i)' = {}
    BY <1>7, <1>a DEF Crash, TypeOK, InFlight
  <2>2. UNCHANGED Decided
    BY <2>1 DEF Decided
  <2>3. CASE owner = i
    <3>1. ReadUpTo' = committed
      BY <2>1, <2>3 DEF ReadUpTo
    <3>2. \A j \in Instances : InFlight(j)' = {}
      BY <1>a, <2>1, <2>3 DEF OthersIdle
    <3>3. Handling' = {}
      BY <3>2 DEF Handling
    <3>4. Reader!FallBack
      BY <2>1, <2>2, <3>1, <3>3 DEF Reader!FallBack
    <3> QED BY <3>4 DEF Reader!ReaderNext
  <2>4. CASE owner # i
    <3>1. \A j \in Instances : InFlight(j)' = InFlight(j)
      BY <1>a, <2>1, <2>4 DEF OthersIdle
    <3>2. UNCHANGED Handling
      BY <3>1 DEF Handling
    <3>3. UNCHANGED ReadUpTo
      BY <1>a, <2>1, <2>4 DEF ReadUpTo, TypeOK
    <3> QED BY <2>1, <2>2, <3>2, <3>3 DEF Reader!rvars
  <2> QED BY <2>3, <2>4
<1>8. ASSUME NEW i \in Instances, NEW m \in Messages,
             HandlerReturns(i, m) \/ SendReturns(i, m)
      PROVE  [Reader!ReaderNext]_(Reader!rvars)
  <2>1. /\ Outcome(i, m) /\ stage[i][m] # "none"
        /\ UNCHANGED <<produced, committed, owner, cursor>>
    BY <1>8, <1>a, ReturnsAdvance, ReturnsOutcome
  <2>2. UNCHANGED ReadUpTo
    BY <2>1 DEF ReadUpTo
  <2>3. m \in Handling
    BY <2>1 DEF Handling, InFlight
  <2>4. \A j \in Instances : j # i => stage[j][m] = "none"
    BY <1>a, <2>1 DEF OthersIdle, InFlight
  <2>5. CASE Handling' = Handling \cup {m} /\ UNCHANGED Decided
    <3>1. UNCHANGED Handling
      BY <2>3, <2>5
    <3> QED BY <2>1, <2>2, <2>5, <3>1 DEF Reader!rvars
  <2>6. CASE Handling' = Handling \ {m} /\ Decided' = Decided \cup {m}
    <3>1. Reader!End(m)
      BY <2>1, <2>2, <2>3, <2>6 DEF Reader!End
    <3> QED BY <2>3, <3>1 DEF Reader!ReaderNext
  <2> QED BY <2>1, <2>4, <2>5, <2>6, OutcomeMaps
<1> QED BY <1>1, <1>2, <1>3, <1>4, <1>5, <1>6, <1>7, <1>8 DEF Next

\* As long as no partition moves between live replicas the service is one
\* reader of the log, however many replicas it has and whichever of them die.
THEOREM Refinement == Spec /\ [](moves = 0) => ImplementsLogReader
<1>1. IInv /\ ReaderInv /\ moves = 0 /\ (moves = 0)' /\ [Next]_vars
        => [Reader!ReaderNext]_(Reader!rvars)
  BY StepMaps
<1> QED BY <1>1, InitMaps, Invariance, OneReaderUntilMoved, PTL
        DEF Spec, ImplementsLogReader, Reader!ReaderSpec

-----------------------------------------------------------------------------
(* The reader does not stop before the end of the log.                     *)

\* The owner has nothing to poll, to take or to store.
Exhausted(i) ==
  owner = i /\ buffer[i] = {} /\ toStore[i] = {} /\ Fetched(i) = {}

\* Then everything in the log is taken and its offset stored, and every request
\* is decided, in flight at the owner, or fell with a replica.
EndReached(i) ==
  /\ committed = produced
  /\ \A m \in 1..produced : fate[m] # {} \/ stage[i][m] # "none" \/ m \in abandoned

LEMMA ExhaustedAtEnd ==
  ASSUME IInv, ReaderInv, moves = 0, NEW i \in Instances, Exhausted(i)
  PROVE  EndReached(i)
<1>1. /\ TypeOK /\ OthersIdle /\ StoresAll
      /\ committed \in Nat /\ produced \in Nat /\ committed <= produced
      /\ cursor[i] \in Nat /\ cursor[i] <= produced
      /\ BatchSize \in Nat /\ BatchSize > 0
      /\ \A n \in 1..produced : n \in Messages
  BY ReaderTypes DEF IInv, ReaderInv, OneReader, ConstantsAssumption
<1>2. cursor[i] <= committed
  <2> SUFFICES ASSUME committed < cursor[i] PROVE FALSE
    BY <1>1
  <2>1. committed + 1 \in 1..produced /\ committed + 1 <= cursor[i] /\ committed < committed + 1
    BY <1>1
  <2>2. committed + 1 \in toStore[i]
    BY <1>1, <2>1 DEF Exhausted, StoresAll
  <2> QED BY <2>2 DEF Exhausted
<1>3. committed = produced
  <2> SUFFICES ASSUME committed < produced PROVE FALSE
    BY <1>1
  <2>1. /\ committed + 1 \in 1..produced /\ committed < committed + 1
        /\ committed + 1 <= committed + BatchSize /\ cursor[i] < committed + 1
    BY <1>1, <1>2
  <2>2. committed + 1 \in Fetched(i)
    BY <2>1 DEF Fetched, PollBase
  <2> QED BY <2>2 DEF Exhausted
<1>4. ASSUME NEW m \in 1..produced
      PROVE  fate[m] # {} \/ stage[i][m] # "none" \/ m \in abandoned
  <2>1. m \in Messages /\ m <= committed
    BY <1>1, <1>3
  <2>2. taken[m] > 0
    BY <2>1 DEF IInv, LossInv, NothingSkipped
  <2>3. fate[m] # {} \/ m \in abandoned \/ \E j \in Instances : stage[j][m] # "none"
    BY <2>1, <2>2 DEF IInv, LossInv, TakenAccounted
  <2>4. \A j \in Instances : stage[j][m] # "none" => j = i
    BY <1>1, <2>1 DEF OthersIdle, InFlight, Exhausted
  <2> QED BY <2>3, <2>4
<1> QED BY <1>3, <1>4 DEF EndReached

\* The safety that SlowHandlerDelaysOnlyItself rests on: while no partition
\* moves, an owner runs out of work only at the end of the log.  As long as a
\* request waits there is something to poll, to store, or to take once there
\* is a slot.  (A replica that lost the partition may store an old offset, and
\* the new owner then polls nothing but what it has taken already: the
\* hypothesis is needed.)
THEOREM NeverStuck ==
  Spec => [](moves = 0 => \A i \in Instances : Exhausted(i) => EndReached(i))
<1>1. IInv /\ ReaderInv =>
        (moves = 0 => \A i \in Instances : Exhausted(i) => EndReached(i))
  BY ExhaustedAtEnd
<1> QED BY <1>1, Invariance, OneReaderUntilMoved, PTL

=============================================================================
