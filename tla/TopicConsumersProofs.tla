------------------------ MODULE TopicConsumersProofs ------------------------
(***************************************************************************)
(* Proofs about run_service_consumers_all_topic_types for a config of any  *)
(* length, whatever the consumers do.                                      *)
(*                                                                         *)
(* What the call starts is decided by ListedTypes, which InOrder defines   *)
(* by counting.  EveryRank shows that the members it chooses exist: ranks  *)
(* are distinct numbers of 1..n for n members, so every number of the      *)
(* interval is a rank.  The other facts about the list follow from it.     *)
(***************************************************************************)
EXTENDS TopicConsumers, TLAPS, FiniteSetTheorems

USE ConstantsAssumption

\* What is served is what the config lists, once there is something to serve,
\* and joining starts when all of it is spawned.
TypesAreListed ==
  /\ types = <<>> \/ (AllParse(config) /\ types = ListedTypes(config))
  /\ phase \in {"spawning", "joining"} => types # <<>>
  /\ phase = "joining" => Len(tasks) = Len(types)

\* Nothing runs before the config and the methods were accepted.
NoneBeforeSpawning ==
  /\ phase \in {"reading", "checking", "panicked"} => tasks = <<>>
  /\ phase = "reading" => types = <<>>

\* A consumer leaves the JoinSet only when it has stopped, and the call
\* returns only with an empty JoinSet.
JoinedHaveStopped ==
  \A k \in 1..Len(tasks) : k \notin unjoined => tasks[k] \in Stopped
EndedWithoutConsumers == phase \in {"returned", "dropped"} => unjoined = {}

IInv ==
  /\ TypeOK /\ TypesAreListed /\ NoneBeforeSpawning
  /\ JoinedHaveStopped /\ EndedWithoutConsumers

-----------------------------------------------------------------------------
(* The list of topic types: InOrder picks the members of a set of          *)
(* positions one by one, smallest first.                                   *)

UpTo(ks, k) == {j \in ks : j <= k}

\* The member of ks that InOrder puts at place n
At(ks, n) == CHOOSE k \in ks : Cardinality(UpTo(ks, k)) = n

\* Every set of positions is finite, and so is what it is made of.
LEMMA UpToFinite ==
  ASSUME NEW ks, IsFiniteSet(ks), NEW k
  PROVE  /\ IsFiniteSet(UpTo(ks, k)) /\ Cardinality(UpTo(ks, k)) \in Nat
         /\ Cardinality(UpTo(ks, k)) <= Cardinality(ks) /\ Cardinality(ks) \in Nat
<1>1. UpTo(ks, k) \subseteq ks
  BY DEF UpTo
<1> QED BY <1>1, FS_Subset, FS_CardinalityType

\* A smaller member of a set has fewer members up to it.
LEMMA RankGrows ==
  ASSUME NEW ks, IsFiniteSet(ks), ks \subseteq Nat, NEW j \in ks, NEW k \in ks, j < k
  PROVE  Cardinality(UpTo(ks, j)) < Cardinality(UpTo(ks, k))
<1>0. j \in Nat /\ k \in Nat /\ \A i \in ks : i \in Nat
  OBVIOUS
<1>1. UpTo(ks, j) \subseteq UpTo(ks, k) \ {k}
  <2> SUFFICES ASSUME NEW i \in ks, i <= j PROVE i <= k /\ i # k
    BY DEF UpTo
  <2>1. i \in Nat /\ j \in Nat /\ k \in Nat /\ i <= j /\ j < k
    BY <1>0
  <2> QED BY <2>1
<1>2. k \in UpTo(ks, k)
  BY <1>0 DEF UpTo
<1>3. /\ IsFiniteSet(UpTo(ks, k) \ {k})
      /\ Cardinality(UpTo(ks, k) \ {k}) = Cardinality(UpTo(ks, k)) - 1
  BY <1>2, UpToFinite, FS_RemoveElement
<1>4. Cardinality(UpTo(ks, j)) <= Cardinality(UpTo(ks, k) \ {k})
  BY <1>1, <1>3, FS_Subset
<1> QED BY <1>3, <1>4, UpToFinite

\* Ranks are different numbers of 1..Cardinality(ks), one for each member, so
\* every number of the interval is the rank of a member.
LEMMA EveryRank ==
  ASSUME NEW ks, IsFiniteSet(ks), ks \subseteq Nat, NEW n \in 1..Cardinality(ks)
  PROVE  At(ks, n) \in ks /\ Cardinality(UpTo(ks, At(ks, n))) = n
<1> DEFINE T == 1..Cardinality(ks)
           rank == [k \in ks |-> Cardinality(UpTo(ks, k))]
<1>0. Cardinality(ks) \in Nat
  BY FS_CardinalityType
<1>1. rank \in [ks -> T]
  <2> SUFFICES ASSUME NEW k \in ks PROVE Cardinality(UpTo(ks, k)) \in T
    OBVIOUS
  <2>1. k \in UpTo(ks, k)
    BY DEF UpTo
  <2>2. Cardinality(UpTo(ks, k)) # 0
    BY <2>1, UpToFinite, FS_EmptySet
  <2> QED BY <2>2, UpToFinite
<1>2. ASSUME NEW j \in ks, NEW k \in ks, rank[j] = rank[k] PROVE j = k
  <2>1. j \in Nat /\ k \in Nat
    OBVIOUS
  <2>2. Cardinality(UpTo(ks, j)) = Cardinality(UpTo(ks, k))
    BY <1>2
  <2>3. ~(j < k)
    <3>1. j < k => Cardinality(UpTo(ks, j)) < Cardinality(UpTo(ks, k))
      BY RankGrows
    <3>2. Cardinality(UpTo(ks, k)) \in Nat
      BY UpToFinite
    <3> QED BY <2>2, <3>1, <3>2
  <2>4. ~(k < j)
    <3>1. k < j => Cardinality(UpTo(ks, k)) < Cardinality(UpTo(ks, j))
      BY RankGrows
    <3>2. Cardinality(UpTo(ks, k)) \in Nat
      BY UpToFinite
    <3> QED BY <2>2, <3>1, <3>2
  <2> QED BY <2>1, <2>3, <2>4
<1>3. rank \in Injection(ks, T)
  <2> HIDE DEF rank, T
  <2> QED BY <1>1, <1>2 DEF Injection, IsInjective
<1>4. IsFiniteSet(T) /\ Cardinality(T) = Cardinality(ks)
  BY <1>0, FS_Interval
<1>5. rank \in Surjection(ks, T)
  <2> HIDE DEF rank, T
  <2> QED BY <1>3, <1>4, FS_Injection
<1>6. \E k \in ks : rank[k] = n
  <2>1. \A t \in T : \E k \in ks : rank[k] = t
    <3> HIDE DEF rank, T
    <3> QED BY <1>5 DEF Surjection
  <2> QED BY <2>1
<1>7. \E k \in ks : Cardinality(UpTo(ks, k)) = n
  BY <1>6
<1> QED BY <1>7 DEF At

\* InOrder lists the members without repetition, in ascending order.
LEMMA InAscendingOrder ==
  ASSUME NEW ks, IsFiniteSet(ks), ks \subseteq Nat,
         NEW m \in 1..Cardinality(ks), NEW n \in 1..Cardinality(ks), m < n
  PROVE  At(ks, m) < At(ks, n)
<1>1. /\ At(ks, m) \in ks /\ Cardinality(UpTo(ks, At(ks, m))) = m
      /\ At(ks, n) \in ks /\ Cardinality(UpTo(ks, At(ks, n))) = n
  BY EveryRank
<1>2. At(ks, m) # At(ks, n)
  BY <1>1
<1>3. ~(At(ks, n) < At(ks, m))
  <2> SUFFICES ASSUME At(ks, n) < At(ks, m) PROVE FALSE
    OBVIOUS
  <2>1. Cardinality(UpTo(ks, At(ks, n))) < Cardinality(UpTo(ks, At(ks, m)))
    BY <1>1, RankGrows
  <2> QED BY <1>1, <2>1
<1>4. At(ks, m) \in Nat /\ At(ks, n) \in Nat
  BY <1>1
<1> QED BY <1>2, <1>3, <1>4

\* and leaves none out.
LEMMA EveryMember ==
  ASSUME NEW ks, IsFiniteSet(ks), ks \subseteq Nat, NEW k \in ks
  PROVE  \E n \in 1..Cardinality(ks) : At(ks, n) = k
<1> DEFINE n == Cardinality(UpTo(ks, k))
<1>1. k \in UpTo(ks, k)
  BY DEF UpTo
<1>2. n \in 1..Cardinality(ks)
  BY <1>1, UpToFinite, FS_EmptySet
<1>3. At(ks, n) \in ks /\ Cardinality(UpTo(ks, At(ks, n))) = n
  BY <1>2, EveryRank
<1>4. ~(At(ks, n) < k) /\ ~(k < At(ks, n))
  <2>1. n \in Nat
    BY <1>2
  <2>2. At(ks, n) < k => n < n
    BY <1>3, RankGrows
  <2>3. k < At(ks, n) => n < n
    BY <1>3, RankGrows
  <2> QED BY <2>1, <2>2, <2>3
<1>5. At(ks, n) = k
  <2>1. At(ks, n) \in Nat /\ k \in Nat
    BY <1>3
  <2> QED BY <1>4, <2>1
<1> QED BY <1>2, <1>5

\* A set of positions that is not empty has a first one.
LEMMA FirstMember ==
  ASSUME NEW ks, IsFiniteSet(ks), ks \subseteq Nat, ks # {}
  PROVE  \E k \in ks : \A j \in ks : k <= j
<1>1. Cardinality(ks) \in Nat /\ Cardinality(ks) # 0
  BY FS_CardinalityType, FS_EmptySet
<1>2. 1 \in 1..Cardinality(ks)
  BY <1>1
<1>3. At(ks, 1) \in ks
  BY <1>2, EveryRank
<1>4. ASSUME NEW j \in ks PROVE At(ks, 1) <= j
  <2>1. PICK n \in 1..Cardinality(ks) : At(ks, n) = j
    BY EveryMember
  <2>2. CASE n = 1
    BY <2>1, <2>2, <1>3
  <2>3. CASE 1 < n
    <3>1. At(ks, 1) < At(ks, n)
      BY <1>2, <2>3, InAscendingOrder
    <3>2. At(ks, 1) \in Nat /\ j \in Nat /\ At(ks, 1) < j
      BY <1>3, <2>1, <3>1
    <3> QED BY <3>2
  <2> QED BY <1>1, <2>1, <2>2, <2>3
<1> QED BY <1>3, <1>4

\* The list as the code computes it: the topic types of the entries that
\* repeat none before them, in the order of the config.
LEMMA ListedFacts ==
  ASSUME NEW s \in Seq(Entries)
  PROVE  /\ IsFiniteSet(FirstOccurrences(s)) /\ FirstOccurrences(s) \subseteq 1..Len(s)
         /\ Cardinality(FirstOccurrences(s)) \in 0..Len(s)
         /\ ListedTypes(s) = [n \in 1..Cardinality(FirstOccurrences(s)) |->
                                s[At(FirstOccurrences(s), n)].type]
<1>0. Len(s) \in Nat
  OBVIOUS
<1>1. IsFiniteSet(1..Len(s)) /\ Cardinality(1..Len(s)) = Len(s)
  BY <1>0, FS_Interval
<1>2. FirstOccurrences(s) \subseteq 1..Len(s)
  BY DEF FirstOccurrences
<1>3. /\ IsFiniteSet(FirstOccurrences(s)) /\ Cardinality(FirstOccurrences(s)) \in Nat
      /\ Cardinality(FirstOccurrences(s)) <= Len(s)
  BY <1>0, <1>1, <1>2, FS_Subset, FS_CardinalityType
<1>4. ListedTypes(s) = [n \in 1..Cardinality(FirstOccurrences(s)) |->
                          s[At(FirstOccurrences(s), n)].type]
  BY DEF ListedTypes, InOrder, At, UpTo
<1> QED BY <1>0, <1>2, <1>3, <1>4

\* No entry that does not parse is listed, and there are at most as many
\* topic types as entries.
LEMMA ListedType ==
  ASSUME NEW s \in Seq(Entries), AllParse(s)
  PROVE  /\ ListedTypes(s) \in Seq(TopicTypes) /\ Len(ListedTypes(s)) <= Len(s)
         /\ Len(ListedTypes(s)) = Cardinality(FirstOccurrences(s))
<1> DEFINE ks == FirstOccurrences(s)
           N == Cardinality(ks)
<1>1. /\ IsFiniteSet(ks) /\ ks \subseteq 1..Len(s) /\ ks \subseteq Nat
      /\ N \in Nat /\ N <= Len(s)
      /\ ListedTypes(s) = [n \in 1..N |-> s[At(ks, n)].type]
  BY ListedFacts
<1>2. ASSUME NEW n \in 1..N PROVE s[At(ks, n)].type \in TopicTypes
  <2>1. At(ks, n) \in 1..Len(s)
    BY <1>1, EveryRank
  <2>2. s[At(ks, n)] \in Entries /\ s[At(ks, n)].type # "bad"
    BY <2>1 DEF AllParse
  <2> QED BY <2>2 DEF Entries
<1> HIDE DEF N, ks
<1>3. ListedTypes(s) \in [1..N -> TopicTypes]
  BY <1>1, <1>2
<1>4. ListedTypes(s) \in Seq(TopicTypes) /\ Len(ListedTypes(s)) = N
  BY <1>1, <1>3
<1> QED BY <1>1, <1>4 DEF N, ks

\* Every entry's topic type is listed: the first entry equal to it is.
LEMMA ListedAll ==
  ASSUME NEW s \in Seq(Entries), NEW k \in 1..Len(s)
  PROVE  \E n \in 1..Cardinality(FirstOccurrences(s)) : ListedTypes(s)[n] = s[k].type
<1> DEFINE same == {j \in 1..Len(s) : s[j] = s[k]}
<1>1. IsFiniteSet(same) /\ same \subseteq Nat /\ k \in same
  <2>1. IsFiniteSet(1..Len(s)) /\ same \subseteq 1..Len(s)
    BY FS_Interval
  <2> QED BY <2>1, FS_Subset
<1>2. PICK f \in same : \A j \in same : f <= j
  <2> HIDE DEF same
  <2> QED BY <1>1, FirstMember
<1>3. f \in 1..Len(s) /\ s[f] = s[k]
  OBVIOUS
<1>4. f \in FirstOccurrences(s)
  <2> SUFFICES ASSUME NEW j \in 1..(f - 1), s[j] = s[f] PROVE FALSE
    BY <1>3 DEF FirstOccurrences
  <2>1. j \in 1..Len(s) /\ j < f
    BY <1>3
  <2>2. j \in same
    BY <2>1, <1>3
  <2>3. f <= j
    BY <2>2, <1>2
  <2> QED BY <2>1, <2>3, <1>3
<1>5. /\ IsFiniteSet(FirstOccurrences(s)) /\ FirstOccurrences(s) \subseteq Nat
      /\ ListedTypes(s) = [n \in 1..Cardinality(FirstOccurrences(s)) |->
                             s[At(FirstOccurrences(s), n)].type]
  BY ListedFacts
<1>6. PICK n \in 1..Cardinality(FirstOccurrences(s)) : At(FirstOccurrences(s), n) = f
  BY <1>4, <1>5, EveryMember
<1> QED BY <1>3, <1>5, <1>6

-----------------------------------------------------------------------------
(* The inductive invariant.                                                *)

\* The config is a sequence of entries.
LEMMA ConfigType == TypeOK => config \in Seq(Entries)
<1> SUFFICES ASSUME TypeOK PROVE config \in Seq(Entries)
  OBVIOUS
<1>1. PICK n \in 0..MaxEntries : config \in [1..n -> Entries]
  BY DEF TypeOK, Configs
<1> QED BY <1>1

LEMMA InvInit == Init => IInv
<1> SUFFICES ASSUME Init PROVE IInv
  OBVIOUS
<1>1. /\ types = <<>> /\ tasks = <<>> /\ unjoined = {} /\ phase = "reading"
      /\ config \in Configs /\ methods \in SUBSET MethodTopics
  BY DEF Init
<1>2. Len(config) \in Nat
  <2>1. PICK n \in 0..MaxEntries : config \in [1..n -> Entries]
    BY <1>1 DEF Configs
  <2>2. config \in Seq(Entries)
    BY <2>1
  <2> QED BY <2>2
<1>3. TypeOK
  BY <1>1, <1>2 DEF TypeOK, Phases
<1>4. Len(tasks) = 0
  BY <1>1
<1>5. TypesAreListed /\ NoneBeforeSpawning
  <2>1. phase # "joining" /\ phase # "spawning" /\ phase # "dropped"
    BY <1>1
  <2>2. TypesAreListed
    BY <1>1, <2>1, Zenon DEF TypesAreListed
  <2>4. NoneBeforeSpawning
    BY <1>1 DEF NoneBeforeSpawning
  <2> QED BY <2>2, <2>4
<1>6. JoinedHaveStopped /\ EndedWithoutConsumers
  BY <1>1, <1>4 DEF JoinedHaveStopped, EndedWithoutConsumers
<1> QED BY <1>3, <1>5, <1>6 DEF IInv

\* Once spawned, consumers start and stop on their own.
LEMMA ConsumerStep ==
  ASSUME IInv, NEW k \in 1..Len(tasks), StartConsumer(k) \/ StopConsumer(k)
  PROVE  IInv'
<1>1. PICK s \in Running \cup Stopped : tasks' = [tasks EXCEPT ![k] = s]
  BY DEF StartConsumer, StopConsumer, Running, Stopped
<1>2. /\ UNCHANGED <<config, methods, phase, types, unjoined>>
      /\ tasks[k] \in Running
  BY DEF StartConsumer, StopConsumer, Running
<1>3. tasks \in Seq(Running \cup Stopped) /\ Len(tasks) \in Nat
  BY DEF IInv, TypeOK
<1>4. /\ tasks' \in Seq(Running \cup Stopped) /\ Len(tasks') = Len(tasks)
      /\ \A j \in 1..Len(tasks) : j # k => tasks'[j] = tasks[j]
  BY <1>1, <1>3
<1>5. tasks # <<>> /\ tasks' # <<>>
  BY <1>3, <1>4
<1>6. TypeOK'
  BY <1>2, <1>4 DEF IInv, TypeOK
<1>7. k \in unjoined
  BY <1>2 DEF IInv, JoinedHaveStopped, Running, Stopped
<1>8. JoinedHaveStopped'
  BY <1>2, <1>4, <1>7 DEF IInv, JoinedHaveStopped
<1>9. TypesAreListed' /\ NoneBeforeSpawning' /\ EndedWithoutConsumers'
  BY <1>2, <1>4, <1>5 DEF IInv, TypesAreListed, NoneBeforeSpawning,
                          EndedWithoutConsumers
<1> QED BY <1>6, <1>8, <1>9 DEF IInv

LEMMA InvStep == IInv /\ [Next]_vars => IInv'
<1> SUFFICES ASSUME IInv, [Next]_vars PROVE IInv'
  OBVIOUS
<1>a. /\ TypeOK /\ config \in Seq(Entries)
      /\ types \in Seq(TopicTypes) /\ Len(types) \in Nat
      /\ tasks \in Seq(Running \cup Stopped) /\ Len(tasks) \in Nat
  BY ConfigType DEF IInv, TypeOK
<1>1. CASE GetConfigTopicTypes
  <2>1. /\ tasks = <<>> /\ tasks' = <<>> /\ types = <<>>
        /\ unjoined' = unjoined /\ UNCHANGED <<config, methods>>
    BY <1>1 DEF GetConfigTopicTypes, IInv, NoneBeforeSpawning
  <2>2. \/ AllParse(config) /\ types' = ListedTypes(config) /\ phase' = "checking"
        \/ types' = <<>> /\ phase' = "returned"
    BY <1>1, <2>1 DEF GetConfigTopicTypes
  <2>3. types' \in Seq(TopicTypes) /\ Len(types') \in Nat /\ Len(types') <= Len(config)
    <3>1. CASE AllParse(config) /\ types' = ListedTypes(config)
      BY <1>a, <3>1, ListedType
    <3>2. CASE types' = <<>>
      BY <1>a, <3>2
    <3> QED BY <2>2, <3>1, <3>2
  <2>4. unjoined' = {} /\ tasks' = <<>>
    BY <2>1, <1>a DEF TypeOK
  <2>5. TypeOK'
    BY <2>1, <2>2, <2>3, <2>4, <1>a DEF TypeOK, Phases
  <2>6. TypesAreListed'
    <3>1. phase' # "joining" /\ phase' # "spawning" /\ config' = config
      BY <2>1, <2>2
    <3>2. types' = <<>> \/ (AllParse(config) /\ types = ListedTypes(config))'
      BY <2>2, <3>1
    <3> QED BY <3>1, <3>2, Zenon DEF TypesAreListed
  <2> QED BY <2>1, <2>2, <2>4, <2>5, <2>6
          DEF IInv, NoneBeforeSpawning, JoinedHaveStopped,
              EndedWithoutConsumers
<1>2. CASE ValidateRpcMethods
  <2>1. /\ phase = "checking" /\ UNCHANGED <<config, methods, types, tasks, unjoined>>
        /\ \/ phase' = "spawning" /\ types # <<>>
           \/ phase' = "panicked"
        /\ tasks = <<>>
    BY <1>2 DEF ValidateRpcMethods, IInv, NoneBeforeSpawning
  <2>2. TypeOK'
    BY <2>1, <1>a DEF TypeOK, Phases
  <2> QED BY <2>1, <2>2 DEF IInv, TypesAreListed, NoneBeforeSpawning,
                            JoinedHaveStopped, EndedWithoutConsumers
<1>3. CASE Spawn
  <2>1. /\ tasks' = Append(tasks, "starting") /\ Len(tasks) < Len(types)
        /\ unjoined' = unjoined \cup {Len(tasks) + 1}
        /\ phase = "spawning" /\ UNCHANGED <<config, methods, phase, types>>
    BY <1>3 DEF Spawn
  <2>2. /\ tasks' \in Seq(Running \cup Stopped) /\ Len(tasks') = Len(tasks) + 1
        /\ \A k \in 1..Len(tasks) : tasks'[k] = tasks[k]
    BY <1>a, <2>1 DEF Running
  <2>3. 1..Len(tasks') = (1..Len(tasks)) \cup {Len(tasks) + 1}
    BY <1>a, <2>2
  <2>4. TypeOK'
    <3>1. Len(tasks') <= Len(types')
      BY <1>a, <2>1, <2>2
    <3>2. unjoined' \subseteq 1..Len(tasks')
      BY <1>a, <2>1, <2>3 DEF TypeOK
    <3> QED BY <1>a, <2>1, <2>2, <3>1, <3>2 DEF TypeOK
  <2>5. JoinedHaveStopped'
    BY <2>1, <2>2, <2>3 DEF IInv, JoinedHaveStopped
  <2> QED BY <2>1, <2>4, <2>5 DEF IInv, TypesAreListed, NoneBeforeSpawning, EndedWithoutConsumers
<1>4. CASE AllSpawned
  <2>1. /\ phase = "spawning" /\ phase' = "joining" /\ Len(tasks) = Len(types)
        /\ UNCHANGED <<config, methods, types, tasks, unjoined>>
    BY <1>4 DEF AllSpawned
  <2>2. TypeOK'
    BY <2>1, <1>a DEF TypeOK, Phases
  <2> QED BY <2>1, <2>2 DEF IInv, TypesAreListed, NoneBeforeSpawning,
                            JoinedHaveStopped, EndedWithoutConsumers
<1>5. CASE JoinNext
  <2>1. PICK k \in unjoined : tasks[k] \in Stopped /\ unjoined' = unjoined \ {k}
    BY <1>5 DEF JoinNext
  <2>2. phase = "joining" /\ UNCHANGED <<config, methods, phase, types, tasks>>
    BY <1>5 DEF JoinNext
  <2>3. TypeOK'
    BY <2>1, <2>2, <1>a DEF TypeOK
  <2>4. JoinedHaveStopped'
    BY <2>1, <2>2 DEF IInv, JoinedHaveStopped
  <2> QED BY <2>2, <2>3, <2>4 DEF IInv, TypesAreListed, NoneBeforeSpawning, EndedWithoutConsumers
<1>6. CASE ReturnError
  <2>1. /\ phase = "joining" /\ unjoined = {} /\ phase' = "returned"
        /\ UNCHANGED <<config, methods, types, tasks, unjoined>>
    BY <1>6 DEF ReturnError
  <2>2. TypeOK'
    BY <2>1, <1>a DEF TypeOK, Phases
  <2> QED BY <2>1, <2>2 DEF IInv, TypesAreListed, NoneBeforeSpawning,
                            JoinedHaveStopped, EndedWithoutConsumers
<1>7. CASE CallerDrops
  <2>1. /\ phase = "joining" /\ phase' = "dropped" /\ unjoined' = {}
        /\ tasks' = [k \in 1..Len(tasks) |->
                       IF tasks[k] \in Running THEN "aborted" ELSE tasks[k]]
        /\ UNCHANGED <<config, methods, types>>
    BY <1>7 DEF CallerDrops
  <2>2. \A k \in 1..Len(tasks) : tasks[k] \in Running \cup Stopped
    BY <1>a
  <2>3. tasks' \in [1..Len(tasks) -> Stopped]
    BY <2>1, <2>2 DEF Stopped, Running
  <2>4. tasks' \in Seq(Running \cup Stopped) /\ Len(tasks') = Len(tasks)
    BY <1>a, <2>3
  <2>5. TypeOK'
    BY <2>1, <2>4, <1>a DEF TypeOK, Phases
  <2>6. JoinedHaveStopped'
    BY <2>3, <2>4 DEF JoinedHaveStopped
  <2> QED BY <2>1, <2>5, <2>6 DEF IInv, TypesAreListed, NoneBeforeSpawning, EndedWithoutConsumers
<1>8. CASE UNCHANGED vars
  BY <1>8 DEF vars, IInv, TypeOK, TypesAreListed, NoneBeforeSpawning,
              JoinedHaveStopped, EndedWithoutConsumers
<1> QED BY <1>1, <1>2, <1>3, <1>4, <1>5, <1>6, <1>7, <1>8, ConsumerStep DEF Next

\* IInv is an invariant for every config.
THEOREM Invariance == Spec => []IInv
BY InvInit, InvStep, PTL DEF Spec

-----------------------------------------------------------------------------
(* The theorems.                                                           *)

\* The state is well typed: what is served is a topic type, and no more
\* consumers are spawned than the config has entries.
THEOREM TypeCorrect == Spec => []TypeOK
<1>1. IInv => TypeOK
  BY DEF IInv
<1> QED BY <1>1, Invariance, PTL

\* Once the call is over, whatever ended it, no consumer runs on.
THEOREM NothingLeftBehind == Spec => []NoConsumerLeftBehind
<1>1. IInv => NoConsumerLeftBehind
  BY DEF IInv, TypeOK, NoneBeforeSpawning, JoinedHaveStopped,
         EndedWithoutConsumers, NoConsumerLeftBehind
<1> QED BY <1>1, Invariance, PTL

\* Once the service waits for its consumers, every topic type the config lists
\* has been given one: neither unique() nor a repetition loses a type.
AllListedSpawned ==
  phase = "joining" =>
    \A j \in 1..Len(config) : \E k \in 1..Len(tasks) : types[k] = config[j].type

THEOREM EveryTypeSpawned == Spec => []AllListedSpawned
<1>1. IInv => AllListedSpawned
  <2> SUFFICES ASSUME IInv, phase = "joining", NEW j \in 1..Len(config)
               PROVE  \E k \in 1..Len(tasks) : types[k] = config[j].type
    BY DEF AllListedSpawned
  <2>1. /\ AllParse(config) /\ types = ListedTypes(config) /\ Len(tasks) = Len(types)
        /\ config \in Seq(Entries)
    BY ConfigType DEF IInv, TypesAreListed
  <2>2. Len(tasks) = Cardinality(FirstOccurrences(config))
    BY <2>1, ListedType
  <2> QED BY <2>1, <2>2, ListedAll
<1> QED BY <1>1, Invariance, PTL

\* Two consumers of one topic type were listed in different spellings.
LEMMA SpellingsDiffer ==
  ASSUME IInv, NEW j \in 1..Len(tasks), NEW k \in 1..Len(tasks), types[j] = types[k]
  PROVE  LET ks == FirstOccurrences(config)
         IN  /\ At(ks, j) \in 1..Len(config) /\ config[At(ks, j)].type = types[j]
             /\ config[At(ks, j)].spelling = config[At(ks, k)].spelling => j = k
<1> DEFINE ks == FirstOccurrences(config)
<1>1. config \in Seq(Entries) /\ tasks # <<>> /\ types # <<>>
  BY ConfigType DEF IInv, TypeOK
<1>2. AllParse(config) /\ types = ListedTypes(config)
  BY <1>1 DEF IInv, TypesAreListed
<1>3. /\ IsFiniteSet(ks) /\ ks \subseteq 1..Len(config) /\ ks \subseteq Nat
      /\ types = [n \in 1..Cardinality(ks) |-> config[At(ks, n)].type]
      /\ Len(types) = Cardinality(ks)
  BY <1>1, <1>2, ListedFacts, ListedType
<1>4. j \in 1..Cardinality(ks) /\ k \in 1..Cardinality(ks)
  <2>1. Len(tasks) \in Nat /\ Len(types) \in Nat /\ Len(tasks) <= Len(types)
    BY DEF IInv, TypeOK
  <2>2. j \in 1..Len(types) /\ k \in 1..Len(types)
    BY <2>1
  <2> QED BY <1>3, <2>2
<1>5. /\ At(ks, j) \in ks /\ Cardinality(UpTo(ks, At(ks, j))) = j
      /\ At(ks, k) \in ks /\ Cardinality(UpTo(ks, At(ks, k))) = k
  BY <1>3, <1>4, EveryRank
<1>6. types[j] = config[At(ks, j)].type /\ types[k] = config[At(ks, k)].type
  BY <1>3, <1>4
<1>7. ASSUME config[At(ks, j)].spelling = config[At(ks, k)].spelling PROVE j = k
  <2> DEFINE a == At(ks, j)
             b == At(ks, k)
  <2>1. a \in 1..Len(config) /\ b \in 1..Len(config) /\ a \in ks /\ b \in ks
    BY <1>3, <1>5
  <2>2. config[a] \in Entries /\ config[b] \in Entries
    BY <1>1, <2>1
  <2>3. config[a] = config[b]
    <3>1. config[a].type = config[b].type /\ config[a].spelling = config[b].spelling
      BY <1>6, <1>7
    <3>2. \A e \in Entries : e = [type |-> e.type, spelling |-> e.spelling]
      BY DEF Entries
    <3> HIDE DEF a, b
    <3> QED BY <2>2, <3>1, <3>2
  <2> HIDE DEF a, b
  <2>4. ~(a < b) /\ ~(b < a)
    BY <2>1, <2>3 DEF ks, FirstOccurrences
  <2>5. a = b
    BY <2>1, <2>4
  <2> QED BY <1>5, <2>5 DEF a, b
<1> QED BY <1>3, <1>5, <1>6, <1>7

\* Repeating an entry starts no second consumer of its topic: a topic type has
\* at most as many as the config has spellings of it.
THEOREM OnePerSpelling == Spec => []OneTaskPerSpelling
<1>1. IInv => OneTaskPerSpelling
  <2> SUFFICES ASSUME IInv, NEW t \in TopicTypes
               PROVE  Cardinality({k \in 1..Len(tasks) : types[k] = t}) <=
                        Cardinality({e.spelling : e \in
                          {config[k] : k \in {j \in 1..Len(config) : config[j].type = t}}})
    BY DEF OneTaskPerSpelling
  <2> DEFINE ks == FirstOccurrences(config)
             served == {k \in 1..Len(tasks) : types[k] = t}
             listed == {j \in 1..Len(config) : config[j].type = t}
             spelled == {e.spelling : e \in {config[k] : k \in listed}}
             of == [k \in served |-> config[At(ks, k)].spelling]
             spelling == [j \in listed |-> config[j].spelling]
  <2>1. IsFiniteSet(spelled)
    <3>1. IsFiniteSet(listed)
      <4>1. Len(config) \in Nat
        BY ConfigType DEF IInv
      <4>2. IsFiniteSet(1..Len(config)) /\ listed \subseteq 1..Len(config)
        BY <4>1, FS_Interval
      <4> QED BY <4>2, FS_Subset
    <3>2. spelling \in Surjection(listed, spelled)
      BY DEF Surjection
    <3> HIDE DEF spelling, listed, spelled
    <3> QED BY <3>1, <3>2, FS_Surjection
  <2>2. ASSUME NEW k \in served
        PROVE  At(ks, k) \in listed
    BY SpellingsDiffer
  <2>3. of \in [served -> spelled]
    BY <2>2
  <2>4. ASSUME NEW j \in served, NEW k \in served, of[j] = of[k] PROVE j = k
    BY <2>4, SpellingsDiffer
  <2>5. of \in Injection(served, spelled)
    <3> HIDE DEF of, served, spelled
    <3> QED BY <2>3, <2>4 DEF Injection, IsInjective
  <2> HIDE DEF of, served, spelled
  <2>6. Cardinality(served) <= Cardinality(spelled)
    BY <2>1, <2>5, FS_Injection
  <2> QED BY <2>6 DEF served, spelled
<1> QED BY <1>1, Invariance, PTL

=============================================================================
