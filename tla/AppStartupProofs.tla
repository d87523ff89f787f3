-------------------------- MODULE AppStartupProofs --------------------------
(***************************************************************************)
(* Proofs about the initialisation of APP, for any number of threads: what *)
(* the config holds when the first of them gets to use it.                 *)
(***************************************************************************)
EXTENDS AppStartup, TLAPS

USE ConstantsAssumption

\* The LazyLock lets one thread initialise at a time.
OneInitialises ==
  /\ \A t \in Threads : pc[t] \in Initialising => once = "running"
  /\ \A t, u \in Threads : pc[t] \in Initialising /\ pc[u] \in Initialising => t = u

\* Clients are built from a config whose overrides are all applied.
BuiltAfterOverriding ==
  /\ \A t \in Threads : pc[t] = "building" => pending = {}
  /\ once = "ready" => pending = {}

\* While an array is still to be replaced, so are its elements.
ElementsAfterArray ==
  \A q \in pending : \A p \in Contains(q) : env[p] # "unlisted" => p \in pending

\* An override that was applied is not undone by a later one.
AppliedStays ==
  once \in {"running", "ready"} =>
    \A p \in Paths \ pending :
      env[p] \in Set /\ config[p].kind # "absent" => config[p].from = p

\* Nothing was read before anybody asked for APP.
NothingRead == once = "new" => \A p \in Paths : config[p].kind = "absent"

\* From the moment the file is read the values have the file's JSON types.
KindsKept ==
  (once = "ready" \/ \E t \in Threads : pc[t] \in {"overriding", "building"}) =>
    \A p \in Paths :
      \/ JsonType(config[p].kind) = JsonType(file[p])
      \/ \E q \in Paths : p \in Contains(q) /\ env[q] = "array"

IInv ==
  /\ TypeOK /\ OneInitialises /\ BuiltAfterOverriding
  /\ NothingRead /\ ElementsAfterArray /\ AppliedStays /\ KindsKept

-----------------------------------------------------------------------------

LEMMA Containing == \A q \in Paths : Contains(q) \subseteq Paths \ {q}
BY DEF Contains, Paths

\* What replacing the value at p does to the config.
LEMMA WriteFacts ==
  ASSUME TypeOK, NEW p \in Paths, NEW s \in Set, Converts(config[p].kind, s), Write(p, s)
  PROVE  /\ config' \in [Paths -> Values]
         /\ JsonType(config'[p].kind) = JsonType(config[p].kind) /\ config'[p].from = p
         /\ \A q \in Paths \ {p} : q \notin Contains(p) => config'[q] = config[q]
         /\ \A q \in Contains(p) : config'[q] = config[q] \/ s = "array"
<1> DEFINE new == NewKind(config[p].kind, s)
<1>1. /\ JsonType(new) = JsonType(config[p].kind)
      /\ new \in Kinds /\ (new = "array" => s = "array")
  BY DEF NewKind, JsonType, TypeOK, Values, Converts, Set, Kinds, Numbers
<1>p. PICK k \in Kinds :
        config' = [q \in Paths |->
           CASE q = p -> [kind |-> new, from |-> p]
             [] q \in Contains(p) /\ new = "array" -> [kind |-> k, from |-> p]
             [] OTHER -> config[q]]
  BY DEF Write
<1> HIDE DEF new
<1>2. \A q \in Paths : config'[q] = IF q = p THEN [kind |-> new, from |-> p]
                                    ELSE IF q \in Contains(p) /\ new = "array"
                                         THEN [kind |-> k, from |-> p] ELSE config[q]
  BY <1>p, Containing
<1>3. \A q \in Paths : config'[q] \in Values
  BY <1>1, <1>2 DEF TypeOK, Values
<1>4. config' = [q \in Paths |-> config'[q]]
  BY <1>p
<1> QED BY <1>1, <1>2, <1>3, <1>4, Containing

LEMMA InvInit == Init => IInv
BY DEF Init, IInv, TypeOK, Unwritten, Values, Kinds, Settings, OneInitialises, Initialising,
       BuiltAfterOverriding, ElementsAfterArray, AppliedStays, NothingRead, KindsKept

LEMMA AccessStep ==
  ASSUME IInv, NEW t \in Threads, Access(t)
  PROVE  IInv'
<1> USE DEF IInv, Goto, Initialising, Access, input
<1>1. TypeOK'
  BY DEF TypeOK
<1>2. OneInitialises'
  BY DEF OneInitialises, TypeOK
<1>3. BuiltAfterOverriding' /\ ElementsAfterArray' /\ NothingRead'
  BY DEF BuiltAfterOverriding, ElementsAfterArray, NothingRead, TypeOK
<1>4. AppliedStays'
  BY DEF AppliedStays, NothingRead
<1>5. KindsKept'
  BY DEF KindsKept, TypeOK
<1> QED BY <1>1, <1>2, <1>3, <1>4, <1>5

LEMMA LoadStep ==
  ASSUME IInv, NEW t \in Threads, Load(t)
  PROVE  IInv'
<1> USE DEF IInv, Goto, Initialising, input
<1>0. pc[t] = "loading" /\ once = "running" /\ UNCHANGED <<file, env>>
  BY DEF Load, OneInitialises
<1>1. CASE Panic(t) /\ UNCHANGED <<config, pending>>
  <2>1. TypeOK' /\ NothingRead' /\ AppliedStays' /\ ElementsAfterArray'
    BY <1>0, <1>1 DEF Panic, TypeOK, NothingRead, AppliedStays, ElementsAfterArray
  <2>2. OneInitialises' /\ BuiltAfterOverriding'
    BY <1>0, <1>1 DEF Panic, TypeOK, OneInitialises, BuiltAfterOverriding
  <2>3. KindsKept'
    BY <1>0, <1>1 DEF Panic, TypeOK, OneInitialises, KindsKept
  <2> QED BY <2>1, <2>2, <2>3
<1>2. CASE /\ config' = [p \in Paths |-> [kind |-> file[p], from |-> "file"]]
           /\ pending' = Listed
           /\ Goto(t, "overriding") /\ UNCHANGED once
  <2>1. TypeOK'
    BY <1>0, <1>2 DEF TypeOK, Values, Listed
  <2>2. OneInitialises' /\ BuiltAfterOverriding' /\ NothingRead'
    BY <1>0, <1>2 DEF TypeOK, OneInitialises, BuiltAfterOverriding, NothingRead
  <2>3. ElementsAfterArray'
    BY <1>0, <1>2, Containing DEF ElementsAfterArray, Listed
  <2>4. AppliedStays'
    BY <1>0, <1>2 DEF AppliedStays, Listed, Set, Numbers
  <2>5. KindsKept'
    BY <1>0, <1>2 DEF KindsKept
  <2> QED BY <2>1, <2>2, <2>3, <2>4, <2>5
<1> QED BY <1>1, <1>2 DEF Load

LEMMA OverrideStep ==
  ASSUME IInv, NEW t \in Threads, Override(t)
  PROVE  IInv'
<1> USE DEF IInv, Goto, Initialising, input
<1>0. pc[t] = "overriding" /\ once = "running" /\ UNCHANGED <<file, env>>
  BY DEF Override, OneInitialises
<1>p. PICK p \in pending :
        /\ NextKey(p) /\ pending' = pending \ {p}
        /\ \/ (config[p].kind = "absent" \/ env[p] = "unset") /\ UNCHANGED <<config, once, pc>>
           \/ /\ env[p] \in Set /\ Converts(config[p].kind, env[p]) /\ Write(p, env[p])
              /\ UNCHANGED <<once, pc>>
           \/ Panic(t) /\ UNCHANGED config
  BY DEF Override
<1>1. p \in Paths /\ \A q \in pending : p \notin Contains(q)
  BY <1>p DEF NextKey, TypeOK
<1>2. ElementsAfterArray'
  BY <1>0, <1>p, <1>1 DEF ElementsAfterArray
<1>3. CASE (config[p].kind = "absent" \/ env[p] = "unset") /\ UNCHANGED <<config, once, pc>>
  <2>1. TypeOK' /\ OneInitialises' /\ NothingRead' /\ BuiltAfterOverriding'
    BY <1>0, <1>p, <1>3 DEF TypeOK, OneInitialises, NothingRead, BuiltAfterOverriding
  <2>2. AppliedStays'
    BY <1>0, <1>p, <1>3 DEF AppliedStays, Set, Numbers
  <2>3. KindsKept'
    BY <1>0, <1>3 DEF KindsKept
  <2> QED BY <1>2, <2>1, <2>2, <2>3
<1>4. CASE /\ env[p] \in Set /\ Converts(config[p].kind, env[p]) /\ Write(p, env[p])
           /\ UNCHANGED <<once, pc>>
  <2>1. /\ config' \in [Paths -> Values]
        /\ JsonType(config'[p].kind) = JsonType(config[p].kind) /\ config'[p].from = p
        /\ \A q \in Paths \ {p} : q \notin Contains(p) => config'[q] = config[q]
        /\ \A q \in Contains(p) : config'[q] = config[q] \/ env[p] = "array"
    BY <1>1, <1>4, WriteFacts
  <2>2. TypeOK'
    BY <1>0, <1>p, <1>4, <2>1 DEF TypeOK
  <2>3. OneInitialises' /\ NothingRead' /\ BuiltAfterOverriding'
    BY <1>0, <1>p, <1>4 DEF OneInitialises, NothingRead, BuiltAfterOverriding
  <2>4. AppliedStays'
    <3> SUFFICES ASSUME NEW q \in Paths \ pending', env'[q] \in Set, config'[q].kind # "absent"
                 PROVE  config'[q].from = q
      BY DEF AppliedStays
    <3>1. CASE q = p
      BY <2>1, <3>1
    <3>2. CASE q # p
      <4>1. q \notin pending /\ env[q] \in Set
        BY <1>0, <1>p, <3>2
      <4>2. q \notin Contains(p)
        BY <1>p, <4>1 DEF ElementsAfterArray, Set, Numbers
      <4>3. config'[q] = config[q]
        BY <2>1, <3>2, <4>2
      <4> QED BY <1>0, <4>1, <4>3 DEF AppliedStays
    <3> QED BY <3>1, <3>2
  <2>5. KindsKept'
    <3> SUFFICES ASSUME NEW q \in Paths
                 PROVE  \/ JsonType(config'[q].kind) = JsonType(file[q])
                        \/ \E r \in Paths : q \in Contains(r) /\ env[r] = "array"
      BY <1>0 DEF KindsKept
    <3>1. \/ JsonType(config[q].kind) = JsonType(file[q])
          \/ \E r \in Paths : q \in Contains(r) /\ env[r] = "array"
      BY <1>0 DEF KindsKept
    <3> QED BY <1>1, <2>1, <3>1
  <2> QED BY <1>2, <2>2, <2>3, <2>4, <2>5
<1>5. CASE Panic(t) /\ UNCHANGED config
  <2>1. TypeOK' /\ NothingRead' /\ AppliedStays'
    BY <1>0, <1>p, <1>5 DEF Panic, TypeOK, NothingRead, AppliedStays
  <2>2. OneInitialises' /\ BuiltAfterOverriding'
    BY <1>0, <1>p, <1>5 DEF Panic, TypeOK, OneInitialises, BuiltAfterOverriding
  <2>3. KindsKept'
    BY <1>0, <1>5 DEF Panic, TypeOK, OneInitialises, KindsKept
  <2> QED BY <1>2, <2>1, <2>2, <2>3
<1> QED BY <1>p, <1>3, <1>4, <1>5

LEMMA BuildStep ==
  ASSUME IInv, NEW t \in Threads, Overridden(t) \/ Build(t)
  PROVE  IInv'
<1> USE DEF IInv, Goto, Initialising, input
<1>0. pc[t] \in {"overriding", "building"} /\ once = "running" /\ pending = {}
      /\ UNCHANGED <<file, env, config, pending>>
  BY DEF Overridden, Build, OneInitialises, BuiltAfterOverriding
<1>1. TypeOK' /\ NothingRead'
  BY <1>0 DEF Overridden, Build, Panic, TypeOK, NothingRead
<1>2. OneInitialises' /\ BuiltAfterOverriding'
  BY <1>0 DEF Overridden, Build, Panic, TypeOK, OneInitialises, BuiltAfterOverriding
<1>3. ElementsAfterArray' /\ AppliedStays'
  BY <1>0 DEF ElementsAfterArray, AppliedStays
<1>4. KindsKept'
  BY <1>0 DEF KindsKept
<1> QED BY <1>1, <1>2, <1>3, <1>4

LEMMA InvStep == IInv /\ [Next]_vars => IInv'
<1> SUFFICES ASSUME IInv, [Next]_vars PROVE IInv'
  OBVIOUS
<1>1. CASE UNCHANGED vars
  BY <1>1 DEF vars, input, IInv, TypeOK, OneInitialises, BuiltAfterOverriding,
              NothingRead, ElementsAfterArray, AppliedStays, KindsKept
<1> QED BY <1>1, AccessStep, LoadStep, OverrideStep, BuildStep DEF Next

-----------------------------------------------------------------------------

\* IInv is an invariant, however many threads come first.
THEOREM Invariance == Spec => []IInv
BY InvInit, InvStep, PTL DEF Spec

\* The state of APP's initialisation is well typed.
THEOREM TypeCorrect == Spec => []TypeOK
BY Invariance, PTL DEF IInv

\* Every override whose variable is set is in the config the process works
\* with (config.rs:90-95).
THEOREM NoOverrideLost == Spec => []OverridesWin
<1>1. IInv => OverridesWin
  BY DEF IInv, BuiltAfterOverriding, AppliedStays, OverridesWin
<1> QED BY <1>1, Invariance, PTL

\* Every value keeps the JSON type it has in the file (config.rs:60-79); that a
\* getter takes it is not among what is kept.
THEOREM JsonTypesKept == Spec => []OverridesKeepKinds
<1>1. IInv => OverridesKeepKinds
  BY DEF IInv, KindsKept, OverridesKeepKinds
<1> QED BY <1>1, Invariance, PTL

-----------------------------------------------------------------------------
(* Who waits, waits for somebody.                                          *)

\* While the LazyLock is being initialised some thread is at it, and nobody
\* waits for an initialisation that has not begun.
Attended ==
  /\ once = "running" => \E t \in Threads : pc[t] \in Initialising
  /\ once = "new" => \A t \in Threads : pc[t] = "off"

\* A thread that waits for APP may go on, or another is initialising it and is
\* not itself waiting.
WaitersServed ==
  \A t \in Threads : pc[t] = "waiting" =>
    \/ once \in {"ready", "poisoned"}
    \/ \E u \in Threads \ {t} : pc[u] \in Initialising

\* The initialisation leaves "running" only together with the thread that
\* carries it out.
LEMMA AttendedStep == IInv /\ Attended /\ [Next]_vars => Attended'
<1> SUFFICES ASSUME IInv, Attended, [Next]_vars PROVE Attended'
  OBVIOUS
<1> USE DEF IInv, TypeOK, Attended, Goto, Initialising
<1>1. ASSUME NEW t \in Threads, Access(t) PROVE Attended'
  BY <1>1 DEF Access
<1>2. ASSUME NEW t \in Threads, Load(t) PROVE Attended'
  BY <1>2 DEF Load, Panic, OneInitialises
<1>3. ASSUME NEW t \in Threads, Override(t) PROVE Attended'
  BY <1>3 DEF Override, Panic, OneInitialises
<1>4. ASSUME NEW t \in Threads, Overridden(t) PROVE Attended'
  BY <1>4 DEF Overridden, OneInitialises
<1>5. ASSUME NEW t \in Threads, Build(t) PROVE Attended'
  BY <1>5 DEF Build, Panic, OneInitialises
<1>6. CASE UNCHANGED vars
  BY <1>6 DEF vars
<1> QED BY <1>1, <1>2, <1>3, <1>4, <1>5, <1>6 DEF Next

\* No thread is left waiting for APP with nobody to wake it (lib.rs:35).
THEOREM NobodyWaitsForNothing == Spec => []WaitersServed
<1>1. Init => Attended
  BY DEF Init, Attended
<1>2. IInv /\ Attended => WaitersServed
  BY DEF IInv, TypeOK, Attended, WaitersServed, Initialising
<1> QED BY <1>1, <1>2, AttendedStep, Invariance, PTL DEF Spec

\* APP is initialised at most once: a context that is in use, or poisoned, is
\* never replaced, and the config it was built from is final.
Final ==
  /\ once \in {"ready", "poisoned"} => UNCHANGED <<once, config>>
  /\ once # "new" => once' # "new"

LEMMA FinalStep == IInv /\ [Next]_vars => Final
<1> SUFFICES ASSUME IInv, [Next]_vars PROVE Final
  OBVIOUS
<1> USE DEF IInv, OneInitialises, Final, Initialising
<1>1. ASSUME NEW t \in Threads, Access(t) PROVE Final
  BY <1>1 DEF Access
<1>2. ASSUME NEW t \in Threads, Load(t) \/ Override(t) \/ Overridden(t) \/ Build(t)
      PROVE  Final
  BY <1>2 DEF Load, Override, Overridden, Build, Panic
<1>3. CASE UNCHANGED vars
  BY <1>3 DEF vars
<1> QED BY <1>1, <1>2, <1>3 DEF Next

\* Every thread works with the one context, whichever thread built it.
THEOREM BuiltOnce == Spec => [][Final]_vars
BY FinalStep, Invariance, PTL DEF Spec

=============================================================================
