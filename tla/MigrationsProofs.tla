-------------------------- MODULE MigrationsProofs --------------------------
(***************************************************************************)
(* Proofs about run_migrations for any processes, services, releases and   *)
(* settings of their pools.  The invariants rest on two facts: who         *)
(* migrates holds the advisory lock, so at most one process does           *)
(* (LockHeld), and its session works in the schema its config asks for     *)
(* (SessionOwn).                                                           *)
(***************************************************************************)
EXTENDS Migrations, TLAPS

LockHeld == \A p \in Procs : pc[p] = "migrating" => locked = p

SessionOwn ==
  \A p \in Procs :
    /\ pc[p] \in {"acquiring", "locking", "migrating"} => pool[p] = "connected"
    /\ pool[p] # "loaded" => path[p] = Own(p)

\* A run under way knows its action.
ActionKnown == \A p \in Procs : pc[p] # "idle" => action[p] \in Actions

IInv ==
  /\ TypeOK /\ LockHeld /\ SessionOwn /\ ActionKnown
  /\ KnownOnly /\ RunsDoNotInterfere /\ AppliedInOrder /\ InOwnSchema

USE PoolsAssumption, ConstantsAssumption

LEMMA OwnIsSchema == \A p \in Procs : Own(p) \in Schemas
BY DEF Own, Schemas

-----------------------------------------------------------------------------
(* Types.                                                                  *)

LEMMA TypeInit == Init => TypeOK
BY DEF Init, TypeOK, PoolsInit, PoolsTypeOK, Schemas

LEMMA PoolsStep ==
  ASSUME PoolsTypeOK, NEW p \in Procs,
         ConnectMaster(p) \/ ConnectSlave(p) \/ Acquire(p) \/ (Drop(p) /\ UNCHANGED schemas)
  PROVE  PoolsTypeOK'
<1> USE OwnIsSchema DEF PoolsTypeOK, SessionIn
<1>1. Home(p) \in Schemas
  BY DEF Schemas
<1>2. CASE ConnectMaster(p)
  BY <1>1, <1>2 DEF ConnectMaster, AfterConnect, pools
<1>3. CASE ConnectSlave(p)
  BY <1>3 DEF ConnectSlave, Drop
<1>4. CASE Acquire(p)
  BY <1>1, <1>4 DEF Acquire, AfterConnect
<1>5. CASE Drop(p) /\ UNCHANGED schemas
  BY <1>5 DEF Drop
<1> QED BY <1>2, <1>3, <1>4, <1>5

LEMMA TableType ==
  ASSUME TypeOK, SessionOwn, NEW p \in Procs, pc[p] \in {"locking", "migrating"}
  PROVE  path[p] = Own(p) /\ path[p] \in Schemas /\ Table(p) \subseteq Nat \ {0}
BY OwnIsSchema DEF TypeOK, SessionOwn, Table

LEMMA LeaveStep ==
  ASSUME TypeOK, NEW p \in Procs, Leave(p)
  PROVE  TypeOK'
<1>1. PoolsTypeOK'
  BY PoolsStep DEF Leave, TypeOK
<1> QED BY <1>1 DEF Leave, TypeOK, Goto

LEMMA TypeStep == TypeOK /\ SessionOwn /\ [Next]_vars => TypeOK'
<1> SUFFICES ASSUME TypeOK, SessionOwn, [Next]_vars PROVE TypeOK'
  OBVIOUS
<1>1. ASSUME NEW p \in Procs, Start(p) PROVE TypeOK'
  BY <1>1 DEF TypeOK, Goto, Start, Actions, pools, PoolsTypeOK
<1>2. ASSUME NEW p \in Procs, Connect(p) PROVE TypeOK'
  <2>1. PoolsTypeOK'
    BY <1>2, PoolsStep DEF Connect, TypeOK
  <2> QED BY <1>2, <2>1 DEF TypeOK, Goto, Connect, plan
<1>3. ASSUME NEW p \in Procs, AcquireMaster(p) PROVE TypeOK'
  <2>1. PoolsTypeOK'
    BY <1>3, PoolsStep DEF AcquireMaster, TypeOK, PoolsTypeOK, pools
  <2> QED BY <1>3, <2>1 DEF TypeOK, Goto, AcquireMaster, plan
<1>4. ASSUME NEW p \in Procs, Lock(p) PROVE TypeOK'
  <2>1. Table(p) \subseteq Nat \ {0} /\ Files(p) \subseteq Nat \ {0}
    BY <1>4, TableType DEF Lock
  <2>2. PoolsTypeOK'
    BY <1>4 DEF Lock, TypeOK, PoolsTypeOK, pools
  <2> QED BY <1>4, <2>1, <2>2 DEF TypeOK, Goto, Lock, Plan, ToApply, ToRevert
<1>5. ASSUME NEW p \in Procs, Up(p) \/ Down(p) PROVE TypeOK'
  <2>1. Table(p) \subseteq Nat \ {0} /\ path[p] \in Schemas
    BY <1>5, TableType DEF Up, Down
  <2>2. PoolsTypeOK'
    BY <1>5 DEF Up, Down, TypeOK, PoolsTypeOK, pools
  <2> QED BY <1>5, <2>1, <2>2 DEF TypeOK, Goto, Up, Down, Applied, Done
<1>6. ASSUME NEW p \in Procs, Finish(p) \/ Fail(p) \/ Crash(p) PROVE TypeOK'
  BY <1>6, LeaveStep DEF Finish, Fail, Crash
<1>7. CASE UNCHANGED vars
  BY <1>7 DEF vars, pools, plan, TypeOK, PoolsTypeOK
<1> QED BY <1>1, <1>2, <1>3, <1>4, <1>5, <1>6, <1>7 DEF Next, Runs

-----------------------------------------------------------------------------
(* Lock, session and action.                                               *)

\* The lock is free when it is taken, and only its holder gives it back.
LEMMA LockStep == TypeOK /\ LockHeld /\ [Next]_vars => LockHeld'
<1> SUFFICES ASSUME TypeOK, LockHeld, [Next]_vars PROVE LockHeld'
  OBVIOUS
<1> USE DEF TypeOK, LockHeld, Goto
<1>1. ASSUME NEW p \in Procs, Start(p) \/ Connect(p) \/ AcquireMaster(p) PROVE LockHeld'
  BY <1>1 DEF Start, Connect, AcquireMaster
<1>2. ASSUME NEW p \in Procs, Lock(p) PROVE LockHeld'
  BY <1>2 DEF Lock
<1>3. ASSUME NEW p \in Procs, Up(p) \/ Down(p) PROVE LockHeld'
  BY <1>3 DEF Up, Down
<1>4. ASSUME NEW p \in Procs, Finish(p) \/ Fail(p) \/ Crash(p) PROVE LockHeld'
  BY <1>4 DEF Finish, Fail, Crash, Leave
<1>5. CASE UNCHANGED vars
  BY <1>5 DEF vars
<1> QED BY <1>1, <1>2, <1>3, <1>4, <1>5 DEF Next, Runs

LEMMA SessionStep == TypeOK /\ SessionOwn /\ [Next]_vars => SessionOwn'
<1> SUFFICES ASSUME TypeOK, SessionOwn, [Next]_vars PROVE SessionOwn'
  OBVIOUS
<1> USE DEF TypeOK, PoolsTypeOK, SessionOwn, Goto
<1>1. ASSUME NEW p \in Procs, Start(p) PROVE SessionOwn'
  BY <1>1 DEF Start, pools
<1>2. ASSUME NEW p \in Procs, Connect(p) PROVE SessionOwn'
  <2>1. CASE ConnectMaster(p)
    BY <1>2, <2>1 DEF Connect, ConnectMaster, AfterConnect, SessionIn, pools
  <2>2. CASE ConnectSlave(p)
    BY <1>2, <2>2 DEF Connect, ConnectSlave, Drop, SessionIn
  <2> QED BY <1>2, <2>1, <2>2 DEF Connect
<1>3. ASSUME NEW p \in Procs, AcquireMaster(p) PROVE SessionOwn'
  BY <1>3 DEF AcquireMaster, Acquire, AfterConnect, SessionIn, pools
<1>4. ASSUME NEW p \in Procs, Lock(p) \/ Up(p) \/ Down(p) PROVE SessionOwn'
  BY <1>4 DEF Lock, Up, Down, pools
<1>5. ASSUME NEW p \in Procs, Finish(p) \/ Fail(p) \/ Crash(p) PROVE SessionOwn'
  BY <1>5 DEF Finish, Fail, Crash, Leave, Drop, SessionIn
<1>6. CASE UNCHANGED vars
  BY <1>6 DEF vars, pools
<1> QED BY <1>1, <1>2, <1>3, <1>4, <1>5, <1>6 DEF Next, Runs

LEMMA ActionStep == TypeOK /\ ActionKnown /\ [Next]_vars => ActionKnown'
<1> SUFFICES ASSUME TypeOK, ActionKnown, [Next]_vars PROVE ActionKnown'
  OBVIOUS
<1> USE DEF TypeOK, ActionKnown, Goto
<1>1. ASSUME NEW p \in Procs, Start(p) PROVE ActionKnown'
  BY <1>1 DEF Start
<1>2. ASSUME NEW p \in Procs, Connect(p) \/ AcquireMaster(p) \/ Lock(p) PROVE ActionKnown'
  BY <1>2 DEF Connect, AcquireMaster, Lock, plan
<1>3. ASSUME NEW p \in Procs, Up(p) \/ Down(p) PROVE ActionKnown'
  BY <1>3 DEF Up, Down
<1>4. ASSUME NEW p \in Procs, Finish(p) \/ Fail(p) \/ Crash(p) PROVE ActionKnown'
  BY <1>4 DEF Finish, Fail, Crash, Leave
<1>5. CASE UNCHANGED vars
  BY <1>5 DEF vars, plan
<1> QED BY <1>1, <1>2, <1>3, <1>4, <1>5 DEF Next, Runs

-----------------------------------------------------------------------------
(* What a step does to the applied migrations.                             *)

Adds(p, v) ==
  /\ pc[p] = "migrating" /\ action[p] = "up" /\ IsLeast(v, todo[p])
  /\ Applied(p, Table(p) \cup {v}) /\ Done(p, v)
  /\ UNCHANGED <<pools, locked, pc, action, before>>

TakesAway(p, v) ==
  /\ pc[p] = "migrating" /\ action[p] = "down" /\ IsLast(v, todo[p])
  /\ Applied(p, Table(p) \ {v}) /\ Done(p, v)
  /\ UNCHANGED <<pools, locked, pc, action, before>>

\* A step leaves the applied migrations alone, or a run adds the first or takes
\* away the last of those it has still to do.
LEMMA AppliedStep ==
  ASSUME [Next]_vars
  PROVE  \/ applied' = applied
         \/ \E p \in Procs : \E v \in todo[p] : Adds(p, v) \/ TakesAway(p, v)
<1>1. ASSUME NEW p \in Procs, Start(p) \/ Connect(p) \/ AcquireMaster(p) \/ Lock(p)
      PROVE  applied' = applied
  BY <1>1 DEF Start, Connect, AcquireMaster, Lock
<1>2. ASSUME NEW p \in Procs, Finish(p) \/ Fail(p) \/ Crash(p)
      PROVE  applied' = applied
  BY <1>2 DEF Finish, Fail, Crash, Leave
<1>3. ASSUME NEW p \in Procs, Up(p)
      PROVE  applied' = applied \/ \E v \in todo[p] : Adds(p, v)
  BY <1>3 DEF Up, Adds
<1>4. ASSUME NEW p \in Procs, Down(p)
      PROVE  applied' = applied \/ \E v \in todo[p] : TakesAway(p, v)
  BY <1>4 DEF Down, TakesAway
<1>5. CASE UNCHANGED vars
  BY <1>5 DEF vars
<1> QED BY <1>1, <1>2, <1>3, <1>4, <1>5 DEF Next, Runs

\* Adding the first of what is missing keeps every migration behind those
\* before it.
LEMMA OrderAdds ==
  ASSUME IInv, NEW p \in Procs, NEW v, Adds(p, v)
  PROVE  AppliedInOrder'
<1> DEFINE s == path[p]
<1>1. /\ s \in Schemas /\ applied \in [Schemas -> SUBSET (Nat \ {0})]
      /\ v \in Files(p) /\ v \in Nat
      /\ \A w \in Files(p) : w < v => w \in applied[s]
  <2>1. s \in Schemas /\ Table(p) \subseteq Nat \ {0}
    BY TableType DEF IInv, Adds
  <2>2. todo[p] = Files(p) \ Table(p)
    BY DEF IInv, Adds, RunsDoNotInterfere
  <2> QED BY <2>1, <2>2 DEF IInv, TypeOK, Adds, IsLeast, Table
<1>2. applied' = [applied EXCEPT ![s] = @ \cup {v}]
  BY <1>1 DEF Adds, Applied, Table
<1> HIDE DEF s
<1> SUFFICES ASSUME NEW t \in Schemas, NEW u \in applied'[t]
             PROVE  \E q \in Procs : u \in Files(q) /\ \A w \in Files(q) : w < u => w \in applied'[t]
  BY DEF AppliedInOrder
<1>3. applied[t] \subseteq applied'[t]
  BY <1>1, <1>2
<1>4. CASE u \in applied[t]
  BY <1>3, <1>4 DEF IInv, AppliedInOrder
<1>5. CASE u \notin applied[t]
  <2>1. t = s /\ u = v
    BY <1>1, <1>2, <1>5
  <2> QED BY <1>1, <1>3, <2>1
<1> QED BY <1>4, <1>5

\* Taking away the last above the target leaves nothing behind it.
LEMMA OrderTakesAway ==
  ASSUME IInv, NEW p \in Procs, NEW v, TakesAway(p, v)
  PROVE  AppliedInOrder'
<1> DEFINE s == path[p]
<1>1. /\ s \in Schemas /\ applied \in [Schemas -> SUBSET (Nat \ {0})]
      /\ v \in Nat /\ v > UndoTarget
      /\ \A w \in applied[s] : w > UndoTarget => w <= v
  <2>1. s \in Schemas /\ Table(p) \subseteq Nat \ {0}
    BY TableType DEF IInv, TakesAway
  <2>2. todo[p] = {w \in Table(p) : w > UndoTarget}
    BY DEF IInv, TakesAway, RunsDoNotInterfere
  <2> QED BY <2>1, <2>2 DEF IInv, TypeOK, TakesAway, IsLast, Table
<1>2. applied' = [applied EXCEPT ![s] = @ \ {v}]
  BY <1>1 DEF TakesAway, Applied, Table
<1> HIDE DEF s
<1> SUFFICES ASSUME NEW t \in Schemas, NEW u \in applied'[t]
             PROVE  \E q \in Procs : u \in Files(q) /\ \A w \in Files(q) : w < u => w \in applied'[t]
  BY DEF AppliedInOrder
<1>3. u \in applied[t] /\ u \in Nat
  BY <1>1, <1>2
<1>4. PICK q \in Procs : u \in Files(q) /\ \A w \in Files(q) : w < u => w \in applied[t]
  BY <1>3 DEF IInv, AppliedInOrder
<1>5. CASE t # s
  BY <1>1, <1>2, <1>4, <1>5
<1>6. CASE t = s
  <2>1. u <= v
    BY <1>1, <1>3, <1>6 DEF UndoTarget
  <2>2. ASSUME NEW w \in Files(q), w < u PROVE w \in applied'[t]
    <3>1. w # v
      BY <1>1, <1>3, <2>1, <2>2
    <3> QED BY <1>1, <1>2, <1>4, <1>6, <2>2, <3>1
  <2> QED BY <1>4, <2>2
<1> QED BY <1>5, <1>6

LEMMA OrderStep == IInv /\ [Next]_vars => AppliedInOrder'
<1> SUFFICES ASSUME IInv, [Next]_vars PROVE AppliedInOrder'
  OBVIOUS
<1>1. CASE applied' = applied
  BY <1>1 DEF IInv, AppliedInOrder
<1> QED BY <1>1, AppliedStep, OrderAdds, OrderTakesAway

\* A run adds only files of its own, in the schema its session works in.
LEMMA OwnStep == IInv /\ [Next]_vars => InOwnSchema'
<1> SUFFICES ASSUME IInv, [Next]_vars PROVE InOwnSchema'
  OBVIOUS
<1> USE DEF IInv, InOwnSchema
<1>1. CASE applied' = applied
  BY <1>1
<1>2. ASSUME NEW p \in Procs, NEW v, Adds(p, v) PROVE InOwnSchema'
  <2>1. v \in Files(p)
    BY <1>2 DEF Adds, IsLeast, RunsDoNotInterfere
  <2>2. path[p] = Own(p) /\ path[p] \in Schemas
    BY <1>2, TableType DEF Adds
  <2>3. applied' = [applied EXCEPT ![Own(p)] = @ \cup {v}]
    BY <1>2, <2>2 DEF Adds, Applied, Table
  <2> QED BY <2>1, <2>2, <2>3 DEF TypeOK
<1>3. ASSUME NEW p \in Procs, NEW v, TakesAway(p, v) PROVE InOwnSchema'
  <2>1. path[p] \in Schemas
    BY <1>3, TableType DEF TakesAway
  <2>2. \A s \in Schemas : applied'[s] \subseteq applied[s]
    BY <1>3, <2>1 DEF TakesAway, Applied, Table, TypeOK
  <2> QED BY <2>2
<1> QED BY <1>1, <1>2, <1>3, AppliedStep

-----------------------------------------------------------------------------
(* Runs, one after the other.                                              *)

\* While a run migrates no other does, so what it read under the lock holds.
LEMMA RunsStep == IInv /\ [Next]_vars => KnownOnly' /\ RunsDoNotInterfere'
<1> SUFFICES ASSUME IInv, [Next]_vars PROVE KnownOnly' /\ RunsDoNotInterfere'
  OBVIOUS
<1>0. ASSUME UNCHANGED <<applied, plan>>,
             \A p \in Procs : pc'[p] = "migrating" => pc[p] = "migrating" /\ path'[p] = path[p]
      PROVE  KnownOnly' /\ RunsDoNotInterfere'
  BY <1>0 DEF IInv, KnownOnly, RunsDoNotInterfere, Table, plan
<1>1. ASSUME NEW p \in Procs, Start(p) PROVE KnownOnly' /\ RunsDoNotInterfere'
  BY <1>1 DEF Start, Goto, IInv, TypeOK, KnownOnly, RunsDoNotInterfere, Table, pools
<1>2. ASSUME NEW p \in Procs, Connect(p) \/ AcquireMaster(p)
      PROVE  KnownOnly' /\ RunsDoNotInterfere'
  <2>1. \A q \in Procs : pc'[q] = "migrating" => pc[q] = "migrating" /\ q # p
    BY <1>2 DEF Connect, AcquireMaster, Goto, IInv, TypeOK
  <2>2. \A q \in Procs : q # p => path'[q] = path[q]
    BY <1>2 DEF Connect, AcquireMaster, ConnectMaster, ConnectSlave, Acquire, AfterConnect,
                Drop, SessionIn, pools, IInv, TypeOK, PoolsTypeOK
  <2>3. UNCHANGED <<applied, plan>>
    BY <1>2 DEF Connect, AcquireMaster
  <2> QED BY <1>0, <2>1, <2>2, <2>3
<1>3. ASSUME NEW p \in Procs, Lock(p) PROVE KnownOnly' /\ RunsDoNotInterfere'
  <2>1. \A q \in Procs : pc[q] # "migrating"
    BY <1>3 DEF Lock, IInv, LockHeld
  <2>2. \A q \in Procs : pc'[q] = "migrating" => q = p /\ Valid(p) /\ Plan(p)
    BY <1>3, <2>1 DEF Lock, Goto, IInv, TypeOK
  <2>3. UNCHANGED <<pools, applied, action>> /\ action[p] \in {"up", "down"}
    BY <1>3 DEF Lock, IInv, ActionKnown, Actions
  <2>4. Table(p)' = Table(p)
    BY <2>3 DEF Table, pools
  <2>5. CASE Valid(p) /\ Plan(p)
    <3>1. before'[p] = Table(p)
      BY <2>5 DEF Plan, IInv, TypeOK
    <3>2. todo'[p] = IF action[p] = "up" THEN ToApply(p) ELSE ToRevert(p)
      BY <2>5 DEF Plan, IInv, TypeOK
    <3>3. Table(p) \subseteq Files(p)
      BY <2>5 DEF Valid
    <3>4. ToRevert(p) = {v \in Table(p) : v > UndoTarget}
      BY <3>3 DEF ToRevert
    <3> QED BY <2>2, <2>3, <2>4, <3>1, <3>2, <3>3, <3>4 DEF KnownOnly, RunsDoNotInterfere, ToApply
  <2> QED BY <2>2, <2>5 DEF KnownOnly, RunsDoNotInterfere
<1>4. ASSUME NEW p \in Procs, NEW v \in todo[p], Adds(p, v)
      PROVE  KnownOnly' /\ RunsDoNotInterfere'
  <2>1. \A q \in Procs : pc'[q] = "migrating" => q = p
    BY <1>4 DEF Adds, IInv, LockHeld
  <2>2. todo[p] = Files(p) \ Table(p) /\ before[p] \subseteq Table(p)
    BY <1>4 DEF Adds, IInv, RunsDoNotInterfere
  <2>3. path[p] \in Schemas
    BY <1>4, TableType DEF Adds, IInv
  <2>4. Table(p)' = Table(p) \cup {v}
    BY <1>4, <2>3 DEF Adds, Applied, Table, pools, IInv, TypeOK
  <2>5. todo'[p] = todo[p] \ {v} /\ before'[p] = before[p] /\ action'[p] = "up"
    BY <1>4 DEF Adds, Done, IInv, TypeOK
  <2>6. Table(p)' \subseteq Files(p)
    BY <1>4, <2>2, <2>4 DEF IInv, KnownOnly, Adds
  <2>7. todo'[p] = Files(p) \ Table(p)' /\ before'[p] \subseteq Table(p)'
    BY <2>2, <2>4, <2>5
  <2> QED BY <2>1, <2>5, <2>6, <2>7 DEF KnownOnly, RunsDoNotInterfere
<1>5. ASSUME NEW p \in Procs, NEW v \in todo[p], TakesAway(p, v)
      PROVE  KnownOnly' /\ RunsDoNotInterfere'
  <2>1. \A q \in Procs : pc'[q] = "migrating" => q = p
    BY <1>5 DEF TakesAway, IInv, LockHeld
  <2>2. todo[p] = {w \in Table(p) : w > UndoTarget} /\ Table(p) \subseteq before[p]
    BY <1>5 DEF TakesAway, IInv, RunsDoNotInterfere
  <2>3. path[p] \in Schemas
    BY <1>5, TableType DEF TakesAway, IInv
  <2>4. Table(p)' = Table(p) \ {v}
    BY <1>5, <2>3 DEF TakesAway, Applied, Table, pools, IInv, TypeOK
  <2>5. todo'[p] = todo[p] \ {v} /\ before'[p] = before[p] /\ action'[p] = "down"
    BY <1>5 DEF TakesAway, Done, IInv, TypeOK
  <2>6. Table(p)' \subseteq Files(p)
    BY <1>5, <2>4 DEF IInv, KnownOnly, TakesAway
  <2>7. todo'[p] = {w \in Table(p)' : w > UndoTarget} /\ Table(p)' \subseteq before'[p]
    BY <2>2, <2>4, <2>5
  <2> QED BY <2>1, <2>5, <2>6, <2>7 DEF KnownOnly, RunsDoNotInterfere
<1>6. ASSUME NEW p \in Procs, Up(p) \/ Down(p), applied' = applied, todo' = todo,
             pc' = [pc EXCEPT ![p] = "failing"]
      PROVE  KnownOnly' /\ RunsDoNotInterfere'
  BY <1>0, <1>6 DEF Up, Down, IInv, TypeOK, pools, plan
<1>7. ASSUME NEW p \in Procs, Finish(p) \/ Fail(p) \/ Crash(p)
      PROVE  KnownOnly' /\ RunsDoNotInterfere'
  <2>1. \A q \in Procs : pc'[q] = "migrating" => pc[q] = "migrating" /\ q # p
    BY <1>7 DEF Finish, Fail, Crash, Leave, Goto, IInv, TypeOK
  <2>2. \A q \in Procs : q # p => /\ path'[q] = path[q] /\ action'[q] = action[q]
                                  /\ before'[q] = before[q] /\ todo'[q] = todo[q]
    BY <1>7 DEF Finish, Fail, Crash, Leave, Drop, SessionIn, IInv, TypeOK, PoolsTypeOK
  <2>3. applied' = applied
    BY <1>7 DEF Finish, Fail, Crash, Leave
  <2> QED BY <2>1, <2>2, <2>3 DEF IInv, KnownOnly, RunsDoNotInterfere, Table
<1>8. CASE UNCHANGED vars
  BY <1>0, <1>8 DEF vars, pools
<1>9. ASSUME NEW p \in Procs, Up(p) PROVE KnownOnly' /\ RunsDoNotInterfere'
  <2>1. \/ \E v \in todo[p] : Adds(p, v)
        \/ applied' = applied /\ todo' = todo /\ pc' = [pc EXCEPT ![p] = "failing"]
    BY <1>9 DEF Up, Adds, Goto
  <2> QED BY <1>4, <1>6, <1>9, <2>1
<1>10. ASSUME NEW p \in Procs, Down(p) PROVE KnownOnly' /\ RunsDoNotInterfere'
  <2>1. \/ \E v \in todo[p] : TakesAway(p, v)
        \/ applied' = applied /\ todo' = todo /\ pc' = [pc EXCEPT ![p] = "failing"]
    BY <1>10 DEF Down, TakesAway, Goto
  <2> QED BY <1>5, <1>6, <1>10, <2>1
<1> QED BY <1>1, <1>2, <1>3, <1>7, <1>8, <1>9, <1>10 DEF Next, Runs

-----------------------------------------------------------------------------
(* The theorems.                                                           *)

LEMMA InvInit == Init => IInv
<1>1. Init => TypeOK
  BY TypeInit
<1>2. Init => /\ LockHeld /\ SessionOwn /\ ActionKnown /\ KnownOnly
              /\ RunsDoNotInterfere /\ AppliedInOrder /\ InOwnSchema
  BY DEF Init, PoolsInit, LockHeld, SessionOwn, ActionKnown, KnownOnly,
         RunsDoNotInterfere, AppliedInOrder, InOwnSchema
<1> QED BY <1>1, <1>2 DEF IInv

LEMMA InvStep == IInv /\ [Next]_vars => IInv'
<1> SUFFICES ASSUME IInv, [Next]_vars PROVE IInv'
  OBVIOUS
<1>1. TypeOK' /\ LockHeld' /\ SessionOwn' /\ ActionKnown'
  BY TypeStep, LockStep, SessionStep, ActionStep DEF IInv
<1>2. KnownOnly' /\ RunsDoNotInterfere' /\ AppliedInOrder' /\ InOwnSchema'
  BY RunsStep, OrderStep, OwnStep
<1> QED BY <1>1, <1>2 DEF IInv

\* IInv is an invariant of every deployment.
THEOREM Invariance == Spec => []IInv
BY InvInit, InvStep, PTL DEF Spec

\* A migration is applied only with all those before it, whatever dies or is
\* refused on the way and whichever releases migrate at once.
THEOREM AppliedIsPrefix == Spec => []AppliedInOrder
<1>1. IInv => AppliedInOrder
  BY DEF IInv
<1> QED BY <1>1, Invariance, PTL

\* Migrations of several processes run as if one after the other: a run's plan
\* stays right while it migrates.
THEOREM NoInterference == Spec => []RunsDoNotInterfere
<1>1. IInv => RunsDoNotInterfere
  BY DEF IInv
<1> QED BY <1>1, Invariance, PTL

\* A release changes a schema only while it knows every migration applied there.
THEOREM OldReleaseKeepsOut == Spec => []KnownOnly
<1>1. IInv => KnownOnly
  BY DEF IInv
<1> QED BY <1>1, Invariance, PTL

\* A service's migrations are applied only in the schema its config asks for,
\* over whichever connection of its pool.
THEOREM SchemasApart == Spec => []InOwnSchema
<1>1. IInv => InOwnSchema
  BY DEF IInv
<1> QED BY <1>1, Invariance, PTL

-----------------------------------------------------------------------------
(* The lock and its holder.                                                *)

\* The advisory lock is never held by a process that is idle or still waits
\* for something: who holds it is migrating or about to leave, and leaving
\* gives it back, unlocked or not (migrations.rs:38-59).
HolderIsAlive == locked # NoProc => pc[locked] \in {"migrating", "failing"}

LEMMA HolderStep == TypeOK /\ HolderIsAlive /\ [Next]_vars => HolderIsAlive'
<1> SUFFICES ASSUME TypeOK, HolderIsAlive, [Next]_vars PROVE HolderIsAlive'
  OBVIOUS
<1> USE DEF TypeOK, HolderIsAlive, Goto
<1>1. ASSUME NEW p \in Procs, Start(p) \/ Connect(p) \/ AcquireMaster(p)
      PROVE  HolderIsAlive'
  BY <1>1 DEF Start, Connect, AcquireMaster
<1>2. ASSUME NEW p \in Procs, Lock(p) PROVE HolderIsAlive'
  BY <1>2 DEF Lock
<1>3. ASSUME NEW p \in Procs, Up(p) \/ Down(p) PROVE HolderIsAlive'
  BY <1>3 DEF Up, Down
<1>4. ASSUME NEW p \in Procs, Finish(p) \/ Fail(p) \/ Crash(p) PROVE HolderIsAlive'
  BY <1>4 DEF Finish, Fail, Crash, Leave
<1>5. CASE UNCHANGED vars
  BY <1>5 DEF vars
<1> QED BY <1>1, <1>2, <1>3, <1>4, <1>5 DEF Next, Runs

\* A process that died or failed leaves no lock behind, so a run that waits for
\* the lock waits only for a process that works or leaves.
THEOREM NoLockLeftBehind == Spec => []HolderIsAlive
<1>1. Init => HolderIsAlive
  BY DEF Init, HolderIsAlive
<1> QED BY <1>1, HolderStep, Invariance, PTL DEF Spec, IInv

\* A table of migrations changes only by the process that holds the lock, in the
\* schema its config asks for and all of whose migrations it knows: it adds the
\* first of its files that is missing there or takes the last one away.
ChangesUnderLock ==
  \A s \in Schemas : applied'[s] # applied[s] =>
    \E p \in Procs : \E v \in Files(p) :
      /\ locked = p /\ pc[p] = "migrating" /\ s = Own(p) /\ applied[s] \subseteq Files(p)
      /\ \/ IsLeast(v, Files(p) \ applied[s]) /\ applied'[s] = applied[s] \cup {v}
         \/ IsLast(v, applied[s]) /\ applied'[s] = applied[s] \ {v}

LEMMA ChangeStep == IInv /\ [Next]_vars => ChangesUnderLock
<1> SUFFICES ASSUME IInv, [Next]_vars PROVE ChangesUnderLock
  OBVIOUS
<1>1. ASSUME NEW p \in Procs, NEW v \in todo[p], Adds(p, v) \/ TakesAway(p, v)
      PROVE  ChangesUnderLock
  <2>1. pc[p] = "migrating" /\ locked = p
    BY <1>1 DEF Adds, TakesAway, IInv, LockHeld
  <2>2. v \in Files(p) /\ Table(p) \subseteq Files(p)
    BY <1>1 DEF Adds, TakesAway, IInv, RunsDoNotInterfere, KnownOnly
  <2>3. path[p] = Own(p) /\ path[p] \in Schemas /\ Table(p) \subseteq Nat
    BY <2>1, TableType DEF IInv
  <2>4. \A s \in Schemas \ {Own(p)} : applied'[s] = applied[s]
    BY <1>1, <2>3 DEF Adds, TakesAway, Applied, Table, IInv, TypeOK
  <2>5. CASE Adds(p, v)
    <3>1. applied'[Own(p)] = applied[Own(p)] \cup {v}
      BY <2>3, <2>5 DEF Adds, Applied, Table, IInv, TypeOK
    <3>2. IsLeast(v, Files(p) \ applied[Own(p)])
      BY <2>3, <2>5 DEF Adds, Table, IInv, RunsDoNotInterfere
    <3> QED BY <2>1, <2>2, <2>3, <2>4, <3>1, <3>2 DEF ChangesUnderLock, Table
  <2>6. CASE TakesAway(p, v)
    <3>1. applied'[Own(p)] = applied[Own(p)] \ {v}
      BY <2>3, <2>6 DEF TakesAway, Applied, Table, IInv, TypeOK
    <3>2. todo[p] = {w \in Table(p) : w > UndoTarget}
      BY <2>6 DEF TakesAway, IInv, RunsDoNotInterfere
    <3>3. v > UndoTarget /\ v \in Table(p) /\ v \in Nat
      BY <2>3, <3>2
    <3>4. IsLast(v, Table(p))
      <4>1. ASSUME NEW w \in Table(p) PROVE w <= v
        BY <2>3, <2>6, <3>2, <3>3 DEF TakesAway, IsLast, UndoTarget
      <4> QED BY <3>3, <4>1 DEF IsLast
    <3> QED BY <2>1, <2>2, <2>3, <2>4, <3>1, <3>4 DEF ChangesUnderLock, Table
  <2> QED BY <1>1, <2>5, <2>6
<1>2. CASE applied' = applied
  BY <1>2 DEF ChangesUnderLock
<1> QED BY <1>1, <1>2, AppliedStep

\* Whoever dies and whoever waits, nobody but the holder of the lock touches
\* what is applied, one migration at a time and in their order.
THEOREM OnlyHolderChanges == Spec => [][ChangesUnderLock]_vars
BY ChangeStep, Invariance, PTL DEF Spec

=============================================================================
