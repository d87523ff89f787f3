----------------------------- MODULE Migrations -----------------------------
(***************************************************************************)
(* run_migrations in migrations.rs, run by several processes at once: the  *)
(* replicas of a deployment, an older release beside a newer one, and      *)
(* other services that use the same database.  Each run connects           *)
(* (PostgresPools) and does the action its first argument names.  The      *)
(* migrator takes the database's advisory lock, reads which migrations are *)
(* applied in the schema its session works in, and applies or reverts one  *)
(* after the other, each in a transaction of its own.  A definition named  *)
(* X_.. is a faulty form of X that the checks put in its place.            *)
(***************************************************************************)
EXTENDS PostgresPools, Integers, FiniteSets

CONSTANTS
  NoProc,    \* nobody holds the lock
  Files(_),  \* version numbers of the migrations in p's directory
  Broken,    \* versions whose SQL the database may refuse
  MaxRuns    \* bound: runs of all processes together

ASSUME ConstantsAssumption ==
  /\ NoProc \notin Procs /\ MaxRuns \in Nat
  /\ \A p \in Procs : Files(p) \subseteq Nat \ {0} /\ IsFiniteSet(Files(p))

VARIABLES
  applied,  \* applied[s]: versions in the migrations table of schema s
  locked,   \* process whose session holds the advisory lock
  pc,       \* pc[p]: where p's run stands
  action,   \* action[p]: its first argument
  before,   \* before[p]: what was applied when p got the lock
  todo,     \* todo[p]: what p has still to apply or revert
  runs      \* runs begun so far

plan == <<action, before, todo>>
vars == <<pools, applied, locked, pc, plan, runs>>

Actions == {"up", "down"}

TypeOK ==
  /\ PoolsTypeOK
  /\ applied \in [Schemas -> SUBSET (Nat \ {0})]
  /\ locked \in Procs \cup {NoProc}
  /\ pc \in [Procs -> {"idle", "connecting", "acquiring", "locking", "migrating",
                       "failing"}]
  /\ action \in [Procs -> Actions \cup {"none"}]
  /\ before \in [Procs -> SUBSET (Nat \ {0})]
  /\ todo \in [Procs -> SUBSET (Nat \ {0})]
  /\ runs \in 0..MaxRuns

Init ==
  /\ PoolsInit
  /\ applied = [s \in Schemas |-> {}] /\ locked = NoProc
  /\ pc = [p \in Procs |-> "idle"]
  /\ action = [p \in Procs |-> "none"]
  /\ before = [p \in Procs |-> {}] /\ todo = [p \in Procs |-> {}]
  /\ runs = 0

IsLeast(v, S) == v \in S /\ \A w \in S : v <= w
IsLast(v, S) == v \in S /\ \A w \in S : w <= v

Goto(p, l) == pc' = [pc EXCEPT ![p] = l]

\* The argument is parsed before anything else; a wrong one panics.
Start(p) ==
  /\ pc[p] = "idle" /\ runs < MaxRuns
  /\ runs' = runs + 1
  /\ \/ \E a \in Actions : action' = [action EXCEPT ![p] = a] /\ Goto(p, "connecting")
     \/ UNCHANGED <<action, pc>>
  /\ UNCHANGED <<pools, applied, locked, before, todo>>

\* app.postgres.connect(): master and slave, although only the master is used
Connect(p) ==
  /\ pc[p] = "connecting"
  /\ \/ ConnectMaster(p) /\ Goto(p, IF pool'[p] = "half" THEN "connecting" ELSE "failing")
     \/ ConnectSlave(p) /\ Goto(p, IF pool'[p] = "connected" THEN "acquiring" ELSE "failing")
  /\ UNCHANGED <<applied, locked, plan, runs>>

AcquireMaster(p) ==
  /\ pc[p] = "acquiring"
  /\ \/ Acquire(p) /\ Goto(p, "locking")
     \/ UNCHANGED pools /\ Goto(p, "failing")
  /\ UNCHANGED <<applied, locked, plan, runs>>

-----------------------------------------------------------------------------
(* The migrator.                                                           *)

Table(p) == applied[path[p]]

Valid_AnyHistory(p) == path[p] \in schemas

\* There is a schema to create the table in, and no migration was applied
\* that is not among the files.
Valid(p) == path[p] \in schemas /\ Table(p) \subseteq Files(p)

UndoTarget == 1

ToApply_SkipBroken(p) == (Files(p) \ Table(p)) \ Broken

\* migrator.run(master) applies every file that is not applied, in order
ToApply(p) == Files(p) \ Table(p)

\* migrator.undo(master, 1) reverts every applied version greater than the target
ToRevert(p) == {v \in Table(p) \cap Files(p) : v > UndoTarget}

Plan(p) ==
  /\ before' = [before EXCEPT ![p] = Table(p)]
  /\ todo' = [todo EXCEPT ![p] = IF action[p] = "up" THEN ToApply(p) ELSE ToRevert(p)]

Lock_NotAwaited(p) ==
  /\ pc[p] = "locking"
  /\ locked' = p
  /\ \/ Valid(p) /\ Plan(p) /\ Goto(p, "migrating")
     \/ ~Valid(p) /\ Goto(p, "failing") /\ UNCHANGED <<before, todo>>
  /\ UNCHANGED <<pools, applied, action, runs>>

\* The lock is the database's, whatever the schema.
Lock(p) ==
  /\ pc[p] = "locking" /\ locked = NoProc
  /\ locked' = p
  /\ \/ Valid(p) /\ Plan(p) /\ Goto(p, "migrating")
     \/ ~Valid(p) /\ Goto(p, "failing") /\ UNCHANGED <<before, todo>>
  /\ UNCHANGED <<pools, applied, action, runs>>

Applied(p, S) == applied' = [applied EXCEPT ![path[p]] = S]
Done(p, v) == todo' = [todo EXCEPT ![p] = @ \ {v}]

\* A refused script rolls its own transaction back and ends the run.
Up(p) ==
  /\ pc[p] = "migrating" /\ action[p] = "up"
  /\ \E v \in todo[p] :
       /\ IsLeast(v, todo[p])
       /\ \/ Applied(p, Table(p) \cup {v}) /\ Done(p, v) /\ UNCHANGED pc
          \/ v \in Broken /\ Goto(p, "failing") /\ UNCHANGED <<applied, todo>>
  /\ UNCHANGED <<pools, locked, action, before, runs>>

Down(p) ==
  /\ pc[p] = "migrating" /\ action[p] = "down"
  /\ \E v \in todo[p] :
       /\ IsLast(v, todo[p])
       /\ \/ Applied(p, Table(p) \ {v}) /\ Done(p, v) /\ UNCHANGED pc
          \/ Goto(p, "failing") /\ UNCHANGED <<applied, todo>>
  /\ UNCHANGED <<pools, locked, action, before, runs>>

\* run_migrations is over: its pools are dropped, and with the session goes
\* the lock, unlocked or not.  What was committed stays.
Leave(p) ==
  /\ Goto(p, "idle") /\ Drop(p)
  /\ locked' = IF locked = p THEN NoProc ELSE locked
  /\ action' = [action EXCEPT ![p] = "none"]
  /\ before' = [before EXCEPT ![p] = {}] /\ todo' = [todo EXCEPT ![p] = {}]
  /\ UNCHANGED <<schemas, applied, runs>>

Finish(p) == pc[p] = "migrating" /\ todo[p] = {} /\ Leave(p)

Fail_KeepsSession(p) ==
  /\ pc[p] = "failing" /\ Goto(p, "idle")
  /\ UNCHANGED <<pools, applied, locked, plan, runs>>

\* An error ends the migrator without an unlock.
Fail(p) == pc[p] = "failing" /\ Leave(p)

\* The process dies.
Crash(p) == pc[p] # "idle" /\ Leave(p)

Runs(p) ==
  \/ Connect(p) \/ AcquireMaster(p) \/ Lock(p)
  \/ Up(p) \/ Down(p) \/ Finish(p) \/ Fail(p)

Next == \E p \in Procs : Start(p) \/ Runs(p) \/ Crash(p)

Spec == Init /\ [][Next]_vars

\* A run goes on while it may: connecting and acquiring have timeouts, the
\* database answers, and waiters for the lock are served.
FairSpec == Spec /\ \A p \in Procs : WF_vars(Runs(p))

-----------------------------------------------------------------------------
(* Properties.                                                             *)

\* Whatever dies or is refused on the way, whichever releases and services
\* migrate at the same time, and whichever schema their sessions end up in, a
\* migration is applied only with all those before it in some release's files.
AppliedInOrder ==
  \A s \in Schemas : \A v \in applied[s] : \E p \in Procs :
    v \in Files(p) /\ \A w \in Files(p) : w < v => w \in applied[s]

\* Runs do not interfere: what a run has still to do by what it read under the
\* lock is what there is to do, until it ends.
RunsDoNotInterfere ==
  \A p \in Procs :
    pc[p] = "migrating" =>
      \/ action[p] = "up" /\ before[p] \subseteq Table(p) /\ todo[p] = Files(p) \ Table(p)
      \/ action[p] = "down" /\ Table(p) \subseteq before[p]
         /\ todo[p] = {v \in Table(p) : v > UndoTarget}

\* A release changes a schema only while it knows every migration applied
\* there, so an old release keeps its hands off what a newer one migrated.
KnownOnly ==
  \A p \in Procs : pc[p] = "migrating" => Table(p) \subseteq Files(p)

\* Migrations of a service whose config names its schema are applied in that
\* schema alone (postgres.rs:67: "do not add public scheme in search_path"),
\* also over a connection that replaced a broken one.
InOwnSchema ==
  \A s \in Schemas : \A v \in applied[s] : \E p \in Procs :
    v \in Files(p) /\ s = Own(p)

\* "Revert last migration" (migrations.rs:52): a down run takes away at most
\* the last of the migrations it found.
DownRevertsLastOnly ==
  \A p \in Procs :
    pc[p] = "migrating" /\ action[p] = "down" =>
      \A v \in before[p] \ Table(p) : IsLast(v, before[p])

\* A run that failed, a process that died and an advisory lock nobody unlocked
\* hold nobody up: every run ends.
RunsEnd ==
  \A p \in Procs : (pc[p] # "idle") ~> (pc[p] = "idle")

=============================================================================
