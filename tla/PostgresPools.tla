---------------------------- MODULE PostgresPools ----------------------------
(***************************************************************************)
(* PostgresPools::connect of several processes against one database, and   *)
(* the schema a session works in.  Every new connection of a pool passes   *)
(* configure_pool's after_connect, which creates the service's schema or   *)
(* only makes it the search path, as the process's config says; without    *)
(* either the session works in the database's default schema.  The slave   *)
(* is another server and only answers or not.  A definition named X_.. is  *)
(* a faulty form of X that the checks put in its place.                    *)
(***************************************************************************)
CONSTANTS
  Procs,
  Home(_),    \* the schema named like p's service
  Creates,    \* processes with /postgres/master/createServiceSchema
  Scopes,     \* processes with /postgres/master/setSearchPathByService
  Slaves,     \* processes with a slave configured beside the master
  Default,    \* the schema of a session that sets no search path
  NoSession

Schemas == {Home(p) : p \in Procs} \cup {Default}

ASSUME PoolsAssumption ==
  /\ Creates \cup Scopes \cup Slaves \subseteq Procs
  /\ NoSession \notin Schemas

VARIABLES
  schemas,  \* schemas that exist
  pool,     \* pool[p]: how far p's connect has come
  path      \* path[p]: search path of the session in p's master pool

pools == <<schemas, pool, path>>

PoolsTypeOK ==
  /\ schemas \subseteq Schemas
  /\ pool \in [Procs -> {"loaded", "half", "connected"}]
  /\ path \in [Procs -> Schemas \cup {NoSession}]

\* Schemas may have been created by hand.
PoolsInit ==
  /\ schemas \in {S \in SUBSET Schemas : Default \in S}
  /\ pool = [p \in Procs |-> "loaded"]
  /\ path = [p \in Procs |-> NoSession]

\* The schema p's config asks for.
Own(p) == IF p \in Creates \cup Scopes THEN Home(p) ELSE Default

SessionIn(p, s) == path' = [path EXCEPT ![p] = s]

AfterConnect_ReturnsEarly(p) ==
  IF p \in Creates
  THEN schemas' = schemas \cup {Home(p)} /\ SessionIn(p, Default)
  ELSE UNCHANGED schemas /\ SessionIn(p, IF p \in Scopes THEN Home(p) ELSE Default)

\* after_connect; SET search_path does not ask whether the schema exists
AfterConnect(p) ==
  /\ schemas' = IF p \in Creates THEN schemas \cup {Home(p)} ELSE schemas
  /\ SessionIn(p, Own(p))

Drop(p) == pool' = [pool EXCEPT ![p] = "loaded"] /\ SessionIn(p, NoSession)

\* A refused connection, or one whose after_connect fails, is tried again
\* until the pool's time is up.  Without a master there is no pool to hand out.
ConnectMaster(p) ==
  /\ pool[p] = "loaded"
  /\ \/ pool' = [pool EXCEPT ![p] = "half"] /\ AfterConnect(p)
     \/ UNCHANGED pools

\* A slave that cannot be reached takes the connected master with it.
ConnectSlave(p) ==
  /\ pool[p] = "half"
  /\ \/ pool' = [pool EXCEPT ![p] = "connected"] /\ UNCHANGED <<schemas, path>>
     \/ p \in Slaves /\ Drop(p) /\ UNCHANGED schemas

\* The pool hands out its connection if it still answers (test_before_acquire),
\* else a new one.
Acquire(p) ==
  /\ pool[p] = "connected"
  /\ UNCHANGED pool
  /\ UNCHANGED <<schemas, path>> \/ AfterConnect(p)

=============================================================================
