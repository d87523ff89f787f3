---------------------------- MODULE RpcConsumer ----------------------------
(***************************************************************************)
(* The request consumer of a service: run_service_consumer in iggy.rs.     *)
(*                                                                         *)
(* Gates append requests to a partition of the service's topic; the        *)
(* replicas of the service form one consumer group, and the replica the    *)
(* partition is assigned to polls batches, takes the requests one at a     *)
(* time, skips the stale ones, runs the handler on the others (several at  *)
(* once) and publishes the reply on the back topic.  The offset of a       *)
(* request is stored in the background as soon as the request is TAKEN     *)
(* (AutoCommitWhen::ConsumingEachMessage), before its handler has run.     *)
(*                                                                         *)
(* A request is identified with its offset in the partition.               *)
(***************************************************************************)
EXTENDS Integers, FiniteSets

CONSTANTS
  Instances,    \* replicas of the service, the members of the consumer group
  NoOwner,      \* no member is assigned the partition
  MaxMessages,  \* bound: requests appended to the partition
  BatchSize,    \* batch_size: messages per poll, handlers at once; not 0: what a
                \* server answers to polls for 0 messages is not this code's
  Timeout,      \* BACK_MESSAGE_TIMEOUT
  Skew,         \* clock of the service's host minus clock of the iggy server
  Undecodable,  \* requests that carry no signature (try_into fails)
  BadMethod,    \* requests whose method does not parse (into_rpc_method fails)
  Slow,         \* requests whose handler may never return
  MaxTime, MaxCrashes, MaxMoves   \* bounds: clock, crashes, live reassignments

Messages == 1..MaxMessages

ASSUME ConstantsAssumption ==
  /\ IsFiniteSet(Instances) /\ NoOwner \notin Instances
  /\ MaxMessages \in Nat /\ BatchSize \in Nat \ {0}
  /\ Timeout \in Nat /\ Skew \in Int
  /\ Undecodable \subseteq Messages /\ BadMethod \subseteq Messages
  /\ Slow \subseteq Messages
  /\ MaxTime \in Nat /\ MaxCrashes \in Nat /\ MaxMoves \in Nat

VARIABLES
  now,        \* the iggy server's clock
  produced,   \* requests appended so far
  askedAt,    \* askedAt[m]: when the gate began to wait for the reply to m
  sentAt,     \* sentAt[m]: timestamp in m's header, stamped by the server
  committed,  \* offset stored for the consumer group
  owner,      \* member the partition is assigned to
  up,         \* up[i]: the consumer of replica i is running
  cursor,     \* cursor[i]: last offset taken from i's stream since it started
  buffer,     \* buffer[i]: polled and not yet taken
  toStore,    \* toStore[i]: offsets sent to i's background store task
  stage,      \* stage[i][m]: where the future handling m at i stands
  fate,       \* fate[m]: what has become of request m, once per handling
  taken,      \* taken[m]: how many times m was taken       (history)
  abandoned,  \* requests in flight when their replica died (history)
  crashes, moves                     \* replicas died, assignments moved live

environment == <<now, produced, askedAt, sentAt>>
group == <<committed, owner, up>>
client == <<cursor, buffer, toStore, stage>>
history == <<taken, abandoned, crashes, moves>>
vars == <<environment, group, client, fate, history>>

Stages == {"none", "handling", "sending"}
Fates == {"answered", "stale", "undecodable", "unbuilt", "unsent"}

TypeOK ==
  /\ now \in 0..MaxTime /\ produced \in 0..MaxMessages
  /\ askedAt \in [Messages -> 0..MaxTime]
  /\ sentAt \in [Messages -> 0..MaxTime]
  /\ committed \in 0..produced
  /\ owner \in Instances \cup {NoOwner}
  /\ up \in [Instances -> BOOLEAN]
  /\ cursor \in [Instances -> 0..produced]
  /\ buffer \in [Instances -> SUBSET (1..produced)]
  /\ toStore \in [Instances -> SUBSET (1..produced)]
  /\ stage \in [Instances -> [Messages -> Stages]]
  /\ fate \in [Messages -> SUBSET Fates]
  /\ taken \in [Messages -> Nat]
  /\ abandoned \in SUBSET Messages
  /\ crashes \in 0..MaxCrashes /\ moves \in 0..MaxMoves

Init ==
  /\ now = 0 /\ produced = 0
  /\ askedAt = [m \in Messages |-> 0]
  /\ sentAt = [m \in Messages |-> 0]
  /\ committed = 0 /\ owner = NoOwner
  /\ up = [i \in Instances |-> TRUE]
  /\ cursor = [i \in Instances |-> 0]
  /\ buffer = [i \in Instances |-> {}]
  /\ toStore = [i \in Instances |-> {}]
  /\ stage = [i \in Instances |-> [m \in Messages |-> "none"]]
  /\ fate = [m \in Messages |-> {}]
  /\ taken = [m \in Messages |-> 0]
  /\ abandoned = {} /\ crashes = 0 /\ moves = 0

-----------------------------------------------------------------------------
(* What the consumer computes.  A definition named X_.. is a faulty form   *)
(* of X that the checks substitute for X to see the properties refute it.  *)

InFlight(i) == {m \in Messages : stage[i][m] # "none"}

\* for_each_concurrent(concurrency, ..), concurrency = batch_size.max(1)
HasSlot_OneAtATime(i) == InFlight(i) = {}
HasSlot_KeptByUnsent(i) ==
  Cardinality(InFlight(i) \cup {m \in Messages : "unsent" \in fate[m]}) < BatchSize
HasSlot(i) == Cardinality(InFlight(i)) < BatchSize

\* SystemTime::now().duration_since(message_sent_at).unwrap_or_default()
Age(m) == IF now + Skew > sentAt[m] THEN now + Skew - sentAt[m] ELSE 0

Stale_AtTimeout(m) == Age(m) >= Timeout
Stale(m) == Age(m) > Timeout

IsNext_Newest(i, m) == m \in buffer[i] /\ \A n \in buffer[i] : n <= m
IsNext(i, m) == m \in buffer[i] /\ \A n \in buffer[i] : m <= n

\* PollingStrategy::next(): a poll starts after the group's stored offset
PollBase_First == 0
PollBase == committed

\* AutoCommitWhen::ConsumingEachMessage: an offset is sent to the store task
\* when its message is taken, none when a batch arrives.
StoredWhenPolled_Batch(batch) == batch
StoredWhenPolled(batch) == {}
StoredWhenTaken(m) == {m}

\* What a poll returns: up to batch_length messages, without those this client
\* already consumed (allow_replay is not set).
Fetched_AllowReplay(i) ==
  {m \in 1..produced : PollBase < m /\ m <= PollBase + BatchSize}
Fetched(i) ==
  {m \in 1..produced : PollBase < m /\ m <= PollBase + BatchSize /\ cursor[i] < m}

-----------------------------------------------------------------------------
(* The environment: clock, gates and the iggy server.                      *)

Tick ==
  /\ now < MaxTime
  /\ now' = now + 1
  /\ UNCHANGED <<produced, askedAt, sentAt, group, client, fate, history>>

\* A gate that began to wait at some earlier time t has its request appended.
Append ==
  /\ produced < MaxMessages
  /\ produced' = produced + 1
  /\ sentAt' = [sentAt EXCEPT ![produced + 1] = now]
  /\ \E t \in 0..now : askedAt' = [askedAt EXCEPT ![produced + 1] = t]
  /\ UNCHANGED <<now, group, client, fate, history>>

\* The server assigns the free partition to a member, or moves it from one
\* live member to another (a member joined or left).
Assign(i) ==
  /\ up[i] /\ owner # i
  /\ \/ owner = NoOwner /\ UNCHANGED moves
     \/ owner # NoOwner /\ moves < MaxMoves /\ moves' = moves + 1
  /\ owner' = i
  /\ UNCHANGED <<environment, committed, up, client, fate, taken, abandoned, crashes>>

-----------------------------------------------------------------------------
(* The client: polling and storing offsets.                                *)

Poll(i) ==
  /\ up[i] /\ owner = i /\ buffer[i] = {} /\ Fetched(i) # {}
  /\ buffer' = [buffer EXCEPT ![i] = Fetched(i)]
  /\ toStore' = [toStore EXCEPT ![i] = @ \cup StoredWhenPolled(Fetched(i))]
  /\ UNCHANGED <<environment, group, cursor, stage, fate, history>>

StoreOffset_Next(i) ==
  /\ \E o \in toStore[i] :
       /\ \A p \in toStore[i] : o <= p
       /\ committed' = o + 1
       /\ toStore' = [toStore EXCEPT ![i] = @ \ {o}]
  /\ UNCHANGED <<environment, owner, up, cursor, buffer, stage, fate, history>>

\* The background task stores the offsets in the order they were taken; the
\* server accepts them from a member that lost the partition too.
StoreOffset(i) ==
  /\ \E o \in toStore[i] :
       /\ \A p \in toStore[i] : o <= p
       /\ committed' = o
       /\ toStore' = [toStore EXCEPT ![i] = @ \ {o}]
  /\ UNCHANGED <<environment, owner, up, cursor, buffer, stage, fate, history>>

-----------------------------------------------------------------------------
(* Handling one message.                                                   *)

Settle(m, f) == fate' = [fate EXCEPT ![m] = @ \cup {f}]

MoveTo(i, m, s) == stage' = [stage EXCEPT ![i][m] = s]

\* build_back_message: a header or the message itself may be refused
Reply(i, m) ==
  \/ MoveTo(i, m, "sending") /\ UNCHANGED fate
  \/ MoveTo(i, m, "none") /\ Settle(m, "unbuilt")

\* The stream yields its next message and the closure runs to its first await.
Take(i) ==
  /\ HasSlot(i)
  /\ \E m \in buffer[i] :
       /\ IsNext(i, m)
       /\ buffer' = [buffer EXCEPT ![i] = @ \ {m}]
       /\ cursor' = [cursor EXCEPT ![i] = m]
       /\ toStore' = [toStore EXCEPT ![i] = @ \cup StoredWhenTaken(m)]
       /\ taken' = [taken EXCEPT ![m] = @ + 1]
       /\ \/ /\ Stale(m)
             /\ Settle(m, "stale") /\ UNCHANGED stage
          \/ /\ ~Stale(m) /\ m \in Undecodable
             /\ Settle(m, "undecodable") /\ UNCHANGED stage
          \/ /\ ~Stale(m) /\ m \in BadMethod \ Undecodable
             /\ Reply(i, m)
          \/ /\ ~Stale(m) /\ m \notin BadMethod \cup Undecodable
             /\ MoveTo(i, m, "handling") /\ UNCHANGED fate
  /\ UNCHANGED <<environment, group, abandoned, crashes, moves>>

\* handler(rpc_method, meta).await returns, with a payload or an error
HandlerReturns(i, m) ==
  /\ stage[i][m] = "handling"
  /\ Reply(i, m)
  /\ UNCHANGED <<environment, group, cursor, buffer, toStore, history>>

\* back_topic_producer.send_one(message).await returns; an error is logged
SendReturns(i, m) ==
  /\ stage[i][m] = "sending"
  /\ MoveTo(i, m, "none")
  /\ \E f \in {"answered", "unsent"} : Settle(m, f)
  /\ UNCHANGED <<environment, group, cursor, buffer, toStore, history>>

-----------------------------------------------------------------------------
(* Failures.                                                               *)

\* The process dies, or a handler panics: every future of the consumer runs
\* in its one task, so all of them are dropped with it.
Crash(i) ==
  /\ up[i] /\ crashes < MaxCrashes
  /\ crashes' = crashes + 1
  /\ up' = [up EXCEPT ![i] = FALSE]
  /\ owner' = IF owner = i THEN NoOwner ELSE owner
  /\ cursor' = [cursor EXCEPT ![i] = 0]
  /\ buffer' = [buffer EXCEPT ![i] = {}]
  /\ toStore' = [toStore EXCEPT ![i] = {}]
  /\ stage' = [stage EXCEPT ![i] = [m \in Messages |-> "none"]]
  /\ abandoned' = abandoned \cup InFlight(i)
  /\ UNCHANGED <<environment, committed, fate, taken, moves>>

\* The orchestrator starts the process again: connect, join the group, init.
Restart(i) ==
  /\ ~up[i]
  /\ up' = [up EXCEPT ![i] = TRUE]
  /\ UNCHANGED <<environment, committed, owner, client, fate, history>>

Next ==
  \/ Tick
  \/ Append
  \/ \E i \in Instances :
       \/ Assign(i) \/ Poll(i) \/ StoreOffset(i) \/ Take(i)
       \/ Crash(i) \/ Restart(i)
       \/ \E m \in Messages : HandlerReturns(i, m) \/ SendReturns(i, m)

Spec == Init /\ [][Next]_vars

\* The executor runs what is ready: streams are polled, background stores and
\* sends return, handlers return unless slow.  The server assigns a partition
\* nobody owns.  Nothing promises that time passes, that gates send, that a
\* replica is started again or that the assignment moves.
Fairness ==
  /\ WF_vars(owner = NoOwner /\ \E i \in Instances : Assign(i))
  /\ \A i \in Instances :
       /\ WF_vars(Poll(i)) /\ WF_vars(StoreOffset(i)) /\ WF_vars(Take(i))
       /\ \A m \in Messages : WF_vars(SendReturns(i, m))
       /\ \A m \in Messages \ Slow : WF_vars(HandlerReturns(i, m))

FairSpec == Spec /\ Fairness

-----------------------------------------------------------------------------
(* Properties.                                                             *)

\* Its offset is stored, nobody holds it and nothing was decided about it: the
\* group will not see this request again.
Lost(m) ==
  /\ m <= committed /\ fate[m] = {}
  /\ \A i \in Instances : stage[i][m] = "none" /\ m \notin buffer[i]

\* Storing an offset before its handler has run trades safety for latency
\* (AutoCommitWhen::ConsumingEachMessage, iggy.rs:371): a crash loses requests.
\* It loses at most those being handled, batch_size of them per crash, and
\* never one that was only buffered, whoever stores which offset late.
CrashLossBound ==
  LET lost == {m \in Messages : Lost(m)} IN
  lost \subseteq abandoned /\ Cardinality(lost) <= crashes * BatchSize

\* The staleness filter never drops a request whose gate still waits
\* ("messages older than BACK_MESSAGE_TIMEOUT have already caused the
\* originating gate to give up waiting", iggy.rs:405-406).
SkippedOnlyAfterGateGaveUp ==
  \A m \in Messages : "stale" \in fate[m] => now - askedAt[m] > Timeout

\* A request is handled again only if its offset was not stored yet when its
\* replica died; with live reassignments a member that lost the partition may
\* still work through its buffer, so the promise is for the runs without them.
RedeliveredOnlyIfUncommitted ==
  [][\A m \in Messages :
       taken'[m] > taken[m] => taken[m] = 0 \/ moves > 0 \/ m > committed]_vars

\* How often a request can be handled: once for each time the partition found
\* a new owner, however stores, polls and reassignments interleave.
TakenOncePerAssignment ==
  \A m \in Messages : taken[m] <= 1 + crashes + moves

\* The one reader that the replicas are together: where its owner stands in
\* the stream, what it handles and what has been decided.
ReadUpTo ==
  IF owner = NoOwner \/ cursor[owner] < committed THEN committed ELSE cursor[owner]
Handling == UNION {InFlight(i) : i \in Instances}
Decided == {m \in Messages : fate[m] # {}}

Reader == INSTANCE LogReader WITH
  Slots <- BatchSize, log <- produced, pos <- ReadUpTo, stored <- committed,
  busy <- Handling, settled <- Decided

\* While no partition moves between live replicas, all replicas together are
\* one reader of the log: requests are started in order, each once until a
\* replica dies, and its successor starts at the stored offset.
ImplementsLogReader == Reader!ReaderSpec

\* "a slow handler delays only its own reply, not every request behind it on
\* this topic" (iggy.rs:387-388): every other request is eventually answered,
\* skipped or dropped, or was lost in a crash.
SlowHandlerDelaysOnlyItself ==
  \A m \in Messages \ Slow : (m <= produced) ~> (fate[m] # {} \/ Lost(m))

=============================================================================
