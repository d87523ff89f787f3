--------------------------- MODULE TopicConsumers ---------------------------
(***************************************************************************)
(* run_service_consumers_all_topic_types in iggy.rs: it reads the topic    *)
(* types of the service from the config, checks the methods of the service *)
(* against them, spawns one consumer task for each and joins them all.     *)
(*                                                                         *)
(* A config entry is the topic type it parses to ("bad" if it parses to    *)
(* none) and its spelling: parsing ignores the case of letters             *)
(* (ascii_case_insensitive), the comparison of JSON values does not.  A    *)
(* definition named X_.. is a faulty form of X that the checks put in its  *)
(* place.                                                                  *)
(***************************************************************************)
EXTENDS Integers, Sequences, FiniteSets

CONSTANTS
  Spellings,  \* ways to write a topic type in the config
  MaxEntries  \* bound: entries of /service/topicTypes

TopicTypes == {"public", "open", "signed"}
Entries == [type : TopicTypes \cup {"bad"}, spelling : Spellings]
Configs == UNION {[1..n -> Entries] : n \in 0..MaxEntries}

\* The "topic" property of a method of the service: none, a type, or no type
MethodTopics == {"none", "bad", "signed", "open"}

ASSUME ConstantsAssumption == MaxEntries \in Nat /\ Spellings # {}

VARIABLES
  config,    \* /service/topicTypes
  methods,   \* "topic" properties of the methods (RpcMethod::iter)
  phase,     \* where run_service_consumers_all_topic_types stands
  types,     \* topic types of the consumers, in the order they are spawned
  tasks,     \* tasks[k]: state of the k-th spawned consumer
  unjoined   \* consumers in the JoinSet

vars == <<config, methods, phase, types, tasks, unjoined>>

Phases == {"reading", "checking", "spawning", "joining",
           "returned", "panicked", "dropped"}
Running == {"starting", "consuming"}
Stopped == {"ok", "failed", "panicked", "aborted"}

TypeOK ==
  /\ config \in Configs /\ methods \in SUBSET MethodTopics
  /\ phase \in Phases
  /\ types \in Seq(TopicTypes) /\ Len(types) <= Len(config)
  /\ tasks \in Seq(Running \cup Stopped) /\ Len(tasks) <= Len(types)
  /\ unjoined \subseteq 1..Len(tasks)

Init ==
  /\ config \in Configs /\ methods \in SUBSET MethodTopics
  /\ phase = "reading"
  /\ types = <<>> /\ tasks = <<>> /\ unjoined = {}

-----------------------------------------------------------------------------
(* Starting.                                                               *)

\* .iter().unique(): the first of every group of equal JSON values
FirstOccurrences_Unrepeated(s) ==
  {k \in 1..Len(s) : \A j \in 1..Len(s) : j # k => s[j] # s[k]}
FirstOccurrences(s) == {k \in 1..Len(s) : \A j \in 1..(k - 1) : s[j] # s[k]}

\* .map(SkwTopicType::try_from): the positions in order, as a sequence of types
InOrder(s, ks) ==
  [n \in 1..Cardinality(ks) |->
     s[CHOOSE k \in ks : Cardinality({j \in ks : j <= k}) = n].type]

ListedTypes_NotUnique(s) == [k \in 1..Len(s) |-> s[k].type]
ListedTypes(s) == InOrder(s, FirstOccurrences(s))

AllParse_Never(s) == TRUE
AllParse(s) == \A k \in 1..Len(s) : s[k].type # "bad"

\* get_config_topic_types; an unknown topic type is an error, and so is a
\* missing list or one that is no array, which end the same way
GetConfigTopicTypes ==
  /\ phase = "reading"
  /\ \/ /\ AllParse(config)
        /\ types' = ListedTypes(config) /\ phase' = "checking"
     \/ ~AllParse(config) /\ phase' = "returned" /\ UNCHANGED types
  /\ UNCHANGED <<config, methods, tasks, unjoined>>

\* A signed method is only served from signed topics.
Acceptable(ms, ts) ==
  "signed" \in ms => \A k \in 1..Len(ts) : ts[k] = "signed"

\* validate_rpc_methods_by_topics panics in the caller's task.
ValidateRpcMethods ==
  /\ phase = "checking"
  /\ phase' = IF types # <<>> /\ "bad" \notin methods /\ Acceptable(methods, types)
              THEN "spawning" ELSE "panicked"
  /\ UNCHANGED <<config, methods, types, tasks, unjoined>>

\* consumers.spawn: the spawned task may run before the next one is spawned
Spawn ==
  /\ phase = "spawning" /\ Len(tasks) < Len(types)
  /\ tasks' = Append(tasks, "starting")
  /\ unjoined' = unjoined \cup {Len(tasks) + 1}
  /\ UNCHANGED <<config, methods, phase, types>>

AllSpawned ==
  /\ phase = "spawning" /\ Len(tasks) = Len(types)
  /\ phase' = "joining"
  /\ UNCHANGED <<config, methods, types, tasks, unjoined>>

-----------------------------------------------------------------------------
(* run_service_consumer, as its JoinSet sees it.                           *)

\* connect, the poll interval and the initialisation of the consumer may fail,
\* creating the producer may panic
StartConsumer(k) ==
  /\ tasks[k] = "starting"
  /\ \E s \in {"consuming", "failed", "panicked"} : tasks' = [tasks EXCEPT ![k] = s]
  /\ UNCHANGED <<config, methods, phase, types, unjoined>>

\* the stream ends, or a handler panics
StopConsumer(k) ==
  /\ tasks[k] = "consuming"
  /\ \E s \in {"ok", "panicked"} : tasks' = [tasks EXCEPT ![k] = s]
  /\ UNCHANGED <<config, methods, phase, types, unjoined>>

-----------------------------------------------------------------------------
(* Joining.                                                                *)

JoinNext_EndOnPanic ==
  /\ phase = "joining"
  /\ \E k \in unjoined :
       /\ tasks[k] \in Stopped
       /\ unjoined' = unjoined \ {k}
       /\ phase' = IF tasks[k] = "panicked" THEN "returned" ELSE phase
  /\ UNCHANGED <<config, methods, types, tasks>>

JoinNext_SkipPanicked ==
  /\ phase = "joining"
  /\ \E k \in unjoined : tasks[k] \in {"ok", "failed"} /\ unjoined' = unjoined \ {k}
  /\ UNCHANGED <<config, methods, phase, types, tasks>>

\* consumers.join_next().await = Some(..): however it ended, it is logged
JoinNext ==
  /\ phase = "joining"
  /\ \E k \in unjoined : tasks[k] \in Stopped /\ unjoined' = unjoined \ {k}
  /\ UNCHANGED <<config, methods, phase, types, tasks>>

\* join_next is None: Err("all topic consumers stopped")
ReturnError ==
  /\ phase = "joining" /\ unjoined = {}
  /\ phase' = "returned"
  /\ UNCHANGED <<config, methods, types, tasks, unjoined>>

\* The caller drops the future while it awaits join_next: dropping the JoinSet
\* aborts what still runs.
CallerDrops ==
  /\ phase = "joining"
  /\ phase' = "dropped"
  /\ tasks' = [k \in 1..Len(tasks) |->
                 IF tasks[k] \in Running THEN "aborted" ELSE tasks[k]]
  /\ unjoined' = {}
  /\ UNCHANGED <<config, methods, types>>

Next ==
  \/ GetConfigTopicTypes \/ ValidateRpcMethods \/ Spawn \/ AllSpawned
  \/ \E k \in 1..Len(tasks) : StartConsumer(k) \/ StopConsumer(k)
  \/ JoinNext \/ ReturnError \/ CallerDrops

Spec == Init /\ [][Next]_vars

\* The executor runs the caller and the consumers as they start; nothing makes
\* a consumer stop.
Fairness ==
  /\ WF_vars(GetConfigTopicTypes) /\ WF_vars(ValidateRpcMethods)
  /\ WF_vars(Spawn) /\ WF_vars(AllSpawned)
  /\ WF_vars(JoinNext) /\ WF_vars(ReturnError)
  /\ WF_vars(\E k \in 1..Len(tasks) : StartConsumer(k))

FairSpec == Spec /\ Fairness

-----------------------------------------------------------------------------
(* Properties.                                                             *)

\* "Keeps running while at least one consumer is alive and returns an error
\* only after every consumer has stopped" (iggy.rs:476-477), however the
\* others ended: once it is over, no consumer is left behind.
NoConsumerLeftBehind ==
  phase \in {"returned", "panicked", "dropped"} =>
    \A k \in 1..Len(tasks) : tasks[k] \in Stopped

\* "Runs one run_service_consumer task per topic type listed" (iggy.rs:475).
OneTaskPerTopicType ==
  \A j, k \in 1..Len(tasks) : j # k => types[j] # types[k]

\* What .unique() (iggy.rs:470) does guarantee: repeating an entry starts no
\* second consumer of its topic, writing it in another way may.
OneTaskPerSpelling ==
  \A t \in TopicTypes :
    Cardinality({k \in 1..Len(tasks) : types[k] = t})
      <= Cardinality({e.spelling : e \in {config[k] : k \in {j \in 1..Len(config) : config[j].type = t}}})

\* A service all of whose consumers have stopped does not hang: the call
\* returns (or its caller has dropped it), so that it can be restarted.
ReturnsWhenAllStopped ==
  (phase = "joining" /\ \A k \in 1..Len(tasks) : tasks[k] \in Stopped)
    ~> (phase \in {"returned", "dropped"})

\* Every topic type the config lists gets a consumer, however often and in
\* whatever spelling it is listed, once the service has accepted the config.
EveryListedTypeServed ==
  \A t \in TopicTypes :
    (phase = "spawning" /\ \E k \in 1..Len(config) : config[k].type = t)
      ~> (\E k \in 1..Len(tasks) : types[k] = t)

=============================================================================
