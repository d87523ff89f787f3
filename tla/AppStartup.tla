----------------------------- MODULE AppStartup -----------------------------
(***************************************************************************)
(* The process-wide context APP of lib.rs: a LazyLock that the first       *)
(* thread to touch it initialises with init_by_env while the others wait,  *)
(* and that stays poisoned if the initialisation panics.                   *)
(*                                                                         *)
(* The initialisation reads the config file, overrides values of it with   *)
(* environment variables (config.rs) and builds the clients.  The config   *)
(* is cut down to three values: "name" (/service/name), "types"            *)
(* (/service/topicTypes) and "type" (/service/topicTypes/0), which exists  *)
(* only inside the second.  /envOverrides is a map with string keys that   *)
(* is walked in the order of the keys (serde_json without preserve_order,  *)
(* its default), so what contains a value comes before it; the order is    *)
(* otherwise of no consequence and left open.  A definition named X_.. is  *)
(* a faulty form of X that the checks put in its place.                    *)
(***************************************************************************)
EXTENDS FiniteSets

CONSTANTS
  Threads,
  FileKinds  \* kinds of values in the config file

Paths == {"name", "types", "type"}
Contains(p) == IF p = "types" THEN {"type"} ELSE {}

\* A "size" is a number that expect_u32 takes; "number" stands for those it
\* refuses (negative, fractional, out of range), "other" for objects and null.
Numbers == {"size", "number"}
Kinds == {"string", "boolean", "array", "other", "absent"} \cup Numbers

ASSUME ConstantsAssumption == IsFiniteSet(Threads) /\ FileKinds \subseteq Kinds

\* What the file says about a path's override: not listed, or listed and its
\* variable is not set, cannot be read (or is no name), or set to a text that
\* parses as the given kind ("string": as no other).
Set == {"string", "boolean", "array"} \cup Numbers
Settings == {"unlisted", "unset", "unreadable"} \cup Set

VARIABLES
  file,     \* file[p]: kind of the value at p as read
  env,      \* env[p]: how p is overridden
  config,   \* config[p]: kind of the value, and whose override wrote it
  pending,  \* overrides not yet applied (cloned from the config as read)
  once,     \* state of the LazyLock
  pc        \* pc[t]: where t's access to APP stands

input == <<file, env>>
vars == <<input, config, pending, once, pc>>

Initialising == {"loading", "overriding", "building"}

Values == [kind : Kinds, from : Paths \cup {"file"}]

TypeOK ==
  /\ file \in [Paths -> FileKinds] /\ env \in [Paths -> Settings]
  /\ config \in [Paths -> Values]
  /\ pending \subseteq {p \in Paths : env[p] # "unlisted"}
  /\ once \in {"new", "running", "ready", "poisoned"}
  /\ pc \in [Threads -> {"off", "waiting", "using", "panicked"} \cup Initialising]

Unwritten == [p \in Paths |-> [kind |-> "absent", from |-> "file"]]

Init ==
  /\ file \in [Paths -> FileKinds]
  /\ file["types"] # "array" => file["type"] = "absent"
  /\ env \in [Paths -> Settings]
  /\ config = Unwritten /\ pending = {}
  /\ once = "new"
  /\ pc = [t \in Threads |-> "off"]

-----------------------------------------------------------------------------
(* The LazyLock.                                                           *)

Goto(t, l) == pc' = [pc EXCEPT ![t] = l]

\* A dereference of APP: initialise it, wait for who does, use it, or panic.
Access(t) ==
  /\ \/ /\ pc[t] = "off" /\ once = "new"
        /\ once' = "running" /\ Goto(t, "loading")
     \/ /\ pc[t] = "off" /\ once = "running"
        /\ Goto(t, "waiting") /\ UNCHANGED once
     \/ /\ pc[t] \in {"off", "waiting"} /\ once = "ready"
        /\ Goto(t, "using") /\ UNCHANGED once
     \/ /\ pc[t] \in {"off", "waiting"} /\ once = "poisoned"
        /\ Goto(t, "panicked") /\ UNCHANGED once
  /\ UNCHANGED <<input, config, pending>>

Panic(t) == Goto(t, "panicked") /\ once' = "poisoned"

-----------------------------------------------------------------------------
(* init_by_env.                                                            *)

Listed_All == Paths
Listed == {p \in Paths : env[p] # "unlisted"}

\* Config::load: the directory, the file or its JSON may be invalid
Load(t) ==
  /\ pc[t] = "loading"
  /\ \/ /\ config' = [p \in Paths |-> [kind |-> file[p], from |-> "file"]]
        /\ pending' = Listed
        /\ Goto(t, "overriding") /\ UNCHANGED once
     \/ Panic(t) /\ UNCHANGED <<config, pending>>
  /\ UNCHANGED input

\* The keys of a map come in order: a path after the one that contains it.
NextKey_FileOrder(p) == p \in pending
NextKey(p) == p \in pending /\ \A q \in pending : p \notin Contains(q)

\* convert_env_to_value: does a text that parses as s replace a value of kind
\* k, and with what kind of value?
\* Any number replaces any number.
Converts(k, s) == k = "string" \/ {k, s} \subseteq Numbers \/ (k = s /\ k \in Set)
NewKind_OfText(k, s) == s
NewKind(k, s) == IF k \in Numbers THEN s ELSE k

\* *v = ..: p's value and, with an array, the elements, which have any kind.
Write(p, s) ==
  \E k \in Kinds :
    LET new == NewKind(config[p].kind, s)
    IN config' = [q \in Paths |->
         CASE q = p -> [kind |-> new, from |-> p]
           [] q \in Contains(p) /\ new = "array" -> [kind |-> k, from |-> p]
           [] OTHER -> config[q]]

\* One turn of the loop of override_values_from_env.
Override(t) ==
  /\ pc[t] = "overriding"
  /\ \E p \in pending :
       /\ NextKey(p)
       /\ pending' = pending \ {p}
       /\ \/ /\ (config[p].kind = "absent" \/ env[p] = "unset")
             /\ UNCHANGED <<config, once, pc>>
          \/ /\ env[p] \in Set /\ Converts(config[p].kind, env[p])
             /\ Write(p, env[p])
             /\ UNCHANGED <<once, pc>>
          \/ /\ config[p].kind # "absent" /\ env[p] # "unset"
             /\ env[p] \in Set => ~Converts(config[p].kind, env[p])
             /\ Panic(t) /\ UNCHANGED config
  /\ UNCHANGED input

Overridden(t) ==
  /\ pc[t] = "overriding" /\ pending = {}
  /\ Goto(t, "building")
  /\ UNCHANGED <<input, config, pending, once>>

Build_ReadsApp(t) ==
  /\ pc[t] = "building" /\ once # "running"
  /\ once' = "ready" /\ Goto(t, "using")
  /\ UNCHANGED <<input, config, pending>>

\* The service's name is checked and the clients are built from the config
\* they are given, never from APP; a wrong value panics.
Build(t) ==
  /\ pc[t] = "building"
  /\ \/ config["name"].kind = "string" /\ once' = "ready" /\ Goto(t, "using")
     \/ Panic(t)
  /\ UNCHANGED <<input, config, pending>>

Next == \E t \in Threads :
  Access(t) \/ Load(t) \/ Override(t) \/ Overridden(t) \/ Build(t)

Spec == Init /\ [][Next]_vars

\* The operating system runs every thread that is not blocked.
FairSpec ==
  Spec /\ \A t \in Threads :
    WF_vars(Access(t) \/ Load(t) \/ Override(t) \/ Overridden(t) \/ Build(t))

-----------------------------------------------------------------------------
(* Properties.                                                             *)

\* No override is lost on the way: in the config the process works with, a
\* value whose variable is set is the variable's, also where another override
\* replaced the array around it (config.rs:90-95).
OverridesWin ==
  once = "ready" =>
    \A p \in Paths : env[p] \in Set /\ config[p].kind # "absent" => config[p].from = p

JsonType(k) == IF k \in Numbers THEN "number" ELSE k

\* Overriding keeps the JSON type each value has in the file, for any order of
\* overrides that replace arrays around each other; only the elements of a
\* replaced array have any type (config.rs:60-79).  It does not keep what the
\* getters take: a number that expect_u32 takes may become one it refuses
\* (config.rs:66-68, 172-178), and the process panics when it reads it.
OverridesKeepKinds ==
  once = "ready" =>
    \A p \in Paths :
      \/ JsonType(config[p].kind) = JsonType(file[p])
      \/ \E q \in Paths : p \in Contains(q) /\ env[q] = "array"

\* Whoever comes first and however its initialisation ends, every thread that
\* touches APP gets the context or a panic (lib.rs:35).
EveryAccessReturns ==
  \A t \in Threads : (pc[t] # "off") ~> (pc[t] \in {"using", "panicked"})

=============================================================================
