---------------------------- MODULE TaskReplies ----------------------------
(***************************************************************************)
(* How a request that is answered in two parts is answered: the handler of *)
(* the service (RpcConsumer) calls other services (InternalCalls), then    *)
(* publishes a task and returns a reply with a status, which goes out as   *)
(* the provisional reply; a worker (TaskQueue) does the task and publishes *)
(* the final reply with task_done::TaskDonePublisher before it             *)
(* acknowledges the task, unless it gives the task up.                     *)
(*                                                                         *)
(* The queue is the abstract one, AtLeastOnce.  Both replies go to the     *)
(* back topic; they come from different processes, so nothing orders them. *)
(* A request that is delivered again after a crash queues a task of its    *)
(* own, hence tasks are pairs of a request and an attempt.  A handler that *)
(* outlives its connection (TaskQueue), or its replica's hold of the       *)
(* partition (RpcConsumer), adds a handling beside the next one and is     *)
(* left out.  A definition named X_.. is a faulty form of X that the       *)
(* checks put in its place.                                                *)
(***************************************************************************)
EXTENDS InternalCalls

CONSTANTS
  MaxCrashes  \* bound: services, and workers, that die while they handle something

ASSUME ConstantsAssumption == MaxCrashes \in Nat

Requests == Chains
Tasks == Requests \X (0..MaxCrashes)

VARIABLES
  status, promised, verdicts,  \* the queue, see AtLeastOnce
  attempt,  \* attempt[r]: how often r was delivered again
  svc,      \* svc[r]: where the service's future for r stands
  handed,   \* tasks that were given to the publisher
  work,     \* work[t]: where a worker's future for t stands
  sent,     \* sent[r]: kinds of replies published on the back topic
  crashes   \* services and workers that died

\* The variables call, handler, answer and raised are those of InternalCalls.
queue == <<status, promised, verdicts>>
service == <<attempt, svc, handed>>
vars == <<calls, queue, service, work, sent, crashes>>

Queue == INSTANCE AtLeastOnce

Task(r) == <<r, attempt[r]>>

ServiceStages == {"new", "handling", "queueing", "accepted", "done"} \cup AppErrors
\* A worker whose future settles the task stands at the verdict.
WorkStages == {"idle", "handling", "announced", "unannounced"} \cup Queue!Verdicts
Replies == {"provisional", "final"} \cup Codes

TypeOK ==
  /\ CallsTypeOK
  /\ Queue!AbstractTypeOK
  /\ attempt \in [Requests -> 0..MaxCrashes]
  /\ svc \in [Requests -> ServiceStages] /\ handed \subseteq Tasks
  /\ work \in [Tasks -> WorkStages]
  /\ sent \in [Requests -> SUBSET Replies]
  /\ crashes \in [{"service", "worker"} -> 0..MaxCrashes]

Init ==
  /\ CallsInit
  /\ Queue!AbstractInit
  /\ attempt = [r \in Requests |-> 0]
  /\ svc = [r \in Requests |-> "new"] /\ handed = {}
  /\ work = [t \in Tasks |-> "idle"]
  /\ sent = [r \in Requests |-> {}]
  /\ crashes = [who \in {"service", "worker"} |-> 0]

-----------------------------------------------------------------------------
(* The service: the handler publishes the task, the consumer replies.      *)

GoesTo(r, s) == svc' = [svc EXCEPT ![r] = s]
Send(r, k) == sent' = [sent EXCEPT ![r] = @ \cup {k}]

Dies(who) ==
  crashes[who] < MaxCrashes /\ crashes' = [crashes EXCEPT ![who] = @ + 1]

HandlerStarts(r) ==
  /\ svc[r] = "new"
  /\ GoesTo(r, "handling")
  /\ UNCHANGED <<calls, queue, attempt, handed, work, sent, crashes>>

\* The handler calls another service, and the chain of calls takes its course.
HandlerCalls(r) ==
  /\ svc[r] = "handling" /\ 1 \in Hops /\ Call(r, 1)
  /\ UNCHANGED <<queue, service, work, sent, crashes>>

CallGoesOn(r, k) == HopNext(r, k) /\ UNCHANGED <<queue, service, work, sent, crashes>>

CallError(r) == {call[r][k] : k \in Hops \cap {1}} \cap AppErrors

\* What the call came to: an error ends the handler, which may also come to
\* one of its own.  Nobody looks at the calls any more.
HandlerGoesOn(r) ==
  /\ svc[r] = "handling"
  /\ 1 \in Hops => call[r][1] # "sent"
  /\ \/ \E e \in CallError(r) : GoesTo(r, e) /\ Forget(r) /\ UNCHANGED <<raised, handed>>
     \/ /\ CallError(r) = {} /\ Forget(r)
        /\ \/ GoesTo(r, "queueing") /\ handed' = handed \cup {Task(r)} /\ UNCHANGED raised
           \/ \E e \in Raised : GoesTo(r, e) /\ Raises(r, {e}) /\ UNCHANGED handed
  /\ UNCHANGED <<queue, attempt, work, sent, crashes>>

\* The queue takes a task, maybe after publish returned an error.
QueueAccepts(t) ==
  /\ t \in handed /\ Queue!Accept(t)
  /\ UNCHANGED <<calls, service, work, sent, crashes>>

PublishOk_Unconfirmed(r) ==
  /\ svc[r] = "queueing"
  /\ promised' = promised \cup {Task(r)}
  /\ GoesTo(r, "accepted")
  /\ UNCHANGED <<calls, status, verdicts, attempt, handed, work, sent, crashes>>

\* RabbitMqPublisher::publish returns Ok; the handler returns a reply whose
\* status() is Created or Accepted.
PublishOk(r) ==
  /\ svc[r] = "queueing" /\ Queue!Promise(Task(r))
  /\ GoesTo(r, "accepted")
  /\ UNCHANGED <<calls, attempt, handed, work, sent, crashes>>

PublishErr(r) ==
  /\ svc[r] = "queueing"
  /\ GoesTo(r, "internal")
  /\ UNCHANGED <<calls, queue, attempt, handed, work, sent, crashes>>

Replying == {"accepted"} \cup AppErrors

ServiceReplies_RawError(r) ==
  /\ svc[r] \in Replying
  /\ Send(r, IF svc[r] = "accepted" THEN "provisional" ELSE svc[r]) \/ UNCHANGED sent
  /\ GoesTo(r, "done")
  /\ UNCHANGED <<calls, queue, attempt, handed, work, crashes>>

\* build_back_message and send_one; a reply that cannot be built or sent is
\* only logged.
ServiceReplies(r) ==
  /\ svc[r] \in Replying
  /\ \/ Send(r, IF svc[r] = "accepted" THEN "provisional" ELSE ServiceError(svc[r]))
     \/ UNCHANGED sent
  /\ GoesTo(r, "done")
  /\ UNCHANGED <<calls, queue, attempt, handed, work, crashes>>

\* The replica dies: the request is delivered again if its offset was not
\* stored, even after its reply, else it is gone.
ServiceCrash(r) ==
  /\ svc[r] # "new" /\ Dies("service")
  /\ \/ GoesTo(r, "new") /\ attempt' = [attempt EXCEPT ![r] = @ + 1]
     \/ GoesTo(r, "done") /\ UNCHANGED attempt
  /\ Forget(r)
  /\ UNCHANGED <<raised, queue, handed, work, sent>>

-----------------------------------------------------------------------------
(* The worker: do the task, announce it, acknowledge it.                   *)

WorksOn(t, s) == work' = [work EXCEPT ![t] = s]

\* A payload that is no task for this worker is given up, see Discard in
\* TaskQueue.  Releases of a worker may differ in what they can read.
WorkerTakes(t) ==
  /\ status[t] = "queued" /\ work[t] = "idle"
  /\ \/ WorksOn(t, "handling") /\ UNCHANGED queue
     \/ WorksOn(t, "drop") /\ Queue!Decide(t, "drop")
  /\ UNCHANGED <<calls, service, sent, crashes>>

Announce_IgnoresSendError(t) ==
  /\ work[t] = "handling"
  /\ WorksOn(t, "announced")
  /\ Send(t[1], "final") \/ UNCHANGED sent
  /\ UNCHANGED <<calls, queue, service, crashes>>

\* TaskDonePublisher::publish: an error of a header, of the message or of
\* send_one is returned to the handler.
Announce(t) ==
  /\ work[t] = "handling"
  /\ \/ WorksOn(t, "announced") /\ Send(t[1], "final")
     \/ WorksOn(t, "unannounced") /\ UNCHANGED sent
  /\ UNCHANGED <<calls, queue, service, crashes>>

\* The handler returns, with or without an announcement.  It may give the
\* task up or ask for a redelivery at any time; that it acks only what it
\* announced is assumed of the services' handlers.
WorkerDecides(t) ==
  /\ work[t] \in {"handling", "announced", "unannounced"}
  /\ \/ \E v \in Queue!Verdicts :
          /\ v = "ack" => work[t] = "announced"
          /\ WorksOn(t, v) /\ Queue!Decide(t, v)
     \/ WorksOn(t, "idle") /\ UNCHANGED queue
  /\ UNCHANGED <<calls, service, sent, crashes>>

\* The ack or nack reaches the queue, or fails with the connection.
WorkerSettles(t) ==
  /\ work[t] \in Queue!Verdicts
  /\ WorksOn(t, "idle")
  /\ Queue!Settle(t, work[t]) \/ UNCHANGED queue
  /\ UNCHANGED <<calls, service, sent, crashes>>

WorkerCrash(t) ==
  /\ work[t] # "idle" /\ Dies("worker")
  /\ WorksOn(t, "idle")
  /\ UNCHANGED <<calls, queue, service, sent>>

\* The broker restarts and has not kept what it had not confirmed.
QueueLoses(t) ==
  /\ Queue!Lose({t})
  /\ UNCHANGED <<calls, service, work, sent, crashes>>

Next ==
  \/ \E r \in Requests :
       \/ HandlerStarts(r) \/ HandlerCalls(r) \/ HandlerGoesOn(r)
       \/ PublishOk(r) \/ PublishErr(r)
       \/ ServiceReplies(r) \/ ServiceCrash(r)
       \/ \E k \in Hops : CallGoesOn(r, k)
  \/ \E t \in Tasks :
       \/ QueueAccepts(t) \/ WorkerTakes(t) \/ Announce(t) \/ WorkerDecides(t) \/ WorkerSettles(t)
       \/ WorkerCrash(t) \/ QueueLoses(t)

Spec == Init /\ [][Next]_vars

\* Workers keep working, a handler that is given a task again and again
\* announces it at last, neither the back topic nor the queue refuses every
\* attempt (strong fairness of the steps that succeed), and a process runs its
\* own futures and timers.  Nothing is assumed of callees and of the network.
Fairness ==
  /\ \A t \in Tasks :
       /\ WF_vars(WorkerTakes(t)) /\ WF_vars(Announce(t))
       /\ WF_vars(WorkerDecides(t)) /\ WF_vars(WorkerSettles(t))
       /\ SF_vars(Announce(t) /\ work'[t] = "announced")
       /\ SF_vars(WorkerSettles(t) /\ status'[t] # "queued")
  /\ \A r \in Requests :
       /\ WF_vars(HandlerGoesOn(r))
       /\ WF_vars(1 \in Hops /\ GiveUp(r, 1) /\ UNCHANGED <<queue, service, work, sent, crashes>>)

FairSpec == Spec /\ Fairness

-----------------------------------------------------------------------------
(* Properties.                                                             *)

\* A task leaves the queue as done only after its final reply was published,
\* whatever crashed and whatever the back topic refused in between.
DoneOnlyIfAnnounced ==
  \A t \in Tasks : status[t] = "ack" => "final" \in sent[t[1]]

GivenUp(r) == \A t \in promised : t[1] = r => status[t] = "drop"

\* A provisional reply is a promise ("the request is taken (e.g. a task
\* queued)", iggy.rs:276): through crashes of the service and of workers and
\* restarts of the broker the final reply is published, unless a worker gave
\* the task up.  Then the client is left without one: nothing in this code
\* announces a task that was dropped.
PromiseKept ==
  \A r \in Requests :
    ("provisional" \in sent[r]) ~> ("final" \in sent[r] \/ GivenUp(r))

\* The code a reply carries is one that a handler or a router came to, or
\* InternalServerError: "only the client-facing code goes on the bus"
\* (iggy.rs:321), through every service the error crossed and every attempt.
RepliedCodeHasOrigin ==
  \A r \in Requests : sent[r] \cap ClientCodes \subseteq raised[r]

\* A service that does not answer, or a network that loses the answer, does
\* not hold the handler that asked, nor its slot in the consumer (lib.rs:212).
HangingCalleeDoesNotHold ==
  \A r \in Requests : (svc[r] = "handling") ~> (svc[r] # "handling")

\* "The final reply for the same signature follows later" (prelude.rs:54-55):
\* no provisional reply is published after the first final one.
FinalFollowsProvisional ==
  [][\A r \in Requests :
       "provisional" \in sent'[r] \ sent[r] => "final" \notin sent[r]]_vars

=============================================================================
