--------------------------- MODULE InternalCalls ---------------------------
(***************************************************************************)
(* How a result or an error crosses several services: the handler of a     *)
(* request calls another service with jsonrpc::internal_http_request, that *)
(* service's handler may call a third one, and so on.  Hop k of chain c is *)
(* the k-th of these calls.  An AppError is answered as a status code, the *)
(* caller makes an AppError of the status code, and its handler hands it   *)
(* on with `?'.                                                            *)
(*                                                                         *)
(* Payloads are not told apart.  An AppError is the code of its Service    *)
(* variant, or "internal" for every other variant.  Handlers and what is   *)
(* between two services are not in this repository; a definition named     *)
(* X_.. is a faulty form of X that the checks put in its place.            *)
(***************************************************************************)
EXTENDS Naturals

CONSTANTS
  Chains,  \* the requests whose handlers call other services
  Depth,   \* bound: calls one below the other
  Raised,  \* AppErrors that a handler comes to of its own
  Strays   \* statuses of a router or proxy that answers for a service

Codes == {"NotFound", "Forbidden", "BadRequest", "UnprocessableEntity",
          "InternalServerError"}
ClientCodes == Codes \ {"InternalServerError"}
AppErrors == Codes \cup {"internal"}

ASSUME InternalCallsAssumption ==
  /\ Depth \in Nat
  /\ Raised \subseteq AppErrors
  /\ Strays \subseteq 400..599

Hops == 1..Depth

VARIABLES
  call,     \* call[c][k]: what the caller knows: idle, sent or the result
  handler,  \* handler[c][k]: the callee's future: idle, running or its result
  answer,   \* answer[c][k]: status on its way to the caller, 0 for none
  raised    \* raised[c]: client codes that a handler or a router came to (history)

calls == <<call, handler, answer, raised>>

CallsTypeOK ==
  /\ call \in [Chains -> [Hops -> {"idle", "sent", "payload"} \cup AppErrors]]
  /\ handler \in [Chains -> [Hops -> {"idle", "running", "payload"} \cup AppErrors]]
  /\ answer \in [Chains -> [Hops -> {0, 200} \cup 400..599]]
  /\ raised \in [Chains -> SUBSET ClientCodes]

NoCalls(x) == [k \in Hops |-> x]

CallsInit ==
  /\ call = [c \in Chains |-> NoCalls("idle")]
  /\ handler = [c \in Chains |-> NoCalls("idle")]
  /\ answer = [c \in Chains |-> NoCalls(0)]
  /\ raised = [c \in Chains |-> {}]

-----------------------------------------------------------------------------
(* Errors and statuses.                                                    *)

ServiceError_Details(e) == IF e = "internal" THEN "BadRequest" ELSE e

\* AppError::service_error: what is not a Service error becomes internal
ServiceError(e) == IF e = "internal" THEN "InternalServerError" ELSE e

StatusCode ==
  [NotFound |-> 404, Forbidden |-> 403, BadRequest |-> 400,
   UnprocessableEntity |-> 422, InternalServerError |-> 500]

\* JsonRpcResponse and JsonRpcErrorResponse
HttpStatus(result) ==
  IF result = "payload" THEN 200 ELSE StatusCode[ServiceError(result)]

IsSuccess_NotServerError(status) == status < 500
IsSuccess(status) == status \in 200..299

FromStatus_PassesUnexpected(status) ==
  CASE status = 403 -> "Forbidden"
    [] status = 404 -> "NotFound"
    [] status = 422 -> "UnprocessableEntity"
    [] OTHER        -> "BadRequest"

FromStatus(status) ==
  CASE status = 403 -> "Forbidden"
    [] status = 404 -> "NotFound"
    [] status = 400 -> "BadRequest"
    [] status = 422 -> "UnprocessableEntity"
    [] OTHER        -> "InternalServerError"

-----------------------------------------------------------------------------
(* One hop.                                                                *)

Becomes(f, c, k, x) == [f EXCEPT ![c][k] = x]
Raises(c, S) == raised' = [raised EXCEPT ![c] = @ \cup (S \cap ClientCodes)]

\* The handler above hop k runs (the head of the chain sees to itself).
MayCall(c, k) == k > 1 => handler[c][k - 1] = "running"

\* A request that cannot be serialised or sent is an error at once.
Call(c, k) ==
  /\ MayCall(c, k) /\ call[c][k] = "idle"
  /\ \E x \in {"sent", "internal"} : call' = Becomes(call, c, k, x)
  /\ UNCHANGED <<handler, answer, raised>>

Arrive(c, k) ==
  /\ call[c][k] = "sent" /\ handler[c][k] = "idle" /\ answer[c][k] = 0
  /\ handler' = Becomes(handler, c, k, "running")
  /\ UNCHANGED <<call, answer, raised>>

\* A router refuses the request, or a proxy gives up on the service behind it.
Stray(c, k, s) ==
  /\ call[c][k] = "sent" /\ answer[c][k] = 0
  /\ handler[c][k] = "idle" \/ s >= 500
  /\ answer' = Becomes(answer, c, k, s)
  /\ Raises(c, {e \in Codes : StatusCode[e] = s})
  /\ UNCHANGED <<call, handler>>

\* What a handler makes of the call below it: `?' hands an error on.
HandlerResults(c, k) ==
  IF k < Depth /\ call[c][k + 1] \in AppErrors
  THEN {call[c][k + 1]}
  ELSE {"payload"} \cup Raised

HandlerReturns(c, k) ==
  /\ handler[c][k] = "running"
  /\ k < Depth => call[c][k + 1] # "sent"
  /\ \E result \in HandlerResults(c, k) :
       /\ handler' = Becomes(handler, c, k, result)
       /\ answer' = IF answer[c][k] = 0
                    THEN Becomes(answer, c, k, HttpStatus(result)) ELSE answer
       /\ Raises(c, IF k < Depth /\ call[c][k + 1] \in AppErrors THEN {} ELSE {result})
  /\ UNCHANGED call

\* The rest of internal_http_request once there is a status; the body of a
\* success may still not come.
Receive(c, k) ==
  /\ call[c][k] = "sent" /\ answer[c][k] # 0
  /\ \E x \in IF IsSuccess(answer[c][k]) THEN {"payload", "internal"}
              ELSE {FromStatus(answer[c][k])} :
       call' = Becomes(call, c, k, x)
  /\ UNCHANGED <<handler, answer, raised>>

GiveUp_Never(c, k) == FALSE /\ UNCHANGED calls

\* The client's five seconds are over, or the connection broke; the callee
\* is not told.
GiveUp(c, k) ==
  /\ call[c][k] = "sent"
  /\ call' = Becomes(call, c, k, "internal")
  /\ UNCHANGED <<handler, answer, raised>>

\* The handler at the head of the chain ended or died; nobody waits for the
\* answers.
Forget(c) ==
  /\ call' = [call EXCEPT ![c] = NoCalls("idle")]
  /\ handler' = [handler EXCEPT ![c] = NoCalls("idle")]
  /\ answer' = [answer EXCEPT ![c] = NoCalls(0)]

\* Every step but the first call, which the handler at the head makes.
HopNext(c, k) ==
  \/ k > 1 /\ Call(c, k)
  \/ Arrive(c, k) \/ (\E s \in Strays : Stray(c, k, s)) \/ HandlerReturns(c, k)
  \/ Receive(c, k) \/ GiveUp(c, k)

-----------------------------------------------------------------------------
(* Properties.                                                             *)

\* "any non-2xx is an error: a 502/503 page must not reach the caller as a
\* payload" (jsonrpc.rs:124): a caller holds a payload only if no service
\* further down the chain that was asked failed.
NoFailureAsPayload ==
  \A c \in Chains : \A k \in Hops :
    call[c][k] = "payload" =>
      \A j \in k..Depth : handler[c][j] \in {"idle", "payload"}

\* "to the caller it's internal" (jsonrpc.rs:132): whatever fails on the way,
\* a code that blames the client is one that a handler or a router came to,
\* never what became of an internal failure.
CodeHasOrigin ==
  \A c \in Chains : \A k \in Hops :
    {call[c][k], handler[c][k]} \cap ClientCodes \subseteq raised[c]

=============================================================================
