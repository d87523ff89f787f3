------------------------- MODULE TaskRepliesProofs -------------------------
(***************************************************************************)
(* Proofs about calls between services and two-part replies, for any       *)
(* requests, any depth of the calls, any errors of handlers and statuses   *)
(* of routers, and any number of crashes.                                  *)
(***************************************************************************)
EXTENDS TaskReplies, TLAPS

USE InternalCallsAssumption, ConstantsAssumption

-----------------------------------------------------------------------------
(* Calls between services.                                                 *)

\* What was not called is idle all the way down.
IdleBelow ==
  \A c \in Chains : \A k, j \in Hops :
    call[c][k] = "idle" /\ j >= k =>
      call[c][j] = "idle" /\ handler[c][j] = "idle" /\ answer[c][j] = 0

\* A handler that answered a payload got payloads all the way down.
PayloadsBelow ==
  \A c \in Chains : \A k, j \in Hops :
    handler[c][k] = "payload" /\ j > k =>
      call[c][j] \in {"idle", "payload"} /\ handler[c][j] \in {"idle", "payload"}

\* A success on the wire, and a payload at the caller, is a handler's.
PayloadIsHandlers ==
  \A c \in Chains : \A k \in Hops :
    call[c][k] = "payload" \/ answer[c][k] = 200 => handler[c][k] = "payload"

\* A status that blames the client is one somebody came to.
StatusHasOrigin ==
  \A c \in Chains : \A k \in Hops :
    FromStatus(answer[c][k]) \in ClientCodes => FromStatus(answer[c][k]) \in raised[c]

ChainInv ==
  /\ CallsTypeOK /\ IdleBelow /\ PayloadsBelow /\ PayloadIsHandlers
  /\ CodeHasOrigin /\ StatusHasOrigin

LEMMA StatusFacts ==
  /\ \A e \in AppErrors : ServiceError(e) \in Codes
  /\ \A e \in Codes : StatusCode[e] \in 400..599
  /\ \A e \in AppErrors : HttpStatus(e) \in 400..599
  /\ HttpStatus("payload") = 200
  /\ \A s \in Nat : FromStatus(s) \in Codes
  /\ \A e \in AppErrors : FromStatus(HttpStatus(e)) \in ClientCodes =>
       FromStatus(HttpStatus(e)) = e
  /\ \A s \in Nat : FromStatus(s) \in ClientCodes =>
       s = StatusCode[FromStatus(s)]
  /\ FromStatus(0) \notin ClientCodes /\ FromStatus(200) \notin ClientCodes
<1> USE DEF AppErrors, Codes, ClientCodes, ServiceError, StatusCode, HttpStatus, FromStatus
<1>1. \A e \in AppErrors : ServiceError(e) \in Codes
  OBVIOUS
<1>2. \A e \in Codes : StatusCode[e] \in 400..599
  OBVIOUS
<1>3. \A e \in AppErrors : HttpStatus(e) \in 400..599
  OBVIOUS
<1>4. HttpStatus("payload") = 200
  OBVIOUS
<1>5. \A s \in Nat : FromStatus(s) \in Codes
  OBVIOUS
<1>6. \A e \in AppErrors : FromStatus(HttpStatus(e)) \in ClientCodes => FromStatus(HttpStatus(e)) = e
  OBVIOUS
<1>7. \A s \in Nat : FromStatus(s) \in ClientCodes => s = StatusCode[FromStatus(s)]
  OBVIOUS
<1>8. FromStatus(0) \notin ClientCodes /\ FromStatus(200) \notin ClientCodes
  OBVIOUS
<1> QED BY <1>1, <1>2, <1>3, <1>4, <1>5, <1>6, <1>7, <1>8

LEMMA ChainInit == CallsInit => ChainInv
<1> SUFFICES ASSUME CallsInit PROVE ChainInv
  OBVIOUS
<1> USE DEF CallsInit, NoCalls
<1>1. CallsTypeOK
  BY DEF CallsTypeOK
<1>2. IdleBelow /\ PayloadsBelow /\ PayloadIsHandlers
  BY DEF IdleBelow, PayloadsBelow, PayloadIsHandlers
<1>3. CodeHasOrigin
  BY DEF CodeHasOrigin, ClientCodes, Codes
<1>4. StatusHasOrigin
  BY StatusFacts DEF StatusHasOrigin
<1> QED BY <1>1, <1>2, <1>3, <1>4 DEF ChainInv

Calling == {"idle", "sent", "payload"} \cup AppErrors
Handling == {"idle", "running", "payload"} \cup AppErrors
Answers == {0, 200} \cup 400..599

LEMMA HopsNat == Hops \subseteq Nat /\ \A k \in Hops : k > 1 => k - 1 \in Hops
BY DEF Hops

LEMMA CallStep ==
  ASSUME ChainInv, NEW c \in Chains, NEW k \in Hops, Call(c, k)
  PROVE  ChainInv'
<1> PICK x \in {"sent", "internal"} : call' = Becomes(call, c, k, x)
  BY DEF Call
<1>1. /\ call \in [Chains -> [Hops -> Calling]] /\ x \in Calling
      /\ UNCHANGED <<handler, answer, raised>>
  BY DEF ChainInv, CallsTypeOK, Calling, Call, AppErrors
<1>2. /\ call' \in [Chains -> [Hops -> Calling]]
      /\ \A d \in Chains, j \in Hops :
           call'[d][j] = IF d = c /\ j = k THEN x ELSE call[d][j]
  BY <1>1 DEF Becomes
<1>3. CallsTypeOK'
  BY <1>1, <1>2 DEF ChainInv, CallsTypeOK, Calling
<1>4. call[c][k] = "idle" /\ (k > 1 => handler[c][k - 1] = "running")
  BY DEF Call, MayCall
<1>5. IdleBelow'
  <2> SUFFICES ASSUME NEW d \in Chains, NEW i \in Hops, NEW j \in Hops,
                      call'[d][i] = "idle", j >= i
               PROVE  call'[d][j] = "idle" /\ handler[d][j] = "idle" /\ answer[d][j] = 0
    BY <1>1 DEF IdleBelow
  <2>1. call[d][i] = "idle" /\ ~(d = c /\ i = k)
    BY <1>2
  <2>2. ~(d = c /\ j = k)
    <3> SUFFICES ASSUME d = c, j = k PROVE FALSE
      OBVIOUS
    <3>1. i < k /\ k > 1 /\ k - 1 \in Hops /\ k - 1 >= i
      BY <2>1, HopsNat DEF Hops
    <3>2. handler[c][k - 1] = "idle"
      BY <2>1, <3>1 DEF ChainInv, IdleBelow
    <3> QED BY <1>4, <3>1, <3>2
  <2> QED BY <1>2, <2>1, <2>2 DEF ChainInv, IdleBelow
<1>6. PayloadsBelow'
  <2> SUFFICES ASSUME NEW d \in Chains, NEW i \in Hops, NEW j \in Hops,
                      handler[d][i] = "payload", j > i
               PROVE  call'[d][j] \in {"idle", "payload"} /\ handler[d][j] \in {"idle", "payload"}
    BY <1>1 DEF PayloadsBelow
  <2>1. ~(d = c /\ j = k)
    <3> SUFFICES ASSUME d = c, j = k PROVE FALSE
      OBVIOUS
    <3>1. k > 1 /\ k - 1 \in Hops /\ k - 1 >= i
      BY HopsNat DEF Hops
    <3>2. handler[c][k - 1] \in {"idle", "payload"}
      BY <3>1, HopsNat DEF ChainInv, PayloadsBelow
    <3> QED BY <1>4, <3>1, <3>2
  <2> QED BY <1>2, <2>1 DEF ChainInv, PayloadsBelow
<1>7. PayloadIsHandlers' /\ StatusHasOrigin'
  BY <1>1, <1>2 DEF ChainInv, PayloadIsHandlers, StatusHasOrigin
<1>8. CodeHasOrigin'
  BY <1>1, <1>2 DEF ChainInv, CodeHasOrigin, ClientCodes, Codes
<1> QED BY <1>3, <1>5, <1>6, <1>7, <1>8 DEF ChainInv

LEMMA ArriveStep ==
  ASSUME ChainInv, NEW c \in Chains, NEW k \in Hops, Arrive(c, k)
  PROVE  ChainInv'
<1>1. /\ handler \in [Chains -> [Hops -> Handling]] /\ "running" \in Handling
      /\ UNCHANGED <<call, answer, raised>> /\ call[c][k] = "sent"
  BY DEF ChainInv, CallsTypeOK, Handling, Arrive
<1>2. /\ handler' \in [Chains -> [Hops -> Handling]]
      /\ \A d \in Chains, j \in Hops :
           handler'[d][j] = IF d = c /\ j = k THEN "running" ELSE handler[d][j]
  BY <1>1 DEF Arrive, Becomes
<1>3. CallsTypeOK'
  BY <1>1, <1>2 DEF ChainInv, CallsTypeOK, Handling
<1>4. IdleBelow'
  BY <1>1, <1>2 DEF ChainInv, IdleBelow
<1>5. PayloadsBelow'
  BY <1>1, <1>2 DEF ChainInv, PayloadsBelow
<1>6. PayloadIsHandlers'
  BY <1>1, <1>2 DEF ChainInv, PayloadIsHandlers, Arrive
<1>7. StatusHasOrigin'
  BY <1>1 DEF ChainInv, StatusHasOrigin
<1>8. CodeHasOrigin'
  BY <1>1, <1>2 DEF ChainInv, CodeHasOrigin, ClientCodes, Codes
<1> QED BY <1>3, <1>4, <1>5, <1>6, <1>7, <1>8 DEF ChainInv

LEMMA StrayStep ==
  ASSUME ChainInv, NEW c \in Chains, NEW k \in Hops, NEW s \in Strays, Stray(c, k, s)
  PROVE  ChainInv'
<1>1. /\ answer \in [Chains -> [Hops -> Answers]] /\ s \in Answers /\ s \in 400..599
      /\ UNCHANGED <<call, handler>> /\ call[c][k] = "sent"
  BY DEF ChainInv, CallsTypeOK, Answers, Stray
<1>2. /\ answer' \in [Chains -> [Hops -> Answers]]
      /\ \A d \in Chains, j \in Hops :
           answer'[d][j] = IF d = c /\ j = k THEN s ELSE answer[d][j]
  BY <1>1 DEF Stray, Becomes
<1>3. /\ raised' \in [Chains -> SUBSET ClientCodes]
      /\ \A d \in Chains : raised[d] \subseteq raised'[d]
      /\ {e \in ClientCodes : StatusCode[e] = s} \subseteq raised'[c]
  BY DEF ChainInv, CallsTypeOK, Stray, Raises, ClientCodes
<1>4. CallsTypeOK'
  BY <1>1, <1>2, <1>3 DEF ChainInv, CallsTypeOK, Answers
<1>5. IdleBelow'
  BY <1>1, <1>2 DEF ChainInv, IdleBelow
<1>6. PayloadsBelow'
  BY <1>1 DEF ChainInv, PayloadsBelow
<1>7. PayloadIsHandlers'
  BY <1>1, <1>2 DEF ChainInv, PayloadIsHandlers
<1>8. FromStatus(s) \in ClientCodes => FromStatus(s) \in raised'[c]
  BY <1>1, <1>3, StatusFacts
<1>9. StatusHasOrigin'
  BY <1>2, <1>3, <1>8 DEF ChainInv, StatusHasOrigin
<1>10. CodeHasOrigin'
  BY <1>1, <1>3 DEF ChainInv, CodeHasOrigin
<1> QED BY <1>4, <1>5, <1>6, <1>7, <1>9, <1>10 DEF ChainInv

LEMMA GiveUpStep ==
  ASSUME ChainInv, NEW c \in Chains, NEW k \in Hops, GiveUp(c, k)
  PROVE  ChainInv'
<1>1. /\ call \in [Chains -> [Hops -> Calling]] /\ "internal" \in Calling
      /\ UNCHANGED <<handler, answer, raised>> /\ call[c][k] = "sent"
  BY DEF ChainInv, CallsTypeOK, Calling, AppErrors, GiveUp
<1>2. /\ call' \in [Chains -> [Hops -> Calling]]
      /\ \A d \in Chains, j \in Hops :
           call'[d][j] = IF d = c /\ j = k THEN "internal" ELSE call[d][j]
  BY <1>1 DEF GiveUp, Becomes
<1>3. CallsTypeOK'
  BY <1>1, <1>2 DEF ChainInv, CallsTypeOK, Calling
<1>4. IdleBelow'
  BY <1>1, <1>2 DEF ChainInv, IdleBelow
<1>5. PayloadsBelow'
  BY <1>1, <1>2 DEF ChainInv, PayloadsBelow
<1>6. PayloadIsHandlers' /\ StatusHasOrigin'
  BY <1>1, <1>2 DEF ChainInv, PayloadIsHandlers, StatusHasOrigin
<1>7. CodeHasOrigin'
  BY <1>1, <1>2 DEF ChainInv, CodeHasOrigin, ClientCodes, Codes
<1> QED BY <1>3, <1>4, <1>5, <1>6, <1>7 DEF ChainInv

LEMMA ReceiveStep ==
  ASSUME ChainInv, NEW c \in Chains, NEW k \in Hops, Receive(c, k)
  PROVE  ChainInv'
<1> DEFINE s == answer[c][k]
<1> PICK x \in IF IsSuccess(s) THEN {"payload", "internal"} ELSE {FromStatus(s)} :
           call' = Becomes(call, c, k, x)
  BY DEF Receive
<1>0. /\ answer \in [Chains -> [Hops -> Answers]] /\ answer[c][k] # 0
      /\ UNCHANGED <<handler, answer, raised>> /\ call[c][k] = "sent"
      /\ call \in [Chains -> [Hops -> Calling]]
  BY DEF ChainInv, CallsTypeOK, Answers, Calling, Receive
<1>1. /\ s \in Answers \ {0} /\ s \in Nat /\ call[c][k] = "sent"
      /\ UNCHANGED <<handler, answer, raised>>
      /\ call \in [Chains -> [Hops -> Calling]]
  BY <1>0 DEF Answers
<1>2. /\ x \in Codes \cup {"payload", "internal"} /\ x \in Calling
      /\ x = "payload" => s = 200
      /\ x \in ClientCodes => x = FromStatus(s)
  <2>1. CASE IsSuccess(s)
    BY <1>1, <2>1 DEF IsSuccess, Answers, ClientCodes, Codes, Calling, AppErrors
  <2>2. CASE ~IsSuccess(s)
    <3>1. x = FromStatus(s) /\ x \in Codes
      BY <1>1, <2>2, StatusFacts
    <3> HIDE DEF s
    <3> QED BY <3>1 DEF Codes, Calling, AppErrors
  <2> QED BY <2>1, <2>2
<1>3. /\ call' \in [Chains -> [Hops -> Calling]]
      /\ \A d \in Chains, j \in Hops :
           call'[d][j] = IF d = c /\ j = k THEN x ELSE call[d][j]
  BY <1>1, <1>2 DEF Becomes
<1>4. CallsTypeOK'
  BY <1>1, <1>3 DEF ChainInv, CallsTypeOK, Calling
<1>5. x # "idle"
  BY <1>2 DEF Codes
<1>6. IdleBelow'
  BY <1>1, <1>3, <1>5 DEF ChainInv, IdleBelow
<1>7. PayloadsBelow'
  BY <1>1, <1>3 DEF ChainInv, PayloadsBelow
<1>8. PayloadIsHandlers' /\ StatusHasOrigin'
  BY <1>1, <1>2, <1>3 DEF ChainInv, PayloadIsHandlers, StatusHasOrigin
<1>9. x \in ClientCodes => x \in raised[c]
  BY <1>2 DEF ChainInv, StatusHasOrigin
<1>10. CodeHasOrigin'
  BY <1>1, <1>3, <1>9 DEF ChainInv, CodeHasOrigin
<1> QED BY <1>4, <1>6, <1>7, <1>8, <1>10 DEF ChainInv

\* A handler that returns waits for nothing; what it returns is the callee's
\* error or its own.
LEMMA ReturnsStep ==
  ASSUME ChainInv, NEW c \in Chains, NEW k \in Hops, HandlerReturns(c, k)
  PROVE  ChainInv'
<1>p. PICK x \in HandlerResults(c, k) :
           /\ handler' = Becomes(handler, c, k, x)
           /\ answer' = IF answer[c][k] = 0
                        THEN Becomes(answer, c, k, HttpStatus(x)) ELSE answer
           /\ Raises(c, IF k < Depth /\ call[c][k + 1] \in AppErrors THEN {} ELSE {x})
  BY DEF HandlerReturns
<1>0. /\ handler \in [Chains -> [Hops -> Handling]]
      /\ answer \in [Chains -> [Hops -> Answers]]
      /\ call \in [Chains -> [Hops -> Calling]]
      /\ raised \in [Chains -> SUBSET ClientCodes]
      /\ handler[c][k] = "running" /\ (k < Depth => call[c][k + 1] # "sent")
      /\ UNCHANGED call
  BY DEF ChainInv, CallsTypeOK, Handling, Answers, Calling, HandlerReturns
<1>1. x \in AppErrors \cup {"payload"} /\ x \in Handling
  BY <1>p DEF HandlerResults, Handling
<1>2. HttpStatus(x) \in Answers
  BY <1>1, StatusFacts DEF Answers
<1>3. /\ handler' \in [Chains -> [Hops -> Handling]]
      /\ \A d \in Chains, j \in Hops :
           handler'[d][j] = IF d = c /\ j = k THEN x ELSE handler[d][j]
  BY <1>p, <1>0, <1>1 DEF Becomes
<1>4. /\ answer' \in [Chains -> [Hops -> Answers]]
      /\ \A d \in Chains, j \in Hops :
           answer'[d][j] = IF d = c /\ j = k /\ answer[c][k] = 0
                           THEN HttpStatus(x) ELSE answer[d][j]
  BY <1>p, <1>0, <1>2 DEF Becomes
<1>5. /\ raised' \in [Chains -> SUBSET ClientCodes]
      /\ \A d \in Chains : raised[d] \subseteq raised'[d]
  BY <1>p, <1>0 DEF Raises
<1>6. x \in ClientCodes => x \in raised'[c]
  <2>1. CASE k < Depth /\ call[c][k + 1] \in AppErrors
    <3>1. x = call[c][k + 1] /\ k + 1 \in Hops
      BY <1>p, <2>1 DEF HandlerResults, Hops
    <3> QED BY <1>5, <3>1 DEF ChainInv, CodeHasOrigin
  <2>2. CASE ~(k < Depth /\ call[c][k + 1] \in AppErrors)
    BY <1>p, <1>0, <2>2 DEF Raises
  <2> QED BY <2>1, <2>2
<1>7. CallsTypeOK'
  BY <1>0, <1>3, <1>4, <1>5 DEF CallsTypeOK, Handling, Answers, Calling
<1>8. IdleBelow'
  <2> SUFFICES ASSUME NEW d \in Chains, NEW i \in Hops, NEW j \in Hops, call[d][i] = "idle", j >= i
               PROVE  call[d][j] = "idle" /\ handler'[d][j] = "idle" /\ answer'[d][j] = 0
    BY <1>0 DEF IdleBelow
  <2>1. call[d][j] = "idle" /\ handler[d][j] = "idle" /\ answer[d][j] = 0
    BY DEF ChainInv, IdleBelow
  <2>2. ~(d = c /\ j = k)
    BY <1>0, <2>1
  <2> QED BY <1>3, <1>4, <2>1, <2>2
<1>9. x = "payload" => \A j \in Hops : j > k =>
        call[c][j] \in {"idle", "payload"} /\ handler[c][j] \in {"idle", "payload"}
  <2> SUFFICES ASSUME x = "payload", NEW j \in Hops, j > k
               PROVE  call[c][j] \in {"idle", "payload"} /\ handler[c][j] \in {"idle", "payload"}
    OBVIOUS
  <2>1. k < Depth /\ k + 1 \in Hops /\ j >= k + 1
    BY DEF Hops
  <2>2. "payload" \notin AppErrors
    BY DEF AppErrors, Codes
  <2>3. call[c][k + 1] \notin AppErrors
    BY <1>p, <2>1, <2>2 DEF HandlerResults
  <2>4. call[c][k + 1] \in {"idle", "payload"}
    BY <1>0, <2>1, <2>3 DEF Calling
  <2>5. CASE call[c][k + 1] = "idle"
    BY <2>1, <2>5 DEF ChainInv, IdleBelow
  <2>6. CASE call[c][k + 1] = "payload"
    <3>1. handler[c][k + 1] = "payload"
      BY <2>1, <2>6 DEF ChainInv, PayloadIsHandlers
    <3>2. j = k + 1 \/ j > k + 1
      BY <2>1, HopsNat
    <3> QED BY <2>1, <2>6, <3>1, <3>2 DEF ChainInv, PayloadsBelow
  <2> QED BY <2>4, <2>5, <2>6
<1>10. PayloadsBelow'
  <2> SUFFICES ASSUME NEW d \in Chains, NEW i \in Hops, NEW j \in Hops,
                      handler'[d][i] = "payload", j > i
               PROVE  call[d][j] \in {"idle", "payload"} /\ handler'[d][j] \in {"idle", "payload"}
    BY <1>0 DEF PayloadsBelow
  <2>1. CASE d = c /\ i = k
    BY <1>3, <1>9, <2>1, HopsNat
  <2>2. CASE ~(d = c /\ i = k)
    <3>1. call[d][j] \in {"idle", "payload"} /\ handler[d][j] \in {"idle", "payload"}
      BY <1>3, <2>2 DEF ChainInv, PayloadsBelow
    <3>2. ~(d = c /\ j = k)
      BY <1>0, <3>1
    <3> QED BY <1>3, <3>1, <3>2
  <2> QED BY <2>1, <2>2
<1>11. x \in AppErrors => HttpStatus(x) # 200
  BY StatusFacts
<1>12. PayloadIsHandlers'
  <2> SUFFICES ASSUME NEW d \in Chains, NEW j \in Hops, call[d][j] = "payload" \/ answer'[d][j] = 200
               PROVE  handler'[d][j] = "payload"
    BY <1>0 DEF PayloadIsHandlers
  <2>1. CASE d = c /\ j = k
    <3>1. call[c][k] # "payload" /\ answer[c][k] # 200
      BY <1>0 DEF ChainInv, PayloadIsHandlers
    <3> QED BY <1>1, <1>3, <1>4, <1>11, <2>1, <3>1
  <2>2. CASE ~(d = c /\ j = k)
    BY <1>3, <1>4, <2>2 DEF ChainInv, PayloadIsHandlers
  <2> QED BY <2>1, <2>2
<1>13. FromStatus(HttpStatus(x)) \in ClientCodes => FromStatus(HttpStatus(x)) \in raised'[c]
  <2>1. CASE x = "payload"
    BY <2>1, StatusFacts
  <2>2. CASE x \in AppErrors
    BY <1>6, <2>2, StatusFacts
  <2> QED BY <1>1, <2>1, <2>2
<1>14. StatusHasOrigin'
  BY <1>4, <1>5, <1>13 DEF ChainInv, StatusHasOrigin
<1>15. CodeHasOrigin'
  BY <1>0, <1>3, <1>5, <1>6 DEF ChainInv, CodeHasOrigin
<1> QED BY <1>7, <1>8, <1>10, <1>12, <1>14, <1>15 DEF ChainInv

LEMMA ForgetStep ==
  ASSUME ChainInv, NEW c \in Chains, Forget(c), raised' \in [Chains -> SUBSET ClientCodes],
         \A d \in Chains : raised[d] \subseteq raised'[d]
  PROVE  ChainInv'
<1>0. /\ call \in [Chains -> [Hops -> Calling]] /\ "idle" \in Calling
      /\ handler \in [Chains -> [Hops -> Handling]] /\ "idle" \in Handling
      /\ answer \in [Chains -> [Hops -> Answers]] /\ 0 \in Answers
  BY DEF ChainInv, CallsTypeOK, Calling, Handling, Answers
<1>1. /\ call' = [call EXCEPT ![c] = NoCalls("idle")] /\ handler' = [handler EXCEPT ![c] = NoCalls("idle")]
      /\ answer' = [answer EXCEPT ![c] = NoCalls(0)]
  BY DEF Forget
<1>6. /\ call' \in [Chains -> [Hops -> Calling]]
      /\ handler' \in [Chains -> [Hops -> Handling]]
      /\ answer' \in [Chains -> [Hops -> Answers]]
  BY <1>0, <1>1 DEF NoCalls
<1>7. \A j \in Hops : call'[c][j] = "idle" /\ handler'[c][j] = "idle" /\ answer'[c][j] = 0
  BY <1>0, <1>1 DEF NoCalls
<1>8. \A d \in Chains : d # c => call'[d] = call[d] /\ handler'[d] = handler[d] /\ answer'[d] = answer[d]
  BY <1>0, <1>1
<1>5. CallsTypeOK'
  BY <1>6 DEF CallsTypeOK, Calling, Handling, Answers
<1>2. IdleBelow' /\ PayloadsBelow' /\ PayloadIsHandlers'
  <2>1. IdleBelow'
    BY <1>7, <1>8 DEF ChainInv, IdleBelow
  <2>2. PayloadsBelow'
    BY <1>7, <1>8 DEF ChainInv, PayloadsBelow
  <2>3. PayloadIsHandlers'
    BY <1>7, <1>8 DEF ChainInv, PayloadIsHandlers
  <2> QED BY <2>1, <2>2, <2>3
<1>3. StatusHasOrigin'
  BY <1>7, <1>8, StatusFacts DEF ChainInv, StatusHasOrigin
<1>4. CodeHasOrigin'
  <2> SUFFICES ASSUME NEW d \in Chains, NEW j \in Hops
               PROVE  {call'[d][j], handler'[d][j]} \cap ClientCodes \subseteq raised'[d]
    BY DEF CodeHasOrigin
  <2>1. CASE d = c
    BY <1>7, <2>1 DEF ClientCodes, Codes
  <2>2. CASE d # c
    BY <1>8, <2>2 DEF ChainInv, CodeHasOrigin
  <2> QED BY <2>1, <2>2
<1> QED BY <1>2, <1>3, <1>4, <1>5 DEF ChainInv

LEMMA HopStep ==
  ASSUME ChainInv, NEW c \in Chains, NEW k \in Hops, HopNext(c, k)
  PROVE  ChainInv'
BY CallStep, ArriveStep, StrayStep, ReturnsStep, ReceiveStep, GiveUpStep DEF HopNext

LEMMA CallsStutter == ChainInv /\ UNCHANGED calls => ChainInv'
BY DEF ChainInv, calls, CallsTypeOK, IdleBelow, PayloadsBelow, PayloadIsHandlers,
       CodeHasOrigin, StatusHasOrigin

LEMMA NoFailureFollows == ChainInv => NoFailureAsPayload
<1> SUFFICES ASSUME ChainInv, NEW c \in Chains, NEW k \in Hops, call[c][k] = "payload",
                    NEW j \in k..Depth
             PROVE  handler[c][j] \in {"idle", "payload"}
  BY DEF NoFailureAsPayload
<1>1. handler[c][k] = "payload" /\ j \in Hops /\ (j = k \/ j > k)
  BY DEF ChainInv, PayloadIsHandlers, Hops
<1> QED BY <1>1 DEF ChainInv, PayloadsBelow

-----------------------------------------------------------------------------
(* Requests and replies.                                                   *)

AttemptsCounted == \A r \in Requests : attempt[r] <= crashes["service"]

\* An error a handler ended with is no invention either.
ErrorHasOrigin == \A r \in Requests : svc[r] \in ClientCodes => svc[r] \in raised[r]

\* A worker that may ack, and an ack, come after the final reply.
AnnouncedFirst ==
  \A t \in Tasks :
    work[t] \in {"announced", "ack"} \/ "ack" \in verdicts[t] => "final" \in sent[t[1]]

IInv ==
  /\ TypeOK /\ ChainInv /\ AttemptsCounted
  /\ ErrorHasOrigin /\ RepliedCodeHasOrigin
  /\ AnnouncedFirst /\ DoneOnlyIfAnnounced

LEMMA TaskFacts ==
  ASSUME TypeOK
  PROVE  /\ \A r \in Requests : Task(r) \in Tasks
         /\ \A t \in Tasks : t[1] \in Requests
BY DEF TypeOK, Task, Tasks, Requests

LEMMA RaisesGrows ==
  ASSUME raised \in [Chains -> SUBSET ClientCodes], NEW c \in Chains, NEW S, Raises(c, S)
  PROVE  /\ raised' \in [Chains -> SUBSET ClientCodes]
         /\ \A d \in Chains : raised[d] \subseteq raised'[d]
         /\ S \cap ClientCodes \subseteq raised'[c]
BY DEF Raises

\* Nothing that was raised or sent is taken back.
LEMMA Grows ==
  ASSUME TypeOK, [Next]_vars
  PROVE  \A r \in Requests : raised[r] \subseteq raised'[r] /\ sent[r] \subseteq sent'[r]
<1>0. /\ raised \in [Requests -> SUBSET ClientCodes] /\ sent \in [Requests -> SUBSET Replies]
      /\ \A t \in Tasks : t[1] \in Requests
  BY TaskFacts DEF TypeOK, CallsTypeOK, Requests
<1>1. ASSUME NEW r \in Requests,
             HandlerStarts(r) \/ PublishOk(r) \/ PublishErr(r) \/ HandlerCalls(r) \/ ServiceCrash(r)
      PROVE  UNCHANGED <<raised, sent>>
  BY <1>1 DEF HandlerStarts, PublishOk, PublishErr, HandlerCalls, Call, ServiceCrash, calls
<1>2. ASSUME NEW r \in Requests, HandlerGoesOn(r)
      PROVE  sent' = sent /\ \A q \in Requests : raised[q] \subseteq raised'[q]
  BY <1>0, <1>2, RaisesGrows DEF HandlerGoesOn, Requests
<1>3. ASSUME NEW r \in Requests, ServiceReplies(r)
      PROVE  raised' = raised /\ \A q \in Requests : sent[q] \subseteq sent'[q]
  BY <1>0, <1>3 DEF ServiceReplies, Send, calls
<1>4. ASSUME NEW r \in Requests, NEW k \in Hops, CallGoesOn(r, k)
      PROVE  sent' = sent /\ \A q \in Requests : raised[q] \subseteq raised'[q]
  <2>1. sent' = sent
    BY <1>4 DEF CallGoesOn
  <2>2. raised' = raised \/ \E S : Raises(r, S)
    BY <1>4 DEF CallGoesOn, HopNext, Call, Arrive, Stray, HandlerReturns, Receive, GiveUp
  <2> QED BY <1>0, <2>1, <2>2, RaisesGrows DEF Requests
<1>5. ASSUME NEW t \in Tasks, QueueAccepts(t) \/ WorkerTakes(t) \/ WorkerDecides(t)
                              \/ WorkerSettles(t) \/ WorkerCrash(t) \/ QueueLoses(t)
      PROVE  UNCHANGED <<raised, sent>>
  BY <1>5 DEF QueueAccepts, WorkerTakes, WorkerDecides, WorkerSettles, WorkerCrash, QueueLoses, calls
<1>6. ASSUME NEW t \in Tasks, Announce(t)
      PROVE  raised' = raised /\ \A q \in Requests : sent[q] \subseteq sent'[q]
  BY <1>0, <1>6 DEF Announce, Send, calls
<1>7. CASE UNCHANGED vars
  BY <1>7 DEF vars, calls
<1> QED BY <1>1, <1>2, <1>3, <1>4, <1>5, <1>6, <1>7 DEF Next

LEMMA ChainStep == TypeOK /\ ChainInv /\ [Next]_vars => ChainInv'
<1> SUFFICES ASSUME TypeOK, ChainInv, [Next]_vars PROVE ChainInv'
  OBVIOUS
<1>0. \A r \in Chains : raised[r] \subseteq raised'[r]
  BY Grows DEF Requests
<1>1. ASSUME NEW r \in Requests,
             HandlerStarts(r) \/ PublishOk(r) \/ PublishErr(r) \/ ServiceReplies(r)
      PROVE  UNCHANGED calls
  BY <1>1 DEF HandlerStarts, PublishOk, PublishErr, ServiceReplies
<1>2. ASSUME NEW r \in Requests, HandlerCalls(r) PROVE ChainInv'
  BY <1>2, CallStep DEF HandlerCalls, Requests
<1>3. ASSUME NEW r \in Requests, HandlerGoesOn(r) PROVE ChainInv'
  <2>1. Forget(r) /\ raised' \in [Chains -> SUBSET ClientCodes]
    BY <1>3, RaisesGrows DEF HandlerGoesOn, TypeOK, CallsTypeOK, Requests
  <2> QED BY <1>0, <2>1, ForgetStep DEF Requests
<1>4. ASSUME NEW r \in Requests, ServiceCrash(r) PROVE ChainInv'
  <2>1. Forget(r) /\ raised' \in [Chains -> SUBSET ClientCodes]
    BY <1>4 DEF ServiceCrash, TypeOK, CallsTypeOK
  <2> QED BY <1>0, <2>1, ForgetStep DEF Requests
<1>5. ASSUME NEW r \in Requests, NEW k \in Hops, CallGoesOn(r, k) PROVE ChainInv'
  BY <1>5, HopStep DEF CallGoesOn, Requests
<1>6. ASSUME NEW t \in Tasks, QueueAccepts(t) \/ WorkerTakes(t) \/ Announce(t) \/ WorkerDecides(t)
                              \/ WorkerSettles(t) \/ WorkerCrash(t) \/ QueueLoses(t)
      PROVE  UNCHANGED calls
  BY <1>6 DEF QueueAccepts, WorkerTakes, Announce, WorkerDecides, WorkerSettles, WorkerCrash, QueueLoses
<1>7. CASE UNCHANGED vars
  BY <1>7, CallsStutter DEF vars
<1> QED BY <1>1, <1>2, <1>3, <1>4, <1>5, <1>6, <1>7, CallsStutter DEF Next

LEMMA GoesOnTypes ==
  ASSUME TypeOK, NEW r \in Requests, HandlerGoesOn(r)
  PROVE  svc' \in [Requests -> ServiceStages] /\ handed' \subseteq Tasks
<1>0. svc \in [Requests -> ServiceStages] /\ handed \subseteq Tasks /\ Task(r) \in Tasks
  BY TaskFacts DEF TypeOK
<1>1. ASSUME NEW e \in AppErrors \cup {"queueing"}, GoesTo(r, e)
      PROVE  svc' \in [Requests -> ServiceStages]
  <2>1. e \in ServiceStages
    BY DEF ServiceStages
  <2> QED BY <1>0, <1>1, <2>1 DEF GoesTo
<1>2. CASE \E e \in CallError(r) : GoesTo(r, e) /\ Forget(r) /\ UNCHANGED <<raised, handed>>
  <2>1. PICK e \in CallError(r) : GoesTo(r, e) /\ handed' = handed
    BY <1>2
  <2>2. e \in AppErrors
    BY DEF CallError
  <2> QED BY <1>0, <1>1, <2>1, <2>2
<1>3. CASE GoesTo(r, "queueing") /\ handed' = handed \cup {Task(r)}
  BY <1>0, <1>1, <1>3
<1>4. CASE \E e \in Raised : GoesTo(r, e) /\ Raises(r, {e}) /\ UNCHANGED handed
  <2>1. PICK e \in Raised : GoesTo(r, e) /\ handed' = handed
    BY <1>4
  <2> QED BY <1>0, <1>1, <2>1, InternalCallsAssumption
<1> QED BY <1>2, <1>3, <1>4 DEF HandlerGoesOn

\* What a worker may find and decide about a task.
LEMMA TakesOrDecides ==
  ASSUME NEW t \in Tasks, WorkerTakes(t) \/ WorkerDecides(t)
  PROVE  /\ UNCHANGED <<calls, service, sent, crashes>>
         /\ \/ UNCHANGED queue /\ (WorksOn(t, "handling") \/ WorksOn(t, "idle"))
            \/ \E v \in Queue!Verdicts :
                 /\ v = "ack" => work[t] = "announced"
                 /\ WorksOn(t, v) /\ Queue!Decide(t, v)
<1>1. CASE WorkerTakes(t)
  <2>1. "drop" \in Queue!Verdicts /\ "drop" # "ack"
    BY DEF Queue!Verdicts
  <2> QED BY <1>1, <2>1 DEF WorkerTakes
<1>2. CASE WorkerDecides(t)
  BY <1>2 DEF WorkerDecides
<1> QED BY <1>1, <1>2

LEMMA TypeStep == TypeOK /\ ChainInv /\ AttemptsCounted /\ [Next]_vars => TypeOK' /\ AttemptsCounted'
<1> SUFFICES ASSUME TypeOK, ChainInv, AttemptsCounted, [Next]_vars
             PROVE  TypeOK' /\ AttemptsCounted'
  OBVIOUS
<1>0. CallsTypeOK'
  BY ChainStep DEF ChainInv
<1> USE <1>0 DEF TypeOK, AttemptsCounted, GoesTo, Send, Dies, WorksOn, ServiceStages, WorkStages,
        Replies, Queue!AbstractTypeOK, Queue!Statuses, Queue!Verdicts
<1>1. ASSUME NEW r \in Requests, HandlerStarts(r) PROVE TypeOK' /\ AttemptsCounted'
  BY <1>1 DEF HandlerStarts, queue
<1>2. ASSUME NEW r \in Requests, HandlerCalls(r) PROVE TypeOK' /\ AttemptsCounted'
  BY <1>2 DEF HandlerCalls, queue, service
<1>3. ASSUME NEW r \in Requests, HandlerGoesOn(r) PROVE TypeOK' /\ AttemptsCounted'
  <2>1. svc' \in [Requests -> ServiceStages] /\ handed' \subseteq Tasks
    BY <1>3, GoesOnTypes
  <2>3. UNCHANGED <<status, promised, verdicts, attempt, work, sent, crashes>>
    BY <1>3 DEF HandlerGoesOn, queue
  <2> QED BY <2>1, <2>3
<1>4. ASSUME NEW r \in Requests, PublishOk(r) PROVE TypeOK' /\ AttemptsCounted'
  BY <1>4, TaskFacts DEF PublishOk, Queue!Promise
<1>5. ASSUME NEW r \in Requests, PublishErr(r) PROVE TypeOK' /\ AttemptsCounted'
  BY <1>5 DEF PublishErr, queue, AppErrors
<1>6. ASSUME NEW r \in Requests, ServiceReplies(r) PROVE TypeOK' /\ AttemptsCounted'
  <2>1. svc[r] \in AppErrors => ServiceError(svc[r]) \in Codes
    BY StatusFacts
  <2> QED BY <1>6, <2>1 DEF ServiceReplies, Replying, queue
<1>7. ASSUME NEW r \in Requests, ServiceCrash(r) PROVE TypeOK' /\ AttemptsCounted'
  BY <1>7 DEF ServiceCrash, queue
<1>8. ASSUME NEW r \in Requests, NEW k \in Hops, CallGoesOn(r, k) PROVE TypeOK' /\ AttemptsCounted'
  BY <1>8 DEF CallGoesOn, queue, service
<1>9. ASSUME NEW t \in Tasks, QueueAccepts(t) \/ QueueLoses(t) PROVE TypeOK' /\ AttemptsCounted'
  BY <1>9 DEF QueueAccepts, QueueLoses, Queue!Accept, Queue!Lose, service
<1>10. ASSUME NEW t \in Tasks, Announce(t) PROVE TypeOK' /\ AttemptsCounted'
  BY <1>10, TaskFacts DEF Announce, queue, service
<1>11. ASSUME NEW t \in Tasks, WorkerTakes(t) \/ WorkerDecides(t) \/ WorkerSettles(t)
       PROVE  TypeOK' /\ AttemptsCounted'
  <2>1. UNCHANGED <<attempt, svc, handed, sent, crashes, promised>>
    BY <1>11, TakesOrDecides DEF WorkerSettles, Queue!Decide, Queue!Settle, queue, service
  <2>2. work' \in [Tasks -> WorkStages]
    BY <1>11, TakesOrDecides DEF WorkerSettles
  <2>3. verdicts' \in [Tasks -> SUBSET Queue!Verdicts] /\ status' \in [Tasks -> Queue!Statuses]
    BY <1>11, TakesOrDecides DEF WorkerSettles, Queue!Decide, Queue!Settle, queue
  <2> QED BY <2>1, <2>2, <2>3
<1>12. ASSUME NEW t \in Tasks, WorkerCrash(t) PROVE TypeOK' /\ AttemptsCounted'
  BY <1>12 DEF WorkerCrash, queue, service
<1>13. CASE UNCHANGED vars
  BY <1>13 DEF vars, queue, service
<1> QED BY <1>1, <1>2, <1>3, <1>4, <1>5, <1>6, <1>7, <1>8, <1>9, <1>10, <1>11, <1>12, <1>13 DEF Next

\* A code a handler ends with came from its call, or it came to it itself.
LEMMA OriginStep ==
  IInv /\ [Next]_vars => ErrorHasOrigin' /\ RepliedCodeHasOrigin'
<1> SUFFICES ASSUME IInv, [Next]_vars PROVE ErrorHasOrigin' /\ RepliedCodeHasOrigin'
  OBVIOUS
<1>0. /\ \A r \in Requests : raised[r] \subseteq raised'[r]
      /\ svc \in [Requests -> ServiceStages] /\ sent \in [Requests -> SUBSET Replies]
      /\ raised \in [Chains -> SUBSET ClientCodes]
  BY Grows DEF IInv, TypeOK, CallsTypeOK
<1>a. ASSUME \A r \in Requests : svc'[r] \in ClientCodes =>
                svc'[r] = svc[r] \/ svc'[r] \in raised'[r]
      PROVE  ErrorHasOrigin'
  BY <1>0, <1>a DEF IInv, ErrorHasOrigin
<1>b. ASSUME UNCHANGED sent PROVE RepliedCodeHasOrigin'
  BY <1>0, <1>b DEF IInv, RepliedCodeHasOrigin
<1>c. \A x \in {"new", "handling", "queueing", "accepted", "done", "internal"} : x \notin ClientCodes
  BY DEF ClientCodes, Codes
<1>1. ASSUME NEW r \in Requests, HandlerStarts(r) \/ PublishOk(r) \/ PublishErr(r) \/ ServiceCrash(r)
      PROVE  ErrorHasOrigin' /\ RepliedCodeHasOrigin'
  <2>1. sent' = sent /\ \A q \in Requests : svc'[q] = svc[q] \/ svc'[q] \notin ClientCodes
    BY <1>0, <1>1, <1>c DEF HandlerStarts, PublishOk, PublishErr, ServiceCrash, GoesTo
  <2> QED BY <1>a, <1>b, <2>1
<1>2. ASSUME NEW r \in Requests, HandlerGoesOn(r) PROVE ErrorHasOrigin' /\ RepliedCodeHasOrigin'
  <2>1. CASE \E e \in CallError(r) : GoesTo(r, e) /\ UNCHANGED raised
    <3>1. PICK e \in CallError(r) : GoesTo(r, e) /\ UNCHANGED raised
      BY <2>1
    <3>2. e \in ClientCodes => e \in raised[r]
      BY <3>1 DEF CallError, IInv, ChainInv, CodeHasOrigin, Requests
    <3> QED BY <1>0, <1>2, <1>a, <1>b, <3>1, <3>2 DEF GoesTo, HandlerGoesOn
  <2>2. CASE GoesTo(r, "queueing")
    BY <1>0, <1>2, <1>a, <1>b, <1>c, <2>2 DEF GoesTo, HandlerGoesOn
  <2>3. CASE \E e \in Raised : GoesTo(r, e) /\ Raises(r, {e})
    <3>1. PICK e \in Raised : GoesTo(r, e) /\ Raises(r, {e})
      BY <2>3
    <3>2. e \in ClientCodes => e \in raised'[r]
      BY <1>0, <3>1, RaisesGrows DEF Requests
    <3> QED BY <1>0, <1>2, <1>a, <1>b, <3>1, <3>2 DEF GoesTo, HandlerGoesOn
  <2> QED BY <1>2, <2>1, <2>2, <2>3 DEF HandlerGoesOn
<1>3. ASSUME NEW r \in Requests, ServiceReplies(r) PROVE ErrorHasOrigin' /\ RepliedCodeHasOrigin'
  <2>1. \A q \in Requests : svc'[q] = svc[q] \/ svc'[q] \notin ClientCodes
    BY <1>0, <1>3, <1>c DEF ServiceReplies, GoesTo
  <2>2. svc[r] \in AppErrors /\ ServiceError(svc[r]) \in ClientCodes =>
          ServiceError(svc[r]) \in raised[r]
    BY DEF ServiceError, IInv, ErrorHasOrigin, ClientCodes
  <2>3. "provisional" \notin ClientCodes
    BY DEF ClientCodes, Codes
  <2>4. svc[r] = "accepted" \/ svc[r] \in AppErrors
    BY <1>3 DEF ServiceReplies, Replying
  <2>5. \A q \in Requests : sent'[q] \cap ClientCodes \subseteq raised[q]
    BY <1>0, <1>3, <2>2, <2>3, <2>4 DEF ServiceReplies, Send, IInv, RepliedCodeHasOrigin
  <2> QED BY <1>0, <1>a, <2>1, <2>5 DEF RepliedCodeHasOrigin
<1>4. ASSUME NEW r \in Requests, HandlerCalls(r) \/ \E k \in Hops : CallGoesOn(r, k)
      PROVE  ErrorHasOrigin' /\ RepliedCodeHasOrigin'
  BY <1>4, <1>a, <1>b DEF HandlerCalls, CallGoesOn, service
<1>5. ASSUME NEW t \in Tasks, QueueAccepts(t) \/ WorkerTakes(t) \/ WorkerDecides(t)
                              \/ WorkerSettles(t) \/ WorkerCrash(t) \/ QueueLoses(t)
      PROVE  ErrorHasOrigin' /\ RepliedCodeHasOrigin'
  BY <1>5, <1>a, <1>b DEF QueueAccepts, WorkerTakes, WorkerDecides, WorkerSettles, WorkerCrash,
                          QueueLoses, service
<1>6. ASSUME NEW t \in Tasks, Announce(t) PROVE ErrorHasOrigin' /\ RepliedCodeHasOrigin'
  <2>1. svc' = svc
    BY <1>6 DEF Announce, service
  <2>2. "final" \notin ClientCodes /\ t[1] \in Requests
    BY TaskFacts DEF ClientCodes, Codes, IInv
  <2>3. \A q \in Requests : sent'[q] \cap ClientCodes \subseteq raised[q]
    BY <1>0, <1>6, <2>2 DEF Announce, Send, IInv, RepliedCodeHasOrigin
  <2> QED BY <1>0, <1>a, <2>1, <2>3 DEF RepliedCodeHasOrigin
<1>7. CASE UNCHANGED vars
  BY <1>7, <1>a, <1>b DEF vars, service
<1> QED BY <1>1, <1>2, <1>3, <1>4, <1>5, <1>6, <1>7 DEF Next

\* A task is decided on only by a worker whose announcement succeeded.
LEMMA AnnouncedStep ==
  IInv /\ [Next]_vars => AnnouncedFirst' /\ DoneOnlyIfAnnounced'
<1> SUFFICES ASSUME IInv, [Next]_vars PROVE AnnouncedFirst' /\ DoneOnlyIfAnnounced'
  OBVIOUS
<1>0. /\ \A t \in Tasks : "final" \in sent[t[1]] => "final" \in sent'[t[1]]
      /\ work \in [Tasks -> WorkStages] /\ sent \in [Requests -> SUBSET Replies]
      /\ status \in [Tasks -> Queue!Statuses]
      /\ verdicts \in [Tasks -> SUBSET Queue!Verdicts]
  BY Grows, TaskFacts DEF IInv, TypeOK, Queue!AbstractTypeOK
<1>a. ASSUME \A t \in Tasks :
               \/ "final" \in sent'[t[1]]
               \/ /\ work'[t] \in {"announced", "ack"} => work'[t] = work[t]
                  /\ "ack" \in verdicts'[t] => "ack" \in verdicts[t]
                  /\ status'[t] = "ack" => status[t] = "ack"
      PROVE  AnnouncedFirst' /\ DoneOnlyIfAnnounced'
  BY <1>0, <1>a DEF IInv, AnnouncedFirst, DoneOnlyIfAnnounced
<1>1. ASSUME NEW r \in Requests,
             \/ HandlerStarts(r) \/ HandlerCalls(r) \/ HandlerGoesOn(r) \/ PublishErr(r)
             \/ ServiceReplies(r) \/ ServiceCrash(r) \/ \E k \in Hops : CallGoesOn(r, k)
      PROVE  AnnouncedFirst' /\ DoneOnlyIfAnnounced'
  BY <1>1, <1>a DEF HandlerStarts, HandlerCalls, HandlerGoesOn, PublishErr, ServiceReplies,
                    ServiceCrash, CallGoesOn, queue
<1>2. ASSUME NEW r \in Requests, PublishOk(r) PROVE AnnouncedFirst' /\ DoneOnlyIfAnnounced'
  BY <1>2, <1>a DEF PublishOk, Queue!Promise
<1>3. ASSUME NEW t \in Tasks, QueueAccepts(t) \/ QueueLoses(t)
      PROVE  AnnouncedFirst' /\ DoneOnlyIfAnnounced'
  BY <1>0, <1>3, <1>a DEF QueueAccepts, QueueLoses, Queue!Accept, Queue!Lose
<1>4. ASSUME NEW t \in Tasks, WorkerCrash(t)
      PROVE  AnnouncedFirst' /\ DoneOnlyIfAnnounced'
  BY <1>0, <1>4, <1>a DEF WorkerCrash, WorksOn, queue
<1>5. ASSUME NEW t \in Tasks, Announce(t) PROVE AnnouncedFirst' /\ DoneOnlyIfAnnounced'
  <2>1. t[1] \in Requests
    BY TaskFacts DEF IInv
  <2>2. /\ work'[t] = "announced" => "final" \in sent'[t[1]]
        /\ work'[t] # "ack"
        /\ \A u \in Tasks \ {t} : work'[u] = work[u]
        /\ UNCHANGED <<status, verdicts>>
    BY <1>0, <1>5, <2>1 DEF Announce, WorksOn, Send, queue
  <2> QED BY <1>a, <2>2
<1>6. ASSUME NEW t \in Tasks, WorkerTakes(t) \/ WorkerDecides(t)
      PROVE  AnnouncedFirst' /\ DoneOnlyIfAnnounced'
  <2>1. CASE UNCHANGED queue /\ (WorksOn(t, "handling") \/ WorksOn(t, "idle"))
    BY <1>0, <1>a, <2>1 DEF WorksOn, queue
  <2>2. ASSUME NEW v \in Queue!Verdicts, v = "ack" => work[t] = "announced",
               WorksOn(t, v), Queue!Decide(t, v)
        PROVE  AnnouncedFirst' /\ DoneOnlyIfAnnounced'
    <3>1. /\ status' = status
          /\ \A u \in Tasks \ {t} : work'[u] = work[u] /\ verdicts'[u] = verdicts[u]
          /\ work'[t] = v /\ verdicts'[t] = verdicts[t] \cup {v}
      BY <1>0, <2>2 DEF WorksOn, Queue!Decide
    <3>2. v = "ack" => "final" \in sent'[t[1]]
      BY <1>0, <2>2 DEF IInv, AnnouncedFirst
    <3>3. v # "ack" => v = "drop"
      BY DEF Queue!Verdicts
    <3> QED BY <1>a, <3>1, <3>2, <3>3
  <2> QED BY <1>6, TakesOrDecides, <2>1, <2>2
<1>7. ASSUME NEW t \in Tasks, WorkerSettles(t) PROVE AnnouncedFirst' /\ DoneOnlyIfAnnounced'
  <2>1. work[t] = "ack" => "final" \in sent'[t[1]]
    BY <1>0 DEF IInv, AnnouncedFirst
  <2>2. verdicts' = verdicts /\ (status'[t] = status[t] \/ status'[t] = work[t])
    BY <1>0, <1>7 DEF WorkerSettles, Queue!Settle, queue
  <2>3. work'[t] = "idle" /\ \A u \in Tasks \ {t} : work'[u] = work[u] /\ status'[u] = status[u]
    BY <1>0, <1>7 DEF WorkerSettles, WorksOn, Queue!Settle, queue
  <2> QED BY <1>a, <2>1, <2>2, <2>3
<1>8. CASE UNCHANGED vars
  BY <1>8, <1>a DEF vars, queue
<1> QED BY <1>1, <1>2, <1>3, <1>4, <1>5, <1>6, <1>7, <1>8 DEF Next

-----------------------------------------------------------------------------
(* The theorems.                                                           *)

LEMMA InvInit == Init => IInv
<1> SUFFICES ASSUME Init PROVE IInv
  OBVIOUS
<1>1. ChainInv
  BY ChainInit DEF Init
<1>2. TypeOK
  BY <1>1 DEF Init, TypeOK, ChainInv, Queue!AbstractInit, Queue!AbstractTypeOK, Queue!Statuses,
              ServiceStages, WorkStages
<1>3. AttemptsCounted
  BY DEF Init, AttemptsCounted
<1>4. ErrorHasOrigin /\ RepliedCodeHasOrigin
  BY DEF Init, ErrorHasOrigin, RepliedCodeHasOrigin, ClientCodes, Codes
<1>5. AnnouncedFirst /\ DoneOnlyIfAnnounced
  BY DEF Init, AnnouncedFirst, DoneOnlyIfAnnounced, Queue!AbstractInit
<1> QED BY <1>1, <1>2, <1>3, <1>4, <1>5 DEF IInv

LEMMA InvStep == IInv /\ [Next]_vars => IInv'
<1> SUFFICES ASSUME IInv, [Next]_vars PROVE IInv'
  OBVIOUS
<1>1. ChainInv' /\ TypeOK' /\ AttemptsCounted'
  BY ChainStep, TypeStep DEF IInv
<1> QED BY <1>1, OriginStep, AnnouncedStep DEF IInv

THEOREM Invariance == Spec => []IInv
BY InvInit, InvStep, PTL DEF Spec

\* The model's variables keep their types, whatever crashes.
THEOREM TypeCorrect == Spec => []TypeOK
<1>1. IInv => TypeOK
  BY DEF IInv
<1> QED BY <1>1, Invariance, PTL

\* A caller holds a payload only if no service it asked, at any depth, failed.
THEOREM PayloadsAreReal == Spec => []NoFailureAsPayload
<1>1. IInv => NoFailureAsPayload
  BY NoFailureFollows DEF IInv
<1> QED BY <1>1, Invariance, PTL

\* Between services, no internal failure turns into a code that blames the client.
THEOREM CodesBetweenServices == Spec => []CodeHasOrigin
<1>1. IInv => CodeHasOrigin
  BY DEF IInv, ChainInv
<1> QED BY <1>1, Invariance, PTL

\* Nor does one on the bus, in the reply of any attempt.
THEOREM CodesOnTheBus == Spec => []RepliedCodeHasOrigin
<1>1. IInv => RepliedCodeHasOrigin
  BY DEF IInv
<1> QED BY <1>1, Invariance, PTL

\* A task is done only after its final reply was published.
THEOREM FinalBeforeDone == Spec => []DoneOnlyIfAnnounced
<1>1. IInv => DoneOnlyIfAnnounced
  BY DEF IInv
<1> QED BY <1>1, Invariance, PTL

-----------------------------------------------------------------------------
(* Behind every provisional reply stands a task.                           *)

\* What publish returned Ok for stays in the queue until it is settled.
PromisedStays == \A t \in promised : status[t] \in {"queued", "ack", "drop"}

\* A handler returns "accepted", and a provisional reply goes out, only for a
\* task that was promised in that attempt or an earlier one.
ProvisionalPromised ==
  /\ \A r \in Requests : svc[r] = "accepted" => Task(r) \in promised
  /\ \A r \in Requests : "provisional" \in sent[r] => \E t \in promised : t[1] = r

\* A task is given up only where a worker decided so.
DroppedByWorker == \A t \in Tasks : status[t] = "drop" => "drop" \in verdicts[t]

BackedInv == PromisedStays /\ ProvisionalPromised /\ DroppedByWorker

\* Whatever crashed, a request with a provisional reply has its final one, or
\* a task in the queue that may bring it (iggy.rs:276), or a worker decided to
\* give that task up: no task vanishes behind a promise.
PromiseBacked ==
  \A r \in Requests :
    "provisional" \in sent[r] =>
      \/ "final" \in sent[r]
      \/ \E t \in promised :
           /\ t[1] = r
           /\ status[t] = "queued" \/ (status[t] = "drop" /\ "drop" \in verdicts[t])

\* Steps of the queue and the workers: nothing promised is lost.
LEMMA QueueKeeps ==
  ASSUME IInv, PromisedStays, DroppedByWorker, [Next]_vars
  PROVE  PromisedStays' /\ DroppedByWorker' /\ promised \subseteq promised'
<1>0. /\ status \in [Tasks -> Queue!Statuses] /\ promised \subseteq Tasks
      /\ verdicts \in [Tasks -> SUBSET Queue!Verdicts]
      /\ \A r \in Requests : Task(r) \in Tasks
  BY TaskFacts DEF IInv, TypeOK, Queue!AbstractTypeOK
<1> USE DEF PromisedStays, DroppedByWorker
<1>1. CASE UNCHANGED queue
  BY <1>1 DEF queue
<1>2. ASSUME NEW r \in Requests, PublishOk(r)
      PROVE  PromisedStays' /\ DroppedByWorker' /\ promised \subseteq promised'
  <2>1. status[Task(r)] \in {"queued", "ack", "drop"}
    BY <1>0, <1>2 DEF PublishOk, Queue!Promise, Queue!Statuses
  <2> QED BY <1>0, <1>2, <2>1 DEF PublishOk, Queue!Promise
<1>3. ASSUME NEW t \in Tasks, QueueAccepts(t) \/ QueueLoses(t)
      PROVE  PromisedStays' /\ DroppedByWorker' /\ promised \subseteq promised'
  BY <1>0, <1>3 DEF QueueAccepts, QueueLoses, Queue!Accept, Queue!Lose
<1>4. ASSUME NEW t \in Tasks, WorkerTakes(t) \/ WorkerDecides(t)
      PROVE  PromisedStays' /\ DroppedByWorker' /\ promised \subseteq promised'
  BY <1>0, <1>1, <1>4, TakesOrDecides DEF Queue!Decide
<1>8. ASSUME NEW t \in Tasks, WorkerSettles(t)
      PROVE  PromisedStays' /\ DroppedByWorker' /\ promised \subseteq promised'
  BY <1>0, <1>1, <1>8 DEF WorkerSettles, Queue!Settle, Queue!Verdicts
<1>5. ASSUME NEW r \in Requests,
             \/ HandlerStarts(r) \/ HandlerCalls(r) \/ HandlerGoesOn(r) \/ PublishErr(r)
             \/ ServiceReplies(r) \/ ServiceCrash(r) \/ \E k \in Hops : CallGoesOn(r, k)
      PROVE  UNCHANGED queue
  BY <1>5 DEF HandlerStarts, HandlerCalls, HandlerGoesOn, PublishErr, ServiceReplies,
              ServiceCrash, CallGoesOn, queue
<1>6. ASSUME NEW t \in Tasks, Announce(t) \/ WorkerCrash(t)
      PROVE  UNCHANGED queue
  BY <1>6 DEF Announce, WorkerCrash
<1>7. CASE UNCHANGED vars
  BY <1>7 DEF vars, queue
<1> QED BY <1>1, <1>2, <1>3, <1>4, <1>5, <1>6, <1>7, <1>8 DEF Next

\* A promise is made in the step that accepts, and kept through new attempts.
LEMMA ProvisionalStep ==
  ASSUME IInv, ProvisionalPromised, promised \subseteq promised', [Next]_vars
  PROVE  ProvisionalPromised'
<1>0. /\ svc \in [Requests -> ServiceStages] /\ sent \in [Requests -> SUBSET Replies]
      /\ attempt \in [Requests -> 0..MaxCrashes]
      /\ \A r \in Requests : Task(r)[1] = r
      /\ \A t \in Tasks : t[1] \in Requests
  BY TaskFacts DEF IInv, TypeOK, Task
<1>a. ASSUME \A r \in Requests :
               svc'[r] = "accepted" =>
                 \/ Task(r)' \in promised'
                 \/ svc[r] = "accepted" /\ attempt'[r] = attempt[r],
             \A r \in Requests :
               "provisional" \in sent'[r] => "provisional" \in sent[r] \/ svc[r] = "accepted"
      PROVE  ProvisionalPromised'
  <2>1. \A r \in Requests : svc'[r] = "accepted" => Task(r)' \in promised'
    BY <1>a DEF ProvisionalPromised, Task
  <2>2. \A r \in Requests : "provisional" \in sent'[r] => \E t \in promised : t[1] = r
    BY <1>0, <1>a DEF ProvisionalPromised
  <2> QED BY <2>1, <2>2 DEF ProvisionalPromised
<1>1. ASSUME NEW r \in Requests,
             \/ HandlerStarts(r) \/ HandlerCalls(r) \/ PublishErr(r)
             \/ ServiceCrash(r) \/ \E k \in Hops : CallGoesOn(r, k)
      PROVE  ProvisionalPromised'
  BY <1>0, <1>1, <1>a DEF HandlerStarts, HandlerCalls, PublishErr, ServiceCrash, CallGoesOn,
                          service, GoesTo
<1>2. ASSUME NEW r \in Requests, HandlerGoesOn(r) PROVE ProvisionalPromised'
  <2>1. PICK s \in ServiceStages \ {"accepted"} : GoesTo(r, s)
    <3>1. "accepted" \notin AppErrors
      BY DEF AppErrors, ClientCodes, Codes
    <3>2. CallError(r) \cup Raised \subseteq AppErrors
      BY InternalCallsAssumption DEF CallError
    <3>3. \E t \in {"queueing"} \cup CallError(r) \cup Raised : GoesTo(r, t)
      BY <1>2 DEF HandlerGoesOn
    <3>4. {"queueing"} \cup AppErrors \subseteq ServiceStages
      BY DEF ServiceStages
    <3> QED BY <3>1, <3>2, <3>3, <3>4
  <2> QED BY <1>0, <1>2, <2>1, <1>a DEF HandlerGoesOn, GoesTo
<1>3. ASSUME NEW r \in Requests, PublishOk(r) PROVE ProvisionalPromised'
  <2>1. Task(r)' = Task(r) /\ Task(r) \in promised'
    BY <1>3 DEF PublishOk, Queue!Promise, Task
  <2> QED BY <1>0, <1>3, <2>1, <1>a DEF PublishOk, GoesTo
<1>4. ASSUME NEW r \in Requests, ServiceReplies(r) PROVE ProvisionalPromised'
  <2>1. svc[r] # "accepted" => ServiceError(svc[r]) # "provisional"
    BY <1>4 DEF ServiceReplies, Replying, ServiceError, AppErrors, Codes
  <2> QED BY <1>0, <1>4, <2>1, <1>a DEF ServiceReplies, Send, GoesTo
<1>5. ASSUME NEW t \in Tasks, QueueAccepts(t) \/ WorkerTakes(t) \/ Announce(t) \/ WorkerDecides(t)
                              \/ WorkerSettles(t) \/ WorkerCrash(t) \/ QueueLoses(t)
      PROVE  ProvisionalPromised'
  BY <1>0, <1>5, <1>a DEF QueueAccepts, WorkerTakes, Announce, WorkerDecides, WorkerSettles,
                          WorkerCrash, QueueLoses, service, Send
<1>6. CASE UNCHANGED vars
  BY <1>6, <1>a DEF vars, service
<1> QED BY <1>1, <1>2, <1>3, <1>4, <1>5, <1>6 DEF Next

\* A promise of a final reply is never empty: what may bring it about is there
\* until it has come, or until a worker decided that it shall not.
THEOREM PromiseNeverEmpty == Spec => []PromiseBacked
<1>1. Init => BackedInv
  BY DEF Init, BackedInv, PromisedStays, ProvisionalPromised, DroppedByWorker, Queue!AbstractInit
<1>2. IInv /\ BackedInv /\ [Next]_vars => BackedInv'
  BY QueueKeeps, ProvisionalStep DEF BackedInv
<1>3. IInv /\ BackedInv => PromiseBacked
  <2> SUFFICES ASSUME IInv, BackedInv, NEW r \in Requests, "provisional" \in sent[r]
               PROVE  \/ "final" \in sent[r]
                      \/ \E t \in promised :
                           /\ t[1] = r
                           /\ status[t] = "queued" \/ (status[t] = "drop" /\ "drop" \in verdicts[t])
    BY DEF PromiseBacked
  <2>1. PICK t \in promised : t[1] = r
    BY DEF BackedInv, ProvisionalPromised
  <2>2. t \in Tasks
    BY <2>1 DEF IInv, TypeOK, Queue!AbstractTypeOK
  <2>3. status[t] \in {"queued", "ack", "drop"}
    BY <2>1 DEF BackedInv, PromisedStays
  <2>4. status[t] = "drop" => "drop" \in verdicts[t]
    BY <2>2 DEF BackedInv, DroppedByWorker
  <2> QED BY <2>1, <2>2, <2>3, <2>4 DEF IInv, DoneOnlyIfAnnounced
<1> QED BY <1>1, <1>2, <1>3, Invariance, PTL DEF Spec

=============================================================================
