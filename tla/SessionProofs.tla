--------------------------- MODULE SessionProofs ----------------------------
(***************************************************************************)
(* Proofs about Session for any retry policies, any number of requests and *)
(* any faults: type correctness with the number of attempts; that a token  *)
(* which Register has returned is replaced by no request of its own, and by*)
(* none at all if clients wait for their requests; and that the retry      *)
(* schedule is the one that is documented, after any number of attempts.   *)
(***************************************************************************)
EXTENDS Session, FunctionTheorems, FiniteSetTheorems, NaturalsInduction,
        WellFoundedInduction, TLAPS

-----------------------------------------------------------------------------
(***************************************************************************)
(* Types and attempts.  A call waits only while its policy has an attempt  *)
(* left for it.                                                            *)
(***************************************************************************)

Attempts == Normalized(policy).attempts

CallWithin(call) ==
  /\ call \in Call
  /\ call.attempt <= Attempts
  /\ call.pc = "waiting" => call.attempt < Attempts

SessionTypeInv == SessionTypeOK /\ CallWithin(reg) /\ CallWithin(request)

\* normalized leaves at least one attempt.
LEMMA SomeAttempt ==
  ASSUME policy \in Policies
  PROVE  Attempts \in Nat /\ Attempts >= 1
<1>1. policy \in Policy
  BY PoliciesAssumption
<1>. QED  BY <1>1 DEF Attempts, Normalized, Policy

\* The next request of a call.
LEMMA SentCall ==
  ASSUME NEW call \in Call
  PROVE  /\ Sent(call) \in Call
         /\ Sent(call).attempt = call.attempt + 1
         /\ Sent(call).pc = "sending"
<1>1. call.attempt \in Nat
  BY DEF Call
<1> DEFINE n == call.attempt + 1
<1>2. n \in Nat
  BY <1>1
<1> HIDE DEF n
<1>3. /\ [call EXCEPT !.pc = "sending", !.attempt = n] \in Call
      /\ [call EXCEPT !.pc = "sending", !.attempt = n].attempt = n
      /\ [call EXCEPT !.pc = "sending", !.attempt = n].pc = "sending"
  BY <1>2 DEF Call
<1>. QED  BY <1>3 DEF Sent, n

\* What doJSON makes of a call.
LEMMA CallSteps ==
  ASSUME policy \in Policies
  PROVE  /\ CallWithin(NoCall)
         /\ \A call : CallWithin(call) => CallWithin(Retried(call))
         /\ \A call : CallWithin(call) /\ call.pc = "waiting" => CallWithin(Sent(call))
         /\ \A token \in Token : CallWithin(Sent([NoCall EXCEPT !.token = token]))
         /\ \A k \in Slot : CallWithin([Sent(NoCall) EXCEPT !.slot = k])
<1>1. Attempts \in Nat /\ Attempts >= 1
  BY SomeAttempt
<1>2. 1 \in Slot
  BY SlotsAssumption DEF Slot
<1>3. NoCall \in Call /\ NoCall.attempt = 0 /\ NoCall.pc = "idle"
  BY <1>2 DEF NoCall, Call, Token
<1>4. CallWithin(NoCall)
  BY <1>1, <1>3 DEF CallWithin
<1>5. ASSUME NEW call, CallWithin(call)
      PROVE  CallWithin(Retried(call))
  <2>1. CASE call.attempt < Attempts
    <3> DEFINE next == [call EXCEPT !.pc = "waiting"]
    <3>1. next \in Call /\ next.attempt = call.attempt
      BY <1>5 DEF CallWithin, Call
    <3>2. Retried(call) = next
      BY <2>1 DEF Retried, Attempts
    <3>. QED  BY <1>5, <2>1, <3>1, <3>2 DEF CallWithin
  <2>2. CASE ~(call.attempt < Attempts)
    BY <1>4, <2>2 DEF Retried, Attempts
  <2>. QED  BY <2>1, <2>2
<1>6. ASSUME NEW call, CallWithin(call), call.pc = "waiting"
      PROVE  CallWithin(Sent(call))
  <2>1. call \in Call /\ call.attempt \in Nat /\ call.attempt < Attempts
    BY <1>6 DEF CallWithin, Call
  <2>2. Sent(call) \in Call /\ Sent(call).attempt = call.attempt + 1 /\ Sent(call).pc = "sending"
    BY <2>1, SentCall
  <2>. QED  BY <1>1, <2>1, <2>2 DEF CallWithin
<1>7. ASSUME NEW token \in Token
      PROVE  CallWithin(Sent([NoCall EXCEPT !.token = token]))
  <2> DEFINE first == [NoCall EXCEPT !.token = token]
  <2>1. first \in Call /\ first.attempt = 0
    BY <1>3 DEF Call
  <2> HIDE DEF first
  <2>2. Sent(first) \in Call /\ Sent(first).attempt = 0 + 1 /\ Sent(first).pc = "sending"
    BY <2>1, SentCall
  <2>3. CallWithin(Sent(first))
    BY <1>1, <2>2 DEF CallWithin
  <2>. QED  BY <2>3 DEF first
<1>8. ASSUME NEW k \in Slot
      PROVE  CallWithin([Sent(NoCall) EXCEPT !.slot = k])
  <2> DEFINE first == Sent(NoCall)
  <2>1. first \in Call /\ first.attempt = 0 + 1 /\ first.pc = "sending"
    BY <1>3, SentCall
  <2> HIDE DEF first
  <2>2. /\ [first EXCEPT !.slot = k] \in Call
        /\ [first EXCEPT !.slot = k].attempt = 1
        /\ [first EXCEPT !.slot = k].pc = "sending"
    BY <2>1 DEF Call
  <2>3. CallWithin([first EXCEPT !.slot = k])
    BY <1>1, <2>2 DEF CallWithin
  <2>. QED  BY <2>3 DEF first
<1>. QED  BY <1>4, <1>5, <1>6, <1>7, <1>8

LEMMA SessionInit == Init => SessionTypeInv
<1> SUFFICES ASSUME Init PROVE SessionTypeInv
  OBVIOUS
<1>1. CallWithin(reg) /\ CallWithin(request)
  BY CallSteps DEF Init
<1>2. FreeHandler \in Handler
  BY DEF FreeHandler, Handler, Token
<1>3. faults \in 0 .. MaxFaults /\ rotations \in 0 .. MaxRotations
  BY RotationsAssumption, FaultsAssumption DEF Init
<1>4. /\ row \in Token /\ issued \in Token /\ held \in Token
      /\ handler \in [Slot -> Handler] /\ policy \in Policies
      /\ refused \in BOOLEAN /\ confirmed \in BOOLEAN /\ overtaken \in BOOLEAN
  BY <1>2 DEF Init, Token
<1>5. \A call \in {reg, request} : call \in Call /\ call.attempt <= Normalized(policy).attempts
  BY <1>1 DEF CallWithin, Attempts
<1>. QED  BY <1>1, <1>3, <1>4, <1>5 DEF SessionTypeInv, SessionTypeOK

\* The handlers of a step keep their type.
LEMMA HandlersTyped ==
  ASSUME SessionTypeOK, [Next]_vars
  PROVE  handler' \in [Slot -> Handler] /\ row' \in Token /\ issued' \in Token
<1>1. /\ handler \in [Slot -> Handler] /\ row \in Nat /\ issued \in Nat
      /\ FreeHandler \in Handler
  BY DEF SessionTypeOK, FreeHandler, Handler, Token
<1>2. CASE UNCHANGED serverVars
  BY <1>1, <1>2 DEF serverVars, Token
<1>3. ASSUME NEW x \in Handler, NEW k, handler' = [handler EXCEPT ![k] = x],
             UNCHANGED <<row, issued>>
      PROVE  handler' \in [Slot -> Handler] /\ row' \in Token /\ issued' \in Token
  BY <1>1, <1>3 DEF Token
<1>4. ASSUME NEW call, RegisterSends(call), UNCHANGED <<row, issued>>
      PROVE  handler' \in [Slot -> Handler] /\ row' \in Token /\ issued' \in Token
  <2>1. [FreeHandler EXCEPT !.pc = "create"] \in Handler
    BY DEF FreeHandler, Handler, Token
  <2>. QED  BY <1>3, <1>4, <2>1 DEF RegisterSends
<1>5. CASE RegisterBegin \/ RegisterRetries
  BY <1>4, <1>5 DEF RegisterBegin, RegisterRetries
<1>6. CASE RegisterAnswered \/ RegisterFailed \/ RegisterLost
  BY <1>1, <1>3, <1>6 DEF RegisterAnswered, RegisterFailed, RegisterLost
<1>7. ASSUME NEW k \in Slot, CreateDevice(k)
      PROVE  handler' \in [Slot -> Handler] /\ row' \in Token /\ issued' \in Token
  <2>1. issued' = issued + 1 /\ row' = issued'
    BY <1>7 DEF CreateDevice, Upserted
  <2>2. issued' \in Nat
    BY <1>1, <2>1
  <2>3. [pc |-> "answer", token |-> issued'] \in Handler
    BY <2>2 DEF Handler, Token
  <2>. QED  BY <1>1, <1>7, <2>1, <2>2, <2>3 DEF CreateDevice, Token
<1>8. ASSUME NEW k \in Slot, CreateFails(k)
      PROVE  handler' \in [Slot -> Handler] /\ row' \in Token /\ issued' \in Token
  BY <1>1, <1>8 DEF CreateFails, Handler, Token
<1>9. ASSUME NEW k \in Slot, HandlerEnds(k)
      PROVE  handler' \in [Slot -> Handler] /\ row' \in Token /\ issued' \in Token
  BY <1>1, <1>3, <1>9 DEF HandlerEnds
<1>10. CASE RegisterSaves \/ RegisterAbandoned \/ RegisterEnds \/ SyncStep
            \/ SyncFailed \/ SyncEnds \/ Stop
  BY <1>2, <1>10 DEF RegisterSaves, RegisterAbandoned, RegisterEnds, SyncStep, SyncBegin,
       SyncServed, SyncRefused, SyncRetries, SyncFailed, SyncEnds, Stop
<1>11. CASE UNCHANGED vars
  BY <1>2, <1>11 DEF vars
<1>. QED  BY <1>5, <1>6, <1>7, <1>8, <1>9, <1>10, <1>11
          DEF Next, RegisterStep, FaultStep, HandlerStep

\* The calls of a step keep within their policy.
LEMMA CallsWithin ==
  ASSUME SessionTypeInv, [Next]_vars
  PROVE  /\ policy' = policy
         /\ CallWithin(reg') /\ CallWithin(request')
<1>1. /\ CallWithin(reg) /\ CallWithin(request) /\ policy \in Policies
      /\ handler \in [Slot -> Handler] /\ held \in Token
  BY DEF SessionTypeInv, SessionTypeOK
<1>2. /\ CallWithin(NoCall)
      /\ \A call : CallWithin(call) => CallWithin(Retried(call))
      /\ \A call : CallWithin(call) /\ call.pc = "waiting" => CallWithin(Sent(call))
      /\ \A token \in Token : CallWithin(Sent([NoCall EXCEPT !.token = token]))
      /\ \A k \in Slot : CallWithin([Sent(NoCall) EXCEPT !.slot = k])
  BY <1>1, CallSteps
<1>3. policy' = policy
  <2>1. CASE RegisterBegin \/ RegisterStep \/ SyncStep
    BY <2>1 DEF RegisterBegin, RegisterStep, RegisterRetries, RegisterAnswered,
         RegisterSaves, RegisterFailed, SyncStep, SyncBegin, SyncServed, SyncRefused,
         SyncRetries
  <2>2. CASE FaultStep
    BY <2>2 DEF FaultStep, RegisterLost, RegisterAbandoned, RegisterEnds, SyncFailed,
         SyncEnds, Stop, CreateFails
  <2>3. CASE \E k \in Slot : HandlerStep(k)
    BY <2>3 DEF HandlerStep, CreateDevice, HandlerEnds
  <2>4. CASE UNCHANGED vars
    BY <2>4 DEF vars
  <2>. QED  BY <2>1, <2>2, <2>3, <2>4 DEF Next
<1>4. CASE reg' = reg /\ request' = request
  BY <1>1, <1>3, <1>4
<1>5. CASE RegisterBegin
  BY <1>1, <1>2, <1>5 DEF RegisterBegin, RegisterSends
<1>6. CASE RegisterRetries
  <2>1. PICK k \in Slot : reg' = [Sent(reg) EXCEPT !.slot = k]
    BY <1>6 DEF RegisterRetries, RegisterSends
  <2>2. CallWithin(Sent(reg))
    BY <1>1, <1>2, <1>6 DEF RegisterRetries
  <2>3. CallWithin([Sent(reg) EXCEPT !.slot = k])
    BY <2>2 DEF CallWithin, Call
  <2>. QED  BY <1>1, <1>6, <2>1, <2>3 DEF RegisterRetries
<1>7. CASE RegisterAnswered
  <2>1. handler[reg.slot].token \in Token
    BY <1>1 DEF CallWithin, Call, Handler
  <2>2. CallWithin([reg EXCEPT !.pc = "save", !.token = handler[reg.slot].token])
    BY <1>1, <2>1 DEF CallWithin, Call
  <2>. QED  BY <1>1, <1>7, <2>2 DEF RegisterAnswered
<1>8. CASE RegisterSaves \/ RegisterEnds
  BY <1>1, <1>2, <1>8 DEF RegisterSaves, RegisterEnds
<1>9. CASE RegisterFailed \/ RegisterLost \/ RegisterAbandoned
  BY <1>1, <1>2, <1>9 DEF RegisterFailed, RegisterLost, RegisterAbandoned
<1>10. CASE SyncBegin
  BY <1>1, <1>2, <1>10 DEF SyncBegin
<1>11. CASE SyncServed
  <2>1. [request EXCEPT !.attempt = 1] \in Call /\ request.pc = "sending"
    BY <1>1, <1>11 DEF SyncServed, CallWithin, Call
  <2>2. CallWithin([request EXCEPT !.attempt = 1])
    BY <1>1, <2>1, SomeAttempt DEF CallWithin, Call
  <2>. QED  BY <1>1, <1>2, <1>11, <2>2 DEF SyncServed
<1>12. CASE SyncRefused \/ SyncEnds
  BY <1>1, <1>2, <1>12 DEF SyncRefused, SyncEnds
<1>13. CASE SyncFailed \/ SyncRetries
  BY <1>1, <1>2, <1>13 DEF SyncFailed, SyncRetries
<1>14. CASE Stop
  BY <1>2, <1>14 DEF Stop
<1>15. CASE \E k \in Slot : CreateDevice(k) \/ CreateFails(k) \/ HandlerEnds(k)
  BY <1>4, <1>15 DEF CreateDevice, CreateFails, HandlerEnds
<1>16. CASE UNCHANGED vars
  BY <1>4, <1>16 DEF vars
<1>. QED  BY <1>3, <1>5, <1>6, <1>7, <1>8, <1>9, <1>10, <1>11, <1>12, <1>13, <1>14, <1>15, <1>16
          DEF Next, RegisterStep, SyncStep, FaultStep, HandlerStep

LEMMA SessionTypeStep == SessionTypeInv /\ [Next]_vars => SessionTypeInv'
<1> SUFFICES ASSUME SessionTypeInv, [Next]_vars PROVE SessionTypeInv'
  OBVIOUS
<1>1. /\ SessionTypeOK /\ handler' \in [Slot -> Handler] /\ row' \in Token
      /\ issued' \in Token
  BY HandlersTyped DEF SessionTypeInv
<1>2. CallWithin(reg)' /\ CallWithin(request)' /\ policy' \in Policies
  BY <1>1, CallsWithin DEF CallWithin, Attempts, SessionTypeOK
<1>3. held' \in Token
  <2>1. CASE RegisterSaves
    BY <2>1 DEF RegisterSaves, StoredToken, SessionTypeInv, CallWithin, Call
  <2>2. CASE ~RegisterSaves
    <3>1. held' = held
      BY <2>2 DEF Next, RegisterBegin, RegisterStep, RegisterRetries, RegisterAnswered,
         RegisterFailed, SyncStep, SyncBegin, SyncServed, SyncRefused,
         SyncRetries, FaultStep, RegisterLost, RegisterAbandoned, RegisterEnds,
         SyncFailed, SyncEnds, Stop, CreateFails, HandlerStep, CreateDevice,
         HandlerEnds, vars
    <3>. QED  BY <1>1, <3>1 DEF SessionTypeOK
  <2>. QED  BY <2>1, <2>2
<1>4. faults' \in 0 .. MaxFaults /\ rotations' \in 0 .. MaxRotations
  <2>1. faults \in 0 .. MaxFaults /\ rotations \in 0 .. MaxRotations
    BY <1>1 DEF SessionTypeOK
  <2>2. \A kind : Fault(kind) => faults' \in 0 .. MaxFaults
    BY <2>1, FaultsAssumption DEF Fault
  <2>3. faults' = faults \/ \E kind : Fault(kind)
    BY DEF Next, RegisterBegin, RegisterStep, RegisterRetries, RegisterAnswered,
       RegisterSaves, RegisterFailed, SyncStep, SyncBegin, SyncServed, SyncRefused,
       SyncRetries, FaultStep, RegisterLost, RegisterAbandoned, RegisterEnds,
       SyncFailed, SyncEnds, Stop, CreateFails, HandlerStep, CreateDevice,
       HandlerEnds, vars
  <2>4. \/ rotations' = rotations
        \/ rotations < MaxRotations /\ rotations' = rotations + 1
    BY DEF Next, RegisterBegin, RegisterStep, RegisterRetries, RegisterAnswered,
       RegisterSaves, RegisterFailed, SyncStep, SyncBegin, SyncServed, SyncRefused,
       SyncRetries, FaultStep, RegisterLost, RegisterAbandoned, RegisterEnds,
       SyncFailed, SyncEnds, Stop, CreateFails, HandlerStep, CreateDevice,
       HandlerEnds, vars, appVars
  <2>5. rotations' \in 0 .. MaxRotations
    BY <2>1, <2>4, RotationsAssumption
  <2>. QED  BY <2>1, <2>2, <2>3, <2>5
<1>5. refused' \in BOOLEAN /\ confirmed' \in BOOLEAN /\ overtaken' \in BOOLEAN
  <2>1. refused \in BOOLEAN /\ confirmed \in BOOLEAN /\ overtaken \in BOOLEAN
    BY <1>1 DEF SessionTypeOK
  <2>2. refused' \in {refused, TRUE, FALSE} /\ confirmed' \in {confirmed, TRUE, FALSE}
    BY DEF Next, RegisterBegin, RegisterStep, RegisterRetries, RegisterAnswered,
       RegisterSaves, RegisterFailed, SyncStep, SyncBegin, SyncServed, SyncRefused,
       SyncRetries, FaultStep, RegisterLost, RegisterAbandoned, RegisterEnds,
       SyncFailed, SyncEnds, Stop, CreateFails, HandlerStep, CreateDevice,
       HandlerEnds, vars, appVars
  <2>3. overtaken' = overtaken \/ \E k \in Slot : overtaken' = ~Awaited(k)
    BY DEF Next, RegisterBegin, RegisterStep, RegisterRetries, RegisterAnswered,
       RegisterSaves, RegisterFailed, SyncStep, SyncBegin, SyncServed, SyncRefused,
       SyncRetries, FaultStep, RegisterLost, RegisterAbandoned, RegisterEnds,
       SyncFailed, SyncEnds, Stop, CreateFails, HandlerStep, CreateDevice,
       HandlerEnds, vars
  <2>. QED  BY <2>1, <2>2, <2>3
<1>. QED  BY <1>1, <1>2, <1>3, <1>4, <1>5 DEF SessionTypeInv, SessionTypeOK, CallWithin, Attempts

\* Every variable keeps its shape, and no call sends more requests than its
\* policy has attempts (doJSON, normalized).
THEOREM SessionTypeCorrect == Spec => []SessionTypeOK
<1>1. SessionTypeInv => SessionTypeOK
  BY DEF SessionTypeInv
<1>. QED  BY <1>1, SessionInit, SessionTypeStep, PTL DEF Spec

-----------------------------------------------------------------------------
(***************************************************************************)
(* The token's way from the row to the client: the handler that the client *)
(* waits for, the answer, the saved token.  Whatever has been overtaken by *)
(* another request excuses the rest.                                       *)
(***************************************************************************)

Carries(token) == token = row \/ overtaken

TokenInv ==
  /\ reg.pc = "sending" /\ handler[reg.slot].pc = "answer" => Carries(handler[reg.slot].token)
  /\ reg.pc = "save" => Carries(reg.token)
  /\ confirmed => reg.pc = "idle" /\ Carries(held)

LEMMA TokenInit == Init => TokenInv
BY DEF Init, TokenInv, NoCall, Carries

LEMMA TokenStep ==
  ASSUME SessionTypeInv, TokenInv, [Next]_vars
  PROVE  TokenInv'
<1>1. /\ reg \in Call /\ reg.slot \in Slot /\ handler \in [Slot -> Handler]
      /\ confirmed \in BOOLEAN
  BY DEF SessionTypeInv, SessionTypeOK, CallWithin, Call
<1>2. NoCall.pc = "idle"
  BY DEF NoCall
<1>3. CASE /\ UNCHANGED <<row, overtaken, held, confirmed>>
           /\ reg' = NoCall \/ (reg.pc # "idle" /\ reg' = Retried(reg))
  <2>1. \/ reg'.pc = "idle"
        \/ reg.pc # "idle" /\ reg'.pc = "waiting"
    BY <1>1, <1>2, <1>3 DEF Retried, Call
  <2>. QED  BY <1>3, <2>1 DEF TokenInv, Carries
<1>4. ASSUME NEW call \in Call, RegisterSends(call), confirmed' = FALSE
      PROVE  TokenInv'
  <2>1. PICK k \in Slot :
          /\ handler' = [handler EXCEPT ![k] = [FreeHandler EXCEPT !.pc = "create"]]
          /\ reg' = [Sent(call) EXCEPT !.slot = k]
    BY <1>4 DEF RegisterSends
  <2>2. Sent(call) \in Call /\ Sent(call).pc = "sending"
    BY SentCall
  <2>3. reg'.pc = "sending" /\ reg'.slot = k
    BY <2>1, <2>2 DEF Call
  <2>4. handler'[k].pc = "create"
    BY <1>1, <2>1 DEF FreeHandler
  <2>. QED  BY <1>4, <2>3, <2>4 DEF TokenInv
<1>5. CASE RegisterBegin
  <2>1. NoCall \in Call
    BY CallSteps DEF SessionTypeInv, SessionTypeOK, CallWithin
  <2>. QED  BY <1>4, <1>5, <2>1 DEF RegisterBegin
<1>6. CASE RegisterRetries
  <2>1. confirmed' = FALSE
    BY <1>1, <1>6 DEF RegisterRetries, TokenInv
  <2>. QED  BY <1>1, <1>4, <1>6, <2>1 DEF RegisterRetries
<1>7. CASE RegisterAnswered
  <2>1. reg'.pc = "save" /\ reg'.token = handler[reg.slot].token
    BY <1>1, <1>7 DEF RegisterAnswered, Call
  <2>. QED  BY <1>7, <2>1 DEF RegisterAnswered, TokenInv, Carries
<1>8. CASE RegisterSaves
  <2>1. reg'.pc = "idle" /\ held' = reg.token /\ row' = row /\ overtaken' = overtaken
    BY <1>2, <1>8 DEF RegisterSaves, StoredToken, serverVars
  <2>. QED  BY <1>8, <2>1 DEF RegisterSaves, TokenInv, Carries
<1>9. CASE RegisterFailed \/ RegisterLost \/ RegisterAbandoned \/ RegisterEnds \/ Stop
  BY <1>3, <1>9 DEF RegisterFailed, RegisterLost, RegisterAbandoned, RegisterEnds, Stop,
     serverVars
<1>10. ASSUME NEW k \in Slot, CreateDevice(k)
       PROVE  TokenInv'
  <2>1. /\ row' = issued' /\ overtaken' = ~Awaited(k)
        /\ handler' = [handler EXCEPT ![k] = [pc |-> "answer", token |-> issued']]
        /\ UNCHANGED <<held, reg, confirmed>>
    BY <1>10 DEF CreateDevice, Upserted
  <2>2. CASE Awaited(k)
    <3>1. reg.pc = "sending" /\ reg.slot = k /\ handler'[k].token = row' /\ ~confirmed
      BY <1>1, <2>1, <2>2 DEF Awaited, TokenInv
    <3>. QED  BY <2>1, <3>1 DEF TokenInv, Carries
  <2>3. CASE ~Awaited(k)
    BY <2>1, <2>3 DEF TokenInv, Carries
  <2>. QED  BY <2>2, <2>3
<1>11. ASSUME NEW k \in Slot, CreateFails(k) \/ HandlerEnds(k)
       PROVE  TokenInv'
  <2>1. UNCHANGED <<row, held, reg, confirmed, overtaken>>
    BY <1>11 DEF CreateFails, HandlerEnds
  <2>2. CASE reg.slot # k
    <3>1. handler'[reg.slot] = handler[reg.slot]
      BY <1>1, <1>11, <2>2 DEF CreateFails, HandlerEnds
    <3>. QED  BY <2>1, <3>1 DEF TokenInv, Carries
  <2>3. CASE reg.slot = k
    <3>1. handler'[k].pc # "answer"
      BY <1>1, <1>11 DEF CreateFails, HandlerEnds, FreeHandler, Handler
    <3>. QED  BY <2>1, <2>3, <3>1 DEF TokenInv, Carries
  <2>. QED  BY <2>2, <2>3
<1>12. CASE SyncStep \/ SyncFailed \/ SyncEnds
  <2>1. UNCHANGED <<serverVars, held, reg, confirmed, overtaken>>
    BY <1>12 DEF SyncStep, SyncBegin, SyncServed, SyncRefused, SyncRetries, SyncFailed,
       SyncEnds, serverVars
  <2>. QED  BY <2>1 DEF TokenInv, Carries, serverVars
<1>13. CASE UNCHANGED vars
  BY <1>13 DEF vars, serverVars, TokenInv, Carries
<1>. QED  BY <1>5, <1>6, <1>7, <1>8, <1>9, <1>10, <1>11, <1>12, <1>13
          DEF Next, RegisterStep, FaultStep, HandlerStep

\* After a Register that returned no error, only a request that the client had
\* given up can have replaced the token it saved (CreateDevice, doJSON, SetKV):
\* neither its retries nor lost responses do.
THEOREM OnlyLateRotatesAlways == Spec => []OnlyLateRotates
<1> DEFINE Inv == SessionTypeInv /\ TokenInv
<1>1. Init => Inv
  BY SessionInit, TokenInit
<1>2. Inv /\ [Next]_vars => Inv'
  BY SessionTypeStep, TokenStep
<1>3. Inv => OnlyLateRotates
  BY DEF TokenInv, OnlyLateRotates, Carries
<1>. QED  BY <1>1, <1>2, <1>3, PTL DEF Spec

-----------------------------------------------------------------------------
(***************************************************************************)
(* As long as no client stops waiting for a registration that is still at  *)
(* work, every handler that is about to call CreateDevice is waited for.   *)
(***************************************************************************)

NoneLeftBehind == \A k \in Slot : handler[k].pc = "create" => Awaited(k)

LEMMA NoneLeftBehindStep ==
  ASSUME "abandon" \notin FaultKinds, SessionTypeInv, NoneLeftBehind, ~overtaken,
         [Next]_vars
  PROVE  NoneLeftBehind' /\ ~overtaken'
<1>1. handler \in [Slot -> Handler] /\ reg \in Call /\ reg.slot \in Slot
  BY DEF SessionTypeInv, SessionTypeOK, CallWithin, Call
<1>2. CASE /\ reg' = reg /\ overtaken' = overtaken
           /\ \A k \in Slot : handler'[k].pc = "create" => handler[k].pc = "create"
  BY <1>2 DEF NoneLeftBehind, Awaited
<1>3. CASE /\ \A k \in Slot : handler'[k].pc # "create"
           /\ overtaken' = overtaken
  BY <1>3 DEF NoneLeftBehind
<1>4. ASSUME NEW call \in Call, RegisterSends(call), reg.pc # "sending",
             overtaken' = overtaken
      PROVE  NoneLeftBehind' /\ ~overtaken'
  <2>1. PICK k \in Slot :
          /\ handler' = [handler EXCEPT ![k] = [FreeHandler EXCEPT !.pc = "create"]]
          /\ reg' = [Sent(call) EXCEPT !.slot = k]
    BY <1>4 DEF RegisterSends
  <2>2. Sent(call) \in Call /\ Sent(call).pc = "sending"
    BY SentCall
  <2>3. reg'.pc = "sending" /\ reg'.slot = k
    BY <2>1, <2>2 DEF Call
  <2>4. \A j \in Slot : j # k => handler'[j].pc # "create"
    BY <1>1, <1>4, <2>1 DEF NoneLeftBehind, Awaited
  <2>. QED  BY <1>4, <2>3, <2>4 DEF NoneLeftBehind, Awaited
<1>5. CASE RegisterBegin
  <2>1. NoCall \in Call
    BY CallSteps DEF SessionTypeInv, SessionTypeOK, CallWithin
  <2>. QED  BY <1>4, <1>5, <2>1 DEF RegisterBegin
<1>6. CASE RegisterRetries
  BY <1>1, <1>4, <1>6 DEF RegisterRetries
<1>7. CASE RegisterAnswered \/ RegisterFailed \/ RegisterLost
  \* The handler that was waited for is gone, and there was no other.
  <2>1. /\ reg.pc = "sending" /\ overtaken' = overtaken
        /\ handler' = [handler EXCEPT ![reg.slot] = FreeHandler]
    BY <1>7 DEF RegisterAnswered, RegisterFailed, RegisterLost
  <2>2. \A k \in Slot : handler'[k].pc # "create"
    BY <1>1, <2>1 DEF NoneLeftBehind, Awaited, FreeHandler
  <2>. QED  BY <1>3, <2>1, <2>2
<1>8. CASE RegisterSaves \/ RegisterEnds
  <2>1. /\ reg.pc # "sending" /\ overtaken' = overtaken /\ handler' = handler
    BY <1>8 DEF RegisterSaves, RegisterEnds, serverVars
  <2>2. \A k \in Slot : handler'[k].pc # "create"
    BY <2>1 DEF NoneLeftBehind, Awaited
  <2>. QED  BY <1>3, <2>1, <2>2
<1>9. CASE RegisterAbandoned
  BY <1>9 DEF RegisterAbandoned, Fault
<1>10. CASE Stop
  <2>1. \A k \in Slot : Awaited(k) => handler[k].pc # "create"
    BY <1>10 DEF Stop, Fault
  <2>2. overtaken' = overtaken /\ handler' = handler
    BY <1>10 DEF Stop, serverVars
  <2>. QED  BY <1>3, <2>1, <2>2 DEF NoneLeftBehind
<1>11. ASSUME NEW k \in Slot, CreateDevice(k)
       PROVE  NoneLeftBehind' /\ ~overtaken'
  <2>1. /\ handler[k].pc = "create" /\ overtaken' = ~Awaited(k) /\ reg' = reg
        /\ handler' = [handler EXCEPT ![k] = [pc |-> "answer", token |-> issued']]
    BY <1>11 DEF CreateDevice
  <2>2. Awaited(k)
    BY <2>1 DEF NoneLeftBehind
  <2>3. \A j \in Slot : handler'[j].pc = "create" => handler[j].pc = "create"
    BY <1>1, <2>1
  <2>. QED  BY <2>1, <2>2, <2>3 DEF NoneLeftBehind, Awaited
<1>12. ASSUME NEW k \in Slot, CreateFails(k) \/ HandlerEnds(k)
       PROVE  NoneLeftBehind' /\ ~overtaken'
  <2>1. reg' = reg /\ overtaken' = overtaken
    BY <1>12 DEF CreateFails, HandlerEnds
  <2>2. \A j \in Slot : handler'[j].pc = "create" => handler[j].pc = "create"
    BY <1>1, <1>12 DEF CreateFails, HandlerEnds, FreeHandler
  <2>. QED  BY <1>2, <2>1, <2>2
<1>13. CASE SyncStep \/ SyncFailed \/ SyncEnds
  <2>1. UNCHANGED <<handler, reg, overtaken>>
    BY <1>13 DEF SyncStep, SyncBegin, SyncServed, SyncRefused, SyncRetries, SyncFailed,
       SyncEnds, serverVars
  <2>. QED  BY <1>2, <2>1
<1>14. CASE UNCHANGED vars
  BY <1>2, <1>14 DEF vars, serverVars
<1>. QED  BY <1>5, <1>6, <1>7, <1>8, <1>9, <1>10, <1>11, <1>12, <1>13, <1>14
          DEF Next, RegisterStep, FaultStep, HandlerStep

\* "It is safe to call again" (Register), as far as it is true: if a client
\* always waits until the server is done with a registration, a Register that
\* returned no error leaves the device with the server's token, however many
\* answers are lost, however often it retries, whatever else fails.
THEOREM SafeToRetryIfAwaited ==
  ASSUME "abandon" \notin FaultKinds
  PROVE  Spec => []RegisterSafeToRetry
<1> DEFINE Inv == SessionTypeInv /\ TokenInv /\ NoneLeftBehind /\ ~overtaken
<1>1. Init => Inv
  <2>1. Init => NoneLeftBehind /\ ~overtaken
    BY DEF Init, NoneLeftBehind, FreeHandler
  <2>. QED  BY <2>1, SessionInit, TokenInit
<1>2. Inv /\ [Next]_vars => Inv'
  BY SessionTypeStep, TokenStep, NoneLeftBehindStep
<1>3. Inv => RegisterSafeToRetry
  BY DEF TokenInv, RegisterSafeToRetry, Carries
<1>. QED  BY <1>1, <1>2, <1>3, PTL DEF Spec

-----------------------------------------------------------------------------
(***************************************************************************)
(* Numbers: the least member of a set, and the powers of two.              *)
(***************************************************************************)

\* A set of numbers that has a member has a least one.
LEMMA LeastNumber ==
  ASSUME NEW T \in SUBSET Nat, T # {}
  PROVE  \E x \in T : \A y \in T : x <= y
<1> DEFINE R == {ss \in Nat \X Nat : ss[1] < ss[2]}
<1>1. IsWellFoundedOn(R, Nat)
  BY NatLessThanWellFounded DEF OpToRel
<1>2. \E x \in T : \A y \in T : ~(<<y, x>> \in R)
  <2> HIDE DEF R
  <2>. QED  BY <1>1, WFMin
<1>3. \A x \in T, y \in T : <<y, x>> \in R <=> y < x
  OBVIOUS
<1> HIDE DEF R
<1>4. PICK x \in T : \A y \in T : ~(<<y, x>> \in R)
  BY <1>2
<1>5. \A y \in T : ~(y < x) /\ x \in Nat /\ y \in Nat
  BY <1>3, <1>4
<1>. QED  BY <1>5

\* The powers of two, as the numbers of subsets.
LEMMA PowersOfTwo ==
  /\ 2^0 = 1
  /\ \A n \in Nat : 2^n \in Nat /\ 2^(n + 1) = 2 * 2^n
<1>1. ASSUME NEW n \in Nat
      PROVE  /\ IsFiniteSet(1 .. n) /\ Cardinality(1 .. n) = n
             /\ IsFiniteSet(SUBSET (1 .. n)) /\ Cardinality(SUBSET (1 .. n)) = 2^n
  <2>1. IsFiniteSet(1 .. n) /\ Cardinality(1 .. n) = n
    BY FS_Interval
  <2>. QED  BY <2>1, FS_SUBSET
<1>2. 2^0 = 1
  <2>1. SUBSET (1 .. 0) = {{}}
    OBVIOUS
  <2>2. Cardinality(SUBSET (1 .. 0)) = 1
    BY <2>1, FS_Singleton
  <2>. QED  BY <1>1, <2>2
<1>3. ASSUME NEW n \in Nat
      PROVE  2^n \in Nat /\ 2^(n + 1) = 2 * 2^n
  <2> DEFINE Without == SUBSET (1 .. n)
             With    == {s \in SUBSET (1 .. n + 1) : n + 1 \in s}
             Add     == [s \in Without |-> s \cup {n + 1}]
  <2>1. Add \in [Without -> With]
    OBVIOUS
  <2>2. \A s, t \in Without : Add[s] = Add[t] => s = t
    <3> SUFFICES ASSUME NEW s \in Without, NEW t \in Without, Add[s] = Add[t]
                 PROVE  s = t
      OBVIOUS
    <3>1. n + 1 \notin s /\ n + 1 \notin t
      OBVIOUS
    <3>2. s \cup {n + 1} = t \cup {n + 1}
      OBVIOUS
    <3>3. s = (s \cup {n + 1}) \ {n + 1} /\ t = (t \cup {n + 1}) \ {n + 1}
      BY <3>1
    <3>. QED  BY <3>2, <3>3
  <2>3. ASSUME NEW t \in With
        PROVE  \E s \in Without : Add[s] = t
    <3>1. t \ {n + 1} \in Without /\ t = (t \ {n + 1}) \cup {n + 1}
      <4>1. \A x \in t : x \in 1 .. n \/ x = n + 1
        OBVIOUS
      <4>. QED  BY <4>1
    <3>. QED  BY <3>1
  <2>4. IsFiniteSet(Without) /\ Cardinality(Without) = 2^n
    BY <1>1
  <2>5. ExistsBijection(Without, With)
    <3> HIDE DEF Without, With, Add
    <3>1. Add \in Bijection(Without, With)
       BY <2>1, <2>2, <2>3, Fun_IsBij
    <3>. QED BY <3>1 DEF ExistsBijection
  <2>6. IsFiniteSet(With) /\ Cardinality(With) = 2^n
    <3> HIDE DEF Without, With
    <3>. QED  BY <2>4, <2>5, FS_Bijection
  <2>7. Without \cap With = {}
    OBVIOUS
  <2>8. Without \cup With = SUBSET (1 .. n + 1)
    <3>1. ASSUME NEW s \in SUBSET (1 .. n + 1), n + 1 \notin s
          PROVE  s \in Without
      <4>1. \A x \in s : x \in 1 .. n
        BY <3>1
      <4>. QED  BY <4>1
    <3>2. Without \subseteq SUBSET (1 .. n + 1)
      OBVIOUS
    <3>. QED  BY <3>1, <3>2
  <2>9. Cardinality(Without \cup With) = 2^n + 2^n
    <3>1. Cardinality(Without \cap With) = 0
      BY <2>7, FS_EmptySet
    <3>2. 2^n \in Nat
      BY <2>4, FS_CardinalityType
    <3> HIDE DEF Without, With
    <3>3. Cardinality(Without \cup With)
            = Cardinality(Without) + Cardinality(With) - Cardinality(Without \cap With)
      BY <2>4, <2>6, FS_Union
    <3>. QED  BY <2>4, <2>6, <3>1, <3>2, <3>3
  <2>10. 2^n \in Nat
    BY <2>4, FS_CardinalityType
  <2>11. Cardinality(SUBSET (1 .. n + 1)) = 2^(n + 1)
    <3> DEFINE m == n + 1
    <3>1. m \in Nat
      OBVIOUS
    <3> HIDE DEF m
    <3>2. Cardinality(SUBSET (1 .. m)) = 2^m
      BY <1>1, <3>1
    <3>. QED  BY <3>2 DEF m
  <2> HIDE DEF Without, With
  <2>12. 2^n + 2^n = 2^(n + 1)
    BY <2>8, <2>9, <2>11
  <2>. QED  BY <2>10, <2>12
<1>. QED  BY <1>2, <1>3

\* None of them is zero.
LEMMA PowerPositive ==
  ASSUME NEW n \in Nat
  PROVE  2^n > 0
<1> DEFINE Zero == {m \in Nat : ~(2^m > 0)}
<1>1. SUFFICES ASSUME Zero # {} PROVE FALSE
  OBVIOUS
<1>2. PICK m \in Zero : \A k \in Zero : m <= k
  <2>1. Zero \in SUBSET Nat
    OBVIOUS
  <2> HIDE DEF Zero
  <2>. QED  BY <1>1, <2>1, LeastNumber
<1>3. m # 0
  <2>1. 2^0 > 0
    <3> DEFINE one == 2^0
    <3>1. one = 1
      BY PowersOfTwo
    <3> HIDE DEF one
    <3>2. one > 0
      BY <3>1
    <3>. QED  BY <3>2 DEF one
  <2>. QED  BY <2>1
<1> DEFINE k == m - 1
<1>4. k \in Nat /\ k + 1 = m /\ ~(m <= k)
  BY <1>3
<1>5. 2^k > 0
  BY <1>2, <1>4
<1> HIDE DEF k
<1>6. 2^k \in Nat /\ 2^(k + 1) = 2 * 2^k
  BY <1>4, PowersOfTwo
<1>. QED  BY <1>4, <1>5, <1>6

-----------------------------------------------------------------------------
(***************************************************************************)
(* backoff's loop, for any number of retries.                              *)
(***************************************************************************)

\* What the loop makes of the delay d.
Grown(p, d) == IF d < p.max THEN Doubled(d) ELSE d

\* The delays of the loop's first n rounds.
IsSchedule(p, n, d) ==
  d = [i \in 0 .. n |-> IF i = 0 THEN p.base ELSE Grown(p, d[i - 1])]

\* The loop has a next round after any number of rounds.
LEMMA ScheduleExists ==
  ASSUME NEW p, NEW n \in Nat
  PROVE  \E d : IsSchedule(p, n, d)
<1> DEFINE Missing == {m \in Nat : ~\E d : IsSchedule(p, m, d)}
<1>1. SUFFICES ASSUME Missing # {} PROVE FALSE
  OBVIOUS
<1>2. PICK m \in Missing : \A k \in Missing : m <= k
  <2>1. Missing \in SUBSET Nat
    OBVIOUS
  <2> HIDE DEF Missing
  <2>. QED  BY <1>1, <2>1, LeastNumber
<1>3. m # 0
  <2>1. IsSchedule(p, 0, [i \in 0 .. 0 |-> p.base])
    BY DEF IsSchedule
  <2>. QED  BY <2>1
<1>4. PICK d : IsSchedule(p, m - 1, d)
  <2>1. m - 1 \in Nat /\ ~(m <= m - 1)
    BY <1>3
  <2>. QED  BY <1>2, <2>1
<1> DEFINE e == [i \in 0 .. m |-> IF i < m THEN d[i] ELSE Grown(p, d[m - 1])]
<1>5. \A i \in 0 .. m : e[i] = IF i = 0 THEN p.base ELSE Grown(p, e[i - 1])
  <2> SUFFICES ASSUME NEW i \in 0 .. m
               PROVE  e[i] = IF i = 0 THEN p.base ELSE Grown(p, e[i - 1])
    OBVIOUS
  <2>1. \A j \in 0 .. m - 1 : d[j] = IF j = 0 THEN p.base ELSE Grown(p, d[j - 1])
    BY <1>4 DEF IsSchedule
  <2>2. CASE i = m
    BY <1>3, <2>2
  <2>3. CASE i # m
    <3>1. i \in 0 .. m - 1 /\ e[i] = d[i]
      BY <2>3
    <3>2. i # 0 => i - 1 \in 0 .. m /\ i - 1 < m /\ e[i - 1] = d[i - 1]
      BY <2>3
    <3>. QED  BY <2>1, <3>1, <3>2
  <2>. QED  BY <2>2, <2>3
<1>6. e = [i \in 0 .. m |-> e[i]]
  OBVIOUS
<1> HIDE DEF e
<1>7. IsSchedule(p, m, e)
  BY <1>5, <1>6 DEF IsSchedule
<1>. QED  BY <1>7

\* Longest is the cap of such a schedule's last delay.
LEMMA LongestSchedule ==
  ASSUME NEW p, NEW n \in Nat
  PROVE  \E d : /\ IsSchedule(p, n, d)
                /\ Longest(p, n) = IF d[n] > p.max THEN p.max ELSE d[n]
<1> DEFINE d[i \in 0 .. n] == IF i = 0 THEN p.base
                              ELSE IF d[i - 1] < p.max THEN Doubled(d[i - 1])
                              ELSE d[i - 1]
           Rounds(e) == [i \in 0 .. n |-> IF i = 0 THEN p.base
                                          ELSE IF e[i - 1] < p.max THEN Doubled(e[i - 1])
                                          ELSE e[i - 1]]
<1>1. \A e : IsSchedule(p, n, e) <=> e = Rounds(e)
  BY DEF IsSchedule, Grown
<1>2. d = Rounds(d)
  <2>1. PICK e : e = Rounds(e)
    BY <1>1, ScheduleExists
  <2>. QED  BY <2>1
<1>3. Longest(p, n) = IF d[n] > p.max THEN p.max ELSE d[n]
  BY DEF Longest
<1>. QED  BY <1>1, <1>2, <1>3

\* A usable policy, as normalized leaves it: a delay that is worth doubling
\* doubles without overflow.
Usable(p) == p \in Policy /\ p.base > 0 /\ p.max > 0 /\ Roomy(p)

LEMMA NormalizedUsable ==
  ASSUME NEW p \in Policy, Roomy(p)
  PROVE  Usable(Normalized(p))
<1> DEFINE q == Normalized(p)
<1>1. q \in Policy /\ q.base > 0 /\ q.max > 0
  <2>1. /\ p.attempts \in Int /\ p.base \in Duration /\ p.max \in Duration
        /\ DefaultPolicy.base \in Duration /\ DefaultPolicy.max \in Duration
        /\ DefaultPolicy.base > 0 /\ DefaultPolicy.max > 0
    BY DefaultAssumption DEF Policy
  <2>0. p.base \in Int /\ p.max \in Int
    BY <2>1, DurationAssumption DEF Duration
  <2>2. /\ q.attempts = IF p.attempts < 1 THEN 1 ELSE p.attempts
        /\ q.base = IF p.base <= 0 THEN DefaultPolicy.base ELSE p.base
        /\ q.max = IF p.max <= 0 THEN DefaultPolicy.max ELSE p.max
    BY DEF Normalized
  <2>3. /\ q.attempts \in Int
        /\ q.base \in Duration /\ q.base > 0 /\ q.max \in Duration /\ q.max > 0
    <3>1. q.attempts \in Int
      BY <2>1, <2>2
    <3>2. q.base \in Duration /\ q.base > 0
      BY <2>0, <2>1, <2>2
    <3>3. q.max \in Duration /\ q.max > 0
      BY <2>0, <2>1, <2>2
    <3>. QED  BY <3>1, <3>2, <3>3
  <2>4. q = [attempts |-> q.attempts, base |-> q.base, max |-> q.max]
    BY DEF Normalized
  <2>. QED  BY <2>3, <2>4 DEF Policy
<1>2. q.max = p.max \/ q.max = DefaultPolicy.max
  BY DEF Normalized
<1>3. Roomy(q)
  BY <1>2, DefaultAssumption DEF Roomy
<1>. QED  BY <1>1, <1>3 DEF Usable

\* As long as BaseDelay * 2^i is below the cap the loop has computed it; then
\* it stays at a delay that is not below the cap, and not negative.
LEMMA DelaysExact ==
  ASSUME NEW p, Usable(p), NEW n \in Nat, NEW d, IsSchedule(p, n, d),
         NEW i \in 0 .. n
  PROVE  LET exact == p.base * 2^i IN
         /\ d[i] \in Int
         /\ exact <= p.max => d[i] = exact
         /\ exact > p.max => d[i] >= p.max
<1> DEFINE Exact(j) == /\ d[j] \in Int
                       /\ p.base * 2^j <= p.max => d[j] = p.base * 2^j
                       /\ p.base * 2^j > p.max => d[j] >= p.max
           Wrong == {j \in 0 .. n : ~Exact(j)}
<1>1. SUFFICES ASSUME Wrong # {} PROVE FALSE
  OBVIOUS
<1>2. PICK m \in Wrong : \A k \in Wrong : m <= k
  <2>1. Wrong \in SUBSET Nat
    OBVIOUS
  <2> HIDE DEF Wrong
  <2>. QED  BY <1>1, <2>1, LeastNumber
<1>3. /\ p.base \in Int /\ p.base > 0 /\ p.max \in Int /\ p.max > 0
      /\ 2 * p.max <= MaxDuration + 1 /\ MaxDuration \in Nat
  <2>1. p \in Policy /\ p.base > 0 /\ p.max > 0 /\ 2 * p.max <= MaxDuration + 1
    BY DEF Usable, Roomy
  <2>2. p.base \in Int /\ p.max \in Int
    BY <2>1, DurationAssumption DEF Policy, Duration
  <2>. QED  BY <2>1, <2>2, DurationAssumption
<1>4. d[m] = IF m = 0 THEN p.base ELSE Grown(p, d[m - 1])
  BY DEF IsSchedule
<1>5. m # 0
  <2>1. d[0] = p.base /\ p.base * 2^0 = p.base
    BY <1>3, PowersOfTwo DEF IsSchedule
  <2>2. Exact(0)
    BY <1>3, <2>1
  <2>. QED  BY <2>2
<1>6. m - 1 \in 0 .. n /\ m - 1 \in Nat /\ ~(m <= m - 1)
  BY <1>5
<1>7. Exact(m - 1)
  BY <1>2, <1>6
<1> DEFINE before == p.base * 2^(m - 1)
<1>8. before \in Int /\ before > 0 /\ p.base * 2^m = 2 * before
  <2>1. 2^(m - 1) \in Nat /\ 2^(m - 1) > 0 /\ 2^m = 2 * 2^(m - 1)
    <3> DEFINE k == m - 1
    <3>1. k \in Nat /\ k + 1 = m
      BY <1>6
    <3> HIDE DEF k
    <3>2. 2^k \in Nat /\ 2^(k + 1) = 2 * 2^k /\ 2^k > 0
      BY <3>1, PowersOfTwo, PowerPositive
    <3>. QED  BY <3>1, <3>2 DEF k
  <2> DEFINE w == 2^(m - 1)
  <2>2. p.base * (2 * w) = 2 * (p.base * w) /\ p.base * w > 0 /\ p.base * w \in Int
    <3> HIDE DEF w
    <3>1. w \in Nat /\ w > 0
      BY <2>1 DEF w
    <3>. QED  BY <1>3, <3>1
  <2>. QED  BY <2>1, <2>2
<1>9. d[m - 1] < p.max => Doubled(d[m - 1]) = 2 * d[m - 1]
  <2> SUFFICES ASSUME d[m - 1] < p.max PROVE Doubled(d[m - 1]) = 2 * d[m - 1]
    OBVIOUS
  <2>1. d[m - 1] = before
    BY <1>3, <1>7, <1>8
  <2> HIDE DEF before
  <2>2. 2 * before <= MaxDuration /\ ~(2 * before < -(MaxDuration + 1))
    <3>1. before < p.max
      BY <2>1
    <3>. QED  BY <1>3, <1>8, <3>1
  <2>3. Doubled(before) = 2 * before
    BY <1>3, <1>8, <2>2 DEF Doubled
  <2>. QED  BY <2>1, <2>3
<1>10. Exact(m)
  <2>1. CASE d[m - 1] < p.max
    <3>1. before <= p.max /\ d[m - 1] = before /\ d[m] = 2 * before
      BY <1>3, <1>4, <1>5, <1>7, <1>8, <1>9, <2>1 DEF Grown
    <3>. QED  BY <1>3, <1>8, <3>1
  <2>2. CASE ~(d[m - 1] < p.max)
    <3>1. d[m] = d[m - 1] /\ d[m] \in Int
      BY <1>4, <1>5, <1>7, <2>2 DEF Grown
    <3>2. before >= p.max
      BY <1>3, <1>7, <1>8, <2>2
    <3>. QED  BY <1>3, <1>8, <2>2, <3>1, <3>2
  <2>. QED  BY <2>1, <2>2
<1>. QED  BY <1>10

\* backoff's bound before retry n is BaseDelay * 2^n, or the cap when that is
\* less, for every n: the loop has doubled and compared without an overflow,
\* and Int63n's argument is positive.
LEMMA LongestExact ==
  ASSUME NEW p, Usable(p), NEW n \in Nat
  PROVE  LET exact == p.base * 2^n IN
         /\ Longest(p, n) = IF exact > p.max THEN p.max ELSE exact
         /\ Draws(p, n) # {}
<1>1. PICK d : /\ IsSchedule(p, n, d)
               /\ Longest(p, n) = IF d[n] > p.max THEN p.max ELSE d[n]
  BY LongestSchedule
<1>2. /\ p.base \in Int /\ p.base > 0 /\ p.max \in Int /\ p.max > 0
      /\ 2^n \in Nat /\ 2^n > 0
  <2>1. p \in Policy /\ p.base > 0 /\ p.max > 0
    BY DEF Usable
  <2>2. p.base \in Int /\ p.max \in Int
    BY <2>1, DurationAssumption DEF Policy, Duration
  <2>. QED  BY <2>1, <2>2, PowersOfTwo, PowerPositive
<1> DEFINE exact == p.base * 2^n
<1>3. exact \in Int /\ exact > 0
  <2> DEFINE w == 2^n
  <2> HIDE DEF w
  <2>1. w \in Nat /\ w > 0
    BY <1>2 DEF w
  <2>2. p.base * w \in Int /\ p.base * w > 0
    BY <1>2, <2>1
  <2>. QED  BY <2>2 DEF w
<1>4. /\ d[n] \in Int
      /\ exact <= p.max => d[n] = exact
      /\ exact > p.max => d[n] >= p.max
  BY <1>1, DelaysExact
<1> HIDE DEF exact
<1>5. Longest(p, n) = IF exact > p.max THEN p.max ELSE exact
  BY <1>1, <1>2, <1>3, <1>4
<1>6. 0 \in Draws(p, n)
  BY <1>2, <1>3, <1>5 DEF Draws
<1>. QED  BY <1>5, <1>6 DEF exact

\* The longest wait before each retry is exactly BaseDelay * 2^n, capped at
\* MaxDelay (backoff), whatever policy the client was opened with.
THEOREM ScheduleExactAlways == Spec => []ScheduleExact
<1>1. SessionTypeOK => ScheduleExact
  <2> SUFFICES ASSUME SessionTypeOK PROVE ScheduleExact
    OBVIOUS
  <2>1. policy \in Policy /\ Roomy(policy)
    BY PoliciesAssumption DEF SessionTypeOK
  <2>2. Usable(Normalized(policy))
    BY <2>1, NormalizedUsable
  <2>. QED  BY <2>2, LongestExact DEF ScheduleExact
<1>. QED  BY <1>1, SessionTypeCorrect, PTL

=============================================================================
