------------------------------ MODULE Session -------------------------------
(***************************************************************************)
(* A device's session with the server: Client.Register and the requests of *)
(* Sync, sent by doJSON with its retries (pkg/client), and the server's    *)
(* handleRegisterDevice and requireAuth (internal/server/auth.go) on the   *)
(* device's row of the devices table.                                      *)
(*                                                                         *)
(* A token is known by its number in the order of the calls of CreateDevice*)
(* (it is 32 random bytes); 0 is none.  One device: CreateDevice touches no*)
(* row but its own.  What an admitted request does is SyncForge's.         *)
(***************************************************************************)
EXTENDS Retry

CONSTANTS
  Policies,      \* what WithRetryPolicy may be given
  Slots,         \* bound: registration requests on the server at one time
  MaxRotations,  \* bound: calls of Register the application has no need of
  FaultKinds,    \* which faults may happen, see Fault
  MaxFaults      \* bound: how many do

ASSUME PoliciesAssumption  == Policies \subseteq Policy /\ \A p \in Policies : Roomy(p)
ASSUME SlotsAssumption     == Slots \in Nat \ {0}
ASSUME RotationsAssumption == MaxRotations \in Nat
ASSUME FaultsAssumption    == MaxFaults \in Nat

VARIABLES
  \* the server
  row,         \* devices.token_hash
  issued,      \* how many tokens have been made
  handler,     \* handler[k]: the k-th handleRegisterDevice at work
  \* the client's database and options
  held,        \* device_token
  policy,      \* retryPolicy
  \* the client's calls
  reg,         \* the Register in progress
  request,     \* the Sync in progress, as its request at the moment
  \* the application
  refused,     \* the last Sync returned 401
  rotations,   \* how often it has registered without need
  \* history and environment
  confirmed,   \* the last Register returned no error
  overtaken,   \* the row was last written for a request nobody waited for
  faults       \* how many faults have happened

serverVars == <<row, issued, handler>>
appVars    == <<refused, rotations>>
vars == <<serverVars, held, policy, reg, request, appVars, confirmed, overtaken,
          faults>>

Slot  == 1 .. Slots
Token == Nat

Handler == [pc : {"free", "create", "answer", "failed"}, token : Token]
FreeHandler == [pc |-> "free", token |-> 0]

Call == [pc : {"idle", "sending", "waiting", "save"}, attempt : Nat, slot : Slot,
         token : Token]
NoCall == [pc |-> "idle", attempt |-> 0, slot |-> 1, token |-> 0]

Init ==
  /\ row = 0 /\ issued = 0 /\ held = 0
  /\ handler = [k \in Slot |-> FreeHandler]
  /\ policy \in Policies
  /\ reg = NoCall /\ request = NoCall
  /\ refused = FALSE /\ rotations = 0
  /\ confirmed = FALSE /\ overtaken = FALSE
  /\ faults = 0

(***************************************************************************)
(* Faults, counted against MaxFaults:                                      *)
(*   "error"    the server answers 5xx: a database call of the handler or  *)
(*              of requireAuth fails                                       *)
(*   "lost"     a network error that leaves nothing at work on the server: *)
(*              the request never arrives, or its response                 *)
(*   "abandon"  the client stops waiting, or stops altogether, while the   *)
(*              server still has its registration request                  *)
(*   "fail"     the client's SetKV fails                                   *)
(*   "stop"     a context is done between two attempts, or the client ends *)
(*              with no request on the server                              *)
(***************************************************************************)
Fault(kind) == kind \in FaultKinds /\ faults < MaxFaults /\ faults' = faults + 1

-----------------------------------------------------------------------------
(***************************************************************************)
(* doJSON: one request sent up to policy.attempts times.                   *)
(***************************************************************************)

\* One attempt more than the policy has.
RetriedOnceMore(call) ==
  IF call.attempt <= Normalized(policy).attempts THEN [call EXCEPT !.pc = "waiting"]
                                                 ELSE NoCall
\* A retryable error: backoff, or the end of the last attempt.
Retried(call) ==
  IF call.attempt < Normalized(policy).attempts THEN [call EXCEPT !.pc = "waiting"]
                                                ELSE NoCall

Sent(call) == [call EXCEPT !.pc = "sending", !.attempt = @ + 1]

-----------------------------------------------------------------------------
(***************************************************************************)
(* Client.Register.                                                        *)
(***************************************************************************)

Awaited(k) == reg.pc = "sending" /\ reg.slot = k

\* attemptJSON sends a registration request, and a handler takes it.
RegisterSends(call) ==
  \E k \in Slot :
    /\ handler[k].pc = "free"
    /\ handler' = [handler EXCEPT ![k] = [FreeHandler EXCEPT !.pc = "create"]]
    /\ reg' = [Sent(call) EXCEPT !.slot = k]

\* The application registers when it has no valid token that it knows of, with
\* no Sync under way; another goroutine of it may do so at any time.
Needed == held = 0 \/ refused

RegisterBegin ==
  /\ reg.pc = "idle"
  /\ \/ /\ Needed /\ request.pc = "idle"
        /\ UNCHANGED rotations
     \/ /\ rotations < MaxRotations
        /\ rotations' = rotations + 1
  /\ RegisterSends(NoCall)
  /\ confirmed' = FALSE
  /\ UNCHANGED <<row, issued, held, policy, request, refused, overtaken, faults>>

\* The wait is over.
RegisterRetries ==
  /\ reg.pc = "waiting"
  /\ RegisterSends(reg)
  /\ UNCHANGED <<row, issued, held, policy, request, appVars, confirmed, overtaken,
                 faults>>

\* 201 Created.
RegisterAnswered ==
  /\ reg.pc = "sending"
  /\ handler[reg.slot].pc = "answer"
  /\ reg' = [reg EXCEPT !.pc = "save", !.token = handler[reg.slot].token]
  /\ handler' = [handler EXCEPT ![reg.slot] = FreeHandler]
  /\ UNCHANGED <<row, issued, held, policy, request, appVars, confirmed, overtaken,
                 faults>>

\* A SetKV that keeps a value that is there.
StoredOnce(old, token) == IF old = 0 THEN token ELSE old
\* SetKV: an upsert.
StoredToken(old, token) == token

\* SetKV of the token; Register returns nil.
RegisterSaves ==
  /\ reg.pc = "save"
  /\ held' = StoredToken(held, reg.token)
  /\ reg' = NoCall
  /\ refused' = FALSE
  /\ confirmed' = TRUE
  /\ UNCHANGED <<serverVars, policy, request, rotations, overtaken, faults>>

\* 5xx.
RegisterFailed ==
  /\ reg.pc = "sending"
  /\ handler[reg.slot].pc = "failed"
  /\ reg' = Retried(reg)
  /\ handler' = [handler EXCEPT ![reg.slot] = FreeHandler]
  /\ UNCHANGED <<row, issued, held, policy, request, appVars, confirmed, overtaken,
                 faults>>

\* A network error, with the handler gone; a response cut short is an error of
\* the decoder, which is not retried.
RegisterLost ==
  /\ reg.pc = "sending"
  /\ Fault("lost")
  /\ \/ reg' = Retried(reg)
     \/ handler[reg.slot].pc = "answer" /\ reg' = NoCall
  /\ handler' = [handler EXCEPT ![reg.slot] = FreeHandler]
  /\ UNCHANGED <<row, issued, held, policy, request, appVars, confirmed, overtaken>>

\* A network error or a timeout, with the handler still to call CreateDevice.
RegisterAbandoned ==
  /\ reg.pc = "sending"
  /\ handler[reg.slot].pc = "create"
  /\ Fault("abandon")
  /\ reg' = Retried(reg)
  /\ UNCHANGED <<serverVars, held, policy, request, appVars, confirmed, overtaken>>

\* The context ends during a wait, or SetKV fails: Register returns the error.
RegisterEnds ==
  /\ \/ reg.pc = "waiting" /\ Fault("stop")
     \/ reg.pc = "save" /\ Fault("fail")
  /\ reg' = NoCall
  /\ UNCHANGED <<serverVars, held, policy, request, appVars, confirmed, overtaken>>

-----------------------------------------------------------------------------
(***************************************************************************)
(* handleRegisterDevice.                                                   *)
(***************************************************************************)

\* CreateDevice: insert, or rotate the token of the device's row.
Upserted(old, token) == token

\* newDeviceToken and CreateDevice.
CreateDevice(k) ==
  /\ handler[k].pc = "create"
  /\ issued' = issued + 1
  /\ row' = Upserted(row, issued')
  /\ handler' = [handler EXCEPT ![k] = [pc |-> "answer", token |-> issued']]
  /\ overtaken' = ~Awaited(k)
  /\ UNCHANGED <<held, policy, reg, request, appVars, confirmed, faults>>

\* CreateDevice fails; 500.
CreateFails(k) ==
  /\ handler[k].pc = "create"
  /\ Fault("error")
  /\ handler' = [handler EXCEPT ![k].pc = "failed"]
  /\ UNCHANGED <<row, issued, held, policy, reg, request, appVars, confirmed,
                 overtaken>>

\* A handler nobody waits for ends, before CreateDevice or after.
HandlerEnds(k) ==
  /\ handler[k].pc # "free"
  /\ ~Awaited(k)
  /\ handler' = [handler EXCEPT ![k] = FreeHandler]
  /\ UNCHANGED <<row, issued, held, policy, reg, request, appVars, confirmed,
                 overtaken, faults>>

-----------------------------------------------------------------------------
(***************************************************************************)
(* Sync: requireToken once, then requests that carry what it returned.     *)
(***************************************************************************)

SyncBegin ==
  /\ request.pc = "idle"
  /\ ~Needed
  /\ request' = Sent([NoCall EXCEPT !.token = held])
  /\ UNCHANGED <<serverVars, held, policy, reg, appVars, confirmed, overtaken, faults>>

\* A table that keeps the tokens it has rotated.
EverIssued(token) == token \in 1 .. issued
\* requireAuth looks the token up.
Admitted(token) == token = row

\* The request is served: Sync sends its next one, or returns.
SyncServed ==
  /\ request.pc = "sending"
  /\ Admitted(request.token)
  /\ request' \in {NoCall, [request EXCEPT !.attempt = 1]}
  /\ UNCHANGED <<serverVars, held, policy, reg, appVars, confirmed, overtaken, faults>>

\* 401, which is not retried: Sync returns it.
SyncRefused ==
  /\ request.pc = "sending"
  /\ ~Admitted(request.token)
  /\ request' = NoCall
  /\ refused' = TRUE
  /\ UNCHANGED <<serverVars, held, policy, reg, rotations, confirmed, overtaken, faults>>

\* A 5xx or a network error; or a response cut short, which is not retried.
SyncFailed ==
  /\ request.pc = "sending"
  /\ \/ (Fault("error") \/ Fault("lost")) /\ request' = Retried(request)
     \/ Admitted(request.token) /\ Fault("lost") /\ request' = NoCall
  /\ UNCHANGED <<serverVars, held, policy, reg, appVars, confirmed, overtaken>>

SyncRetries ==
  /\ request.pc = "waiting"
  /\ request' = Sent(request)
  /\ UNCHANGED <<serverVars, held, policy, reg, appVars, confirmed, overtaken, faults>>

\* The context ends during a wait.
SyncEnds ==
  /\ request.pc = "waiting"
  /\ Fault("stop")
  /\ request' = NoCall
  /\ UNCHANGED <<serverVars, held, policy, reg, appVars, confirmed, overtaken>>

-----------------------------------------------------------------------------
\* Close or the end of the process, and Open on the same database: calls are
\* gone, and so is what the application remembered.
Stop ==
  /\ Fault(IF \E k \in Slot : Awaited(k) /\ handler[k].pc = "create"
           THEN "abandon" ELSE "stop")
  /\ reg' = NoCall /\ request' = NoCall
  /\ refused' = FALSE
  /\ UNCHANGED <<serverVars, held, policy, rotations, confirmed, overtaken>>

RegisterStep == \/ RegisterRetries \/ RegisterAnswered \/ RegisterSaves
                \/ RegisterFailed
SyncStep     == SyncBegin \/ SyncServed \/ SyncRefused \/ SyncRetries
HandlerStep(k) == CreateDevice(k) \/ HandlerEnds(k)
FaultStep == \/ RegisterLost \/ RegisterAbandoned \/ RegisterEnds
             \/ SyncFailed \/ SyncEnds \/ Stop
             \/ \E k \in Slot : CreateFails(k)

Next == \/ RegisterBegin \/ RegisterStep \/ SyncStep \/ FaultStep
        \/ \E k \in Slot : HandlerStep(k)

Spec == Init /\ [][Next]_vars

\* The application registers when it has to and calls Sync again and again;
\* goroutines are scheduled.
Fairness == /\ WF_vars(Needed /\ RegisterBegin) /\ WF_vars(RegisterStep)
            /\ WF_vars(SyncStep)
            /\ \A k \in Slot : WF_vars(HandlerStep(k))

FairSpec == Spec /\ Fairness

-----------------------------------------------------------------------------
\* The shape of every variable; no call sends more requests than its policy
\* allows, nor fewer than one (normalized, doJSON).
SessionTypeOK ==
  /\ row \in Token /\ issued \in Token /\ held \in Token
  /\ handler \in [Slot -> Handler]
  /\ policy \in Policies
  /\ \A call \in {reg, request} : call \in Call /\ call.attempt <= Normalized(policy).attempts
  /\ refused \in BOOLEAN /\ rotations \in 0 .. MaxRotations
  /\ confirmed \in BOOLEAN /\ overtaken \in BOOLEAN
  /\ faults \in 0 .. MaxFaults

\* A token that Register has returned is the server's until the next Register,
\* unless a request the client has given up gets to the database after all
\* (CreateDevice, SetKV): retries of their own do not leave the device with a
\* token that was replaced.
OnlyLateRotates == confirmed => held = row \/ overtaken

\* "It is safe to call again (e.g. after losing the response to a network
\* error)" (Register), "can safely retry" (CreateDevice): a Register that
\* returned nil leaves the device with the server's token.
RegisterSafeToRetry == confirmed => held = row

\* The longest wait before each retry is exactly BaseDelay * 2^n, capped at
\* MaxDelay: backoff's doubling never overflows a Duration on the way, whatever
\* the two delays are, and Int63n always has something to draw from.
ScheduleExact ==
  LET p == Normalized(policy) IN
  \A n \in 0 .. 7 :
    LET exact == p.base * 2^n IN
    /\ Longest(p, n) = IF exact > p.max THEN p.max ELSE exact
    /\ Draws(p, n) # {}

\* However registrations fail, overtake one another or are replaced, the device
\* ends up with the server's token for good, and Sync is admitted.
AdmittedForGood == <>[](held # 0 /\ held = row)

=============================================================================
