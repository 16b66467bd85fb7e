------------------------------ MODULE Gateway ------------------------------
(***************************************************************************)
(* A request on its way from an HTTP client through the API gateway to an  *)
(* instance of the auth service and back: the middleware that introspects  *)
(* access tokens, the interceptor that checks them again, what signing and *)
(* logging out do to keys and tokens, and the table by which the gateway   *)
(* turns the codes of gRPC into the statuses of HTTP.                      *)
(*                                                                         *)
(* What the other handlers do to the database is the subject of AuthCodes  *)
(* and AuthSessions; here each of them answers with any code it can.       *)
(***************************************************************************)
EXTENDS AccessTokens

CONSTANTS
    Requests,   \* clients, one request at a time each
    Calls       \* bound: the operations each client calls

Public == {"Register", "Login", "Refresh", "RequestPasswordReset",
           "ConfirmPasswordReset", "GetJwks", "ConfirmEmailVerification"}
Protected == {"Logout", "LogoutAll", "RequestEmailVerification"}
Signing == {"Login", "Refresh"}
NoBody == {"GetJwks", "RequestEmailVerification"}

ASSUME CallsAssumption == Calls \in [Requests -> SUBSET (Public \cup Protected)]
ASSUME NoneAssumption == None \notin Instances \cup Tokens

VARIABLE
    req         \* the request of each client

vars == <<keyVars, tokenVars, req>>

(* The codes with which each handler of the auth service answers.          *)
(* Internal is also Unavailable, and every other code of a call that       *)
(* failed: no handler of the gateway tells them apart.                     *)
RegisterCodes == {"OK", "InvalidArgument", "AlreadyExists", "Internal"}
LoginCodes == {"OK", "InvalidArgument", "NotFound", "Unauthenticated", "Internal"}
RefreshCodes == {"OK", "InvalidArgument", "NotFound", "Unauthenticated", "Internal"}
LogoutCodes == {"OK", "InvalidArgument", "NotFound", "Internal"}
LogoutAllCodes == {"OK", "InvalidArgument", "Internal"}
GetJwksCodes == {"OK", "Internal"}
RequestPasswordResetCodes == {"OK", "NotFound", "ResourceExhausted", "Internal"}
ConfirmPasswordResetCodes == {"OK", "InvalidArgument", "NotFound", "Internal"}
RequestEmailVerificationCodes ==
    {"OK", "NotFound", "FailedPrecondition", "ResourceExhausted", "Internal"}
ConfirmEmailVerificationCodes == {"OK", "InvalidArgument", "NotFound", "Internal"}

AnswersOf ==
    [Register |-> RegisterCodes, Login |-> LoginCodes, Refresh |-> RefreshCodes,
     Logout |-> LogoutCodes, LogoutAll |-> LogoutAllCodes, GetJwks |-> GetJwksCodes,
     RequestPasswordReset |-> RequestPasswordResetCodes,
     ConfirmPasswordReset |-> ConfirmPasswordResetCodes,
     RequestEmailVerification |-> RequestEmailVerificationCodes,
     ConfirmEmailVerification |-> ConfirmEmailVerificationCodes]

(* Handlers that answer Internal although nothing failed: a unique index   *)
(* refuses the row, the password is too long to hash, or the look-up of a  *)
(* refresh token that is not there is taken for a failure of it.           *)
FailAlone == {"Register", "ConfirmPasswordReset", "Refresh", "Logout"}

(* The codes each handler of the gateway tells apart; any other is a 500.  *)
RegisterCases == {"InvalidArgument", "AlreadyExists"}
LoginCases == {"InvalidArgument", "NotFound", "Unauthenticated"}
RefreshCases == {"InvalidArgument", "NotFound", "Unauthenticated"}
LogoutCases == {"InvalidArgument", "NotFound"}
RequestPasswordResetCases == {"NotFound", "ResourceExhausted"}
ConfirmPasswordResetCases == {"NotFound", "InvalidArgument"}
RequestEmailVerificationCases == {"NotFound", "FailedPrecondition", "ResourceExhausted"}
ConfirmEmailVerificationCases == {"InvalidArgument", "NotFound"}

CasesOf ==
    [Register |-> RegisterCases, Login |-> LoginCases, Refresh |-> RefreshCases,
     Logout |-> LogoutCases, LogoutAll |-> LogoutCases, GetJwks |-> {},
     RequestPasswordReset |-> RequestPasswordResetCases,
     ConfirmPasswordReset |-> ConfirmPasswordResetCases,
     RequestEmailVerification |-> RequestEmailVerificationCases,
     ConfirmEmailVerification |-> ConfirmEmailVerificationCases]

StatusOf == [OK |-> 200, InvalidArgument |-> 400, Unauthenticated |-> 401, NotFound |-> 404,
             AlreadyExists |-> 409, FailedPrecondition |-> 409, ResourceExhausted |-> 429]
Codes == DOMAIN StatusOf \cup {"none", "Internal"}
Statuses == {200, 400, 401, 404, 409, 429, 500}

(* The bodies of the answer: the default case of Refresh falls out of its  *)
(* switch and writes a second one.  Mutant: it falls on, to the success.   *)
FallsOn(op, code) ==
    IF code = "OK" \/ code \in CasesOf[op] THEN <<StatusOf[code]>>
    ELSE IF op = "Refresh" THEN <<500, 200>> ELSE <<500>>
Written(op, code) ==
    IF code = "OK" \/ code \in CasesOf[op] THEN <<StatusOf[code]>>
    ELSE IF op = "Refresh" THEN <<500, 500>> ELSE <<500>>

Bodies == {<<>>} \cup {<<s>> : s \in Statuses} \cup {<<500, s>> : s \in Statuses}
Steps == {"idle", "introspect", "call", "handle", "sign", "ensure", "answered"}
Request == [op : Public \cup Protected, tok : Tokens \cup {None}, pc : Steps,
            inst : Instances \cup {None}, code : Codes, fault : BOOLEAN, bodies : Bodies]

Init ==
    /\ KeysInit
    /\ TokensInit
    /\ req = [r \in Requests |-> [op |-> "GetJwks", tok |-> None, pc |-> "idle", inst |-> None,
                                  code |-> "none", fault |-> FALSE, bodies |-> <<>>]]

At(r, pc) == req[r].pc = pc
To(r, pc) == req' = [req EXCEPT ![r].pc = pc]

(* The answer of the gateway, which ends the request: of its own, or to    *)
(* what the auth service answered.  fault is history: something failed,    *)
(* and that may be why the request was refused.                            *)
AnswerOf(q, code, bodies, fault) ==
    [op |-> q.op, tok |-> q.tok, pc |-> "answered", inst |-> None,
     code |-> code, bodies |-> bodies,
     fault |-> (q.fault \/ fault) /\ code \in {"Unauthenticated", "Internal"}]
Answer(r, code, bodies, fault) ==
    req' = [req EXCEPT ![r] = AnswerOf(req[r], code, bodies, fault)]
Failed(q) == AnswerOf(q, "Internal", Written(q.op, "Internal"), TRUE)
Reply(r, code, fault) == Answer(r, code, Written(req[r].op, code), fault)


-----------------------------------------------------------------------------
(* A request comes in; a protected one bears a token that the auth service *)
(* signed, or something else.                                              *)
Receive(r, op, t) ==
    /\ req[r].pc \in {"idle", "answered"}
    /\ op \in Calls[r]
    /\ t # None => op \in Protected /\ Issued(t)
    /\ req' = [req EXCEPT ![r] =
          [op |-> op, tok |-> t, pc |-> IF op \in Protected THEN "introspect" ELSE "call",
           inst |-> None, code |-> "none", fault |-> FALSE, bodies |-> <<>>]]
    /\ UNCHANGED <<keyVars, tokenVars>>

(* A token passes with Redis, or because Redis cannot be asked.            *)
Passes(r, noRedis) ==
    /\ req[r].tok # None
    /\ Validates(req[r].tok, noRedis)
    /\ noRedis => Blacklisted(req[r].tok)

(* AuthRequired: what Introspect says, or that it could not be asked.      *)
AuthRequired(r) ==
    /\ At(r, "introspect")
    /\ \/ \E noRedis \in BOOLEAN :
             /\ Passes(r, noRedis)
             /\ req' = [req EXCEPT ![r].pc = "call", ![r].fault = @ \/ noRedis]
       \/ ~Passes(r, FALSE) /\ Answer(r, "Unauthenticated", <<401>>, FALSE)
       \/ Answer(r, "Unauthenticated", <<401>>, TRUE)
    /\ UNCHANGED <<keyVars, tokenVars>>

(* The body of the request does not bind, or a logout names no target.     *)
BadRequest(r) ==
    /\ At(r, "call")
    /\ req[r].op \notin NoBody
    /\ Answer(r, "InvalidArgument", <<400>>, FALSE)
    /\ UNCHANGED <<keyVars, tokenVars>>

(* The call reaches an instance, whose interceptor checks the token again  *)
(* and lets calls of public methods through.                               *)
Interceptor(r) ==
    /\ At(r, "call")
    /\ req[r].op \in Protected
    /\ \/ \E noRedis \in BOOLEAN :
             /\ Passes(r, noRedis)
             /\ req' = [req EXCEPT ![r].pc = "handle", ![r].fault = @ \/ noRedis]
       \/ ~Passes(r, FALSE) /\ Reply(r, "Unauthenticated", FALSE)
       \/ Reply(r, "Unauthenticated", TRUE)
    /\ UNCHANGED <<keyVars, tokenVars>>

(* No instance can be reached, the one that handles the call dies, or the  *)
(* answer is lost: up to its end a call may fail like this.                *)
CallFails(r) ==
    /\ req[r].pc \in {"call", "handle", "sign"}
    /\ req' = [req EXCEPT ![r] = Failed(req[r])]
    /\ UNCHANGED <<keyVars, tokenVars>>

Handling(r) == At(r, "handle") \/ (At(r, "call") /\ req[r].op \in Public)

(* The handler answers, or goes on to sign an access token.                *)
Handle(r) ==
    /\ Handling(r)
    /\ LET op == req[r].op IN
       \/ \E i \in Instances :
             op \in Signing /\ req' = [req EXCEPT ![r].pc = "sign", ![r].inst = i]
       \/ \E code \in AnswersOf[op] :
             /\ op \in Signing \cup {"Logout"} => code # "OK"
             /\ Reply(r, code, code = "Internal" /\ op \notin FailAlone)
    /\ UNCHANGED <<keyVars, tokenVars>>

(* LogoutWithAccessToken: the refresh token is there, and the access token *)
(* goes on the blacklist, unless Redis fails; then the refresh token is    *)
(* revoked, if that succeeds and it still was not.                         *)
LogoutWithAccessToken(r) ==
    /\ Handling(r)
    /\ req[r].op = "Logout"
    /\ \E code \in {"OK", "NotFound", "Internal"} :
          \/ BlacklistToken(req[r].tok) /\ Reply(r, code, code = "Internal")
          \/ UNCHANGED tokenVars /\ Reply(r, code, TRUE)
    /\ UNCHANGED keyVars

(* SignAccess: ensureActiveKey first, which takes the active key, or holds *)
(* the mutex to make one.                                                  *)
Ensure(r) ==
    /\ At(r, "sign")
    /\ \/ Load(req[r].inst) /\ UNCHANGED req
       \/ Generate(req[r].inst) /\ To(r, "ensure")
    /\ UNCHANGED tokenVars

(* GetActive fails, and a key is made nonetheless.                         *)
GetActiveFails(r) ==
    /\ At(r, "sign")
    /\ GenerateAnyway(req[r].inst)
    /\ req' = [req EXCEPT ![r].pc = "ensure", ![r].fault = TRUE]
    /\ UNCHANGED tokenVars

EnsureStep(r) ==
    /\ At(r, "ensure")
    /\ LET i == req[r].inst IN
       \/ (Create(i) \/ Snapshot(i) \/ Clear(i)) /\ UNCHANGED req
       \/ Commit(i) /\ To(r, "sign")
    /\ UNCHANGED tokenVars

EnsureError(r) ==
    /\ At(r, "ensure")
    /\ EnsureFails(req[r].inst)
    /\ Reply(r, "Internal", TRUE)
    /\ UNCHANGED tokenVars

(* The token is one of Tokens, or another whose fate nobody follows; the   *)
(* refresh token and its session are saved, or that fails.                 *)
Sign(r) ==
    /\ At(r, "sign")
    /\ active[req[r].inst] # None
    /\ \/ \E t \in Tokens : SignAccess(req[r].inst, t)
       \/ UNCHANGED tokenVars
    /\ \E code \in {"OK", "Internal"} : Reply(r, code, code = "Internal")
    /\ UNCHANGED keyVars

(* A process of the auth service dies, and with it the calls that sign.    *)
Crash(i) ==
    /\ Restart(i)
    /\ req' = [r \in Requests |-> IF req[r].inst = i THEN Failed(req[r]) ELSE req[r]]
    /\ UNCHANGED tokenVars

Clock == Tick /\ UNCHANGED <<keyVars, req>>

-----------------------------------------------------------------------------
Progress(r) ==
    \/ AuthRequired(r)
    \/ Interceptor(r)
    \/ Handle(r)
    \/ EnsureStep(r)
    \/ Sign(r)
    \/ LogoutWithAccessToken(r)

Next ==
    \/ \E r \in Requests :
          \/ \E op \in Public \cup Protected, t \in Tokens \cup {None} : Receive(r, op, t)
          \/ BadRequest(r)
          \/ CallFails(r)
          \/ Ensure(r)
          \/ GetActiveFails(r)
          \/ EnsureError(r)
          \/ Progress(r)
    \/ \E i \in Instances : Crash(i)
    \/ Clock

Spec == Init /\ [][Next]_vars

(* Every goroutine gets to run, and waiters of an RWMutex take turns.      *)
Fairness == \A r \in Requests : WF_vars(Progress(r)) /\ SF_vars(Ensure(r))

FairSpec == Spec /\ Fairness

-----------------------------------------------------------------------------
(* Besides the types: the mutex of an instance is held by one request, that *)
(* is there to let it go.                                                  *)
MutexHeld ==
    /\ \A i \in Instances :
          gen[i].step # "off" <=> \E r \in Requests : At(r, "ensure") /\ req[r].inst = i
    /\ \A r, s \in Requests : At(r, "ensure") /\ At(s, "ensure") /\ req[r].inst = req[s].inst => r = s

AccessTypeOK ==
    /\ KeysTypeOK
    /\ TokensTypeOK
    /\ req \in [Requests -> Request]
    /\ \A r \in Requests : req[r].pc \in {"sign", "ensure"} <=> req[r].inst # None
    /\ MutexHeld

(* A token with time left that nobody logged out is refused only when      *)
(* something failed: not because the key it was signed with has been       *)
(* replaced, nor by an instance that did not sign it or was started again  *)
(* (jwt_rsa.go:228-307, middleware/auth.go:38-45, interceptor.go:71-74).   *)
NoFalseRefusal ==
    \A r \in Requests :
        LET q == req[r] IN
        q.op \in Protected /\ q.code = "Unauthenticated" /\ ~q.fault /\ q.tok # None
            => ~Live(q.tok) \/ q.tok \in out

(* What the client is told is so: 200, and no other status, when the auth  *)
(* service answered OK, one answer unless a Refresh failed, and then the   *)
(* second says the same; and 500 only after a failure, when the token ran  *)
(* out between the middleware and the interceptor, or from the handlers    *)
(* that answer Internal for less (auth_handler.go:42-471).                 *)
AnswersAreTrue ==
    \A r \in Requests : At(r, "answered") =>
        LET q == req[r] IN
        /\ 200 \in {q.bodies[n] : n \in DOMAIN q.bodies} <=> q.code = "OK"
        /\ q.bodies = <<500, 500>> \/ \E s \in Statuses : q.bodies = <<s>>
        /\ q.bodies = <<500, 500>> => q.op = "Refresh" /\ q.code = "Internal"
        /\ q.bodies = <<500>> /\ ~q.fault =>
              \/ q.op \in FailAlone
              \/ q.op \in Protected /\ (~Live(q.tok) \/ q.tok \in out)

(* Once a logout has put a token on the blacklist, neither the middleware  *)
(* nor the interceptor lets it pass while Redis answers, until the token   *)
(* has expired and ever after (jwt_rsa.go:296-300, 366-393).               *)
LoggedOutIsRefused ==
    [][\A r \in Requests :
          LET passed == (At(r, "introspect") /\ req'[r].pc = "call")
                            \/ (At(r, "call") /\ req[r].op \in Protected /\ req'[r].pc = "handle")
          IN  passed /\ req[r].tok \in out => req'[r].fault]_vars

(* Every request that comes in is answered, however many wait for the      *)
(* mutex of one instance or for the rows of jwk_keys                       *)
(* (jwt_rsa.go:72-115, jwk_repo.go:61-81).                                 *)
EveryRequestIsAnswered ==
    \A r \in Requests : ~At(r, "idle") ~> At(r, "answered")
=============================================================================
