------------------------------ MODULE AuthCodes ------------------------------
(***************************************************************************)
(* Registration, password reset and verification of the email address in   *)
(* the auth service: the users, the one-time codes mailed to them, and the *)
(* rate limits in Redis.  Nothing here is a transaction: an action is one  *)
(* statement or one Redis command of a call, with what the call does       *)
(* before the next one.  SendEmail, the last step of a request, changes    *)
(* nothing here: see EmailProducer.                                        *)
(*                                                                         *)
(* Of the logins of AuthSessions the module keeps what a password reset is *)
(* about: whether a refresh token that is accepted was obtained with the   *)
(* password the user has now or with an older one.                         *)
(***************************************************************************)
EXTENDS Integers

CONSTANTS
    Users,      \* accounts: lower(email)
    Emails,     \* addresses as callers spell them
    Account,    \* ... and the account of each
    Codes,      \* row ids of password_reset_tokens and email_verifications
    Calls,      \* handler goroutines that may run at once
    None,
    Cooldown,   \* a minute: life of a rate-limit key
    Hour,       \* life of a password reset code
    Day,        \* life of a verification code, and of what was consumed
    MaxTime     \* bound: the last tick of the clock

Kinds == {"reset", "verify"}
Times == 0 .. MaxTime

(* Keys of the rate limiter: pwd_reset:<address>, email_ver:<user>.        *)
Keys == ({"reset"} \X Emails) \cup ({"verify"} \X Users)
Passwords == {"current", "old"}

ASSUME AccountAssumption == Account \in [Emails -> Users]
ASSUME NoneAssumption == None \notin Keys \cup Users \cup Codes
ASSUME TimeAssumption ==
    /\ Cooldown \in Nat \ {0} /\ Hour \in Nat \ {0} /\ Day \in Nat \ {0}
    /\ MaxTime \in Nat

VARIABLES
    users,      \* "none", "unverified" or "verified"
    code,       \* the rows of the two tables of codes
    limit,      \* rate-limit keys: when each expires, 0 if it is not there
    logins,     \* passwords of which the user has an accepted refresh token
    call,       \* each handler's locals and place in the code
    now,        \* the clock
    unlimited,  \* history: keys whose limit was not kept, see CutOff
    past,       \* history: what became of each code, see Use and Share
    leftover    \* history: users whose old logins a reset did not get at

history == <<unlimited, past, leftover>>
codesVars == <<users, code, limit, logins, call, now, history>>

(* A row; "key", the limit it was issued under, and "created" are kept     *)
(* when the row is deleted.                                                *)
Row == [state : {"none", "fresh", "consumed", "deleted"}, kind : Kinds,
        user : Users \cup {None}, key : Keys \cup {None}, created : Times,
        expires : 0 .. (MaxTime + Hour + Day)]
NoRow == [state |-> "none", kind |-> "reset", user |-> None, key |-> None,
          created |-> 0, expires |-> 0]

Steps == {"idle", "insert", "limit", "apply", "consume", "revoke",
          "purge", "login"}
Call == [pc : Steps, kind : Kinds, key : Keys \cup {None}, user : Users \cup {None},
         row : Codes \cup {None}, pw : Passwords]
At(step, kind, key, u, r, pw) ==
    [pc |-> step, kind |-> kind, key |-> key, user |-> u, row |-> r, pw |-> pw]
Idle == At("idle", "reset", None, None, None, "current")

CodesInit ==
    /\ users = [u \in Users |-> "none"]
    /\ code = [r \in Codes |-> NoRow]
    /\ limit = [k \in Keys |-> 0]
    /\ logins = [u \in Users |-> {}]
    /\ call = [c \in Calls |-> Idle]
    /\ now = 0
    /\ unlimited = {}
    /\ past = [r \in Codes |-> "new"]
    /\ leftover = {}

Goto(c, step) == call' = [call EXCEPT ![c].pc = step]
Return(c) == call' = [call EXCEPT ![c] = Idle]

(* Repositories: the rows a SELECT, UPDATE or DELETE finds.  Mutant: the   *)
(* time of expiry is not compared.                                         *)
ValidUntilUsed(r) == code[r].state = "fresh"
Valid(r) == code[r].state = "fresh" /\ code[r].expires > now
Stored(r) == code[r].state \in {"fresh", "consumed"}
Consumed(row) == [row EXCEPT !.state = "consumed"]
Deleted(row) ==
    [row EXCEPT !.state = "deleted", !.kind = "reset", !.user = None, !.expires = 0]
Delete(S) == code' = [r \in Codes |-> IF r \in S THEN Deleted(code[r]) ELSE code[r]]

(* History of a code: it took effect, for the first time or again; two     *)
(* calls held it at a time, or it was left to be used again.               *)
Use(r) == past' = [past EXCEPT ![r] =
    CASE @ = "new" -> "used" [] @ = "used" -> "reused" [] OTHER -> @]
Share(S) == past' = [r \in Codes |->
    IF r \in S /\ past[r] # "reused" THEN "shared" ELSE past[r]]

-----------------------------------------------------------------------------
(* Calls that end before they are through.                                 *)

Using(c) == call[c].pc \in {"apply", "consume", "revoke", "purge"}
Unconsumed(c) == /\ call[c].pc \in {"consume", "revoke", "purge"}
                 /\ code[call[c].row].state = "fresh"
MustRevoke(c) == call[c].kind = "reset" /\ call[c].pc \in {"consume", "revoke"}

(* The calls in S leave at once.  What they have written stays, and        *)
(* history notes what they have not: a rate limit, the end of a code, the  *)
(* end of the old logins.                                                  *)
CutOff(S) ==
    /\ call' = [c \in Calls |-> IF c \in S THEN Idle ELSE call[c]]
    /\ unlimited' = unlimited \cup {call[c].key : c \in {x \in S : call[x].pc = "limit"}}
    /\ Share({call[c].row : c \in {x \in S : Unconsumed(x)}})
    /\ leftover' = leftover \cup {call[c].user : c \in {x \in S : MustRevoke(x)}}
    /\ UNCHANGED <<users, code, limit, logins, now>>

(* A statement fails with an error the call returns, or its context is     *)
(* cancelled.                                                              *)
Abort(c) == call[c].pc # "idle" /\ CutOff({c})

(* The process dies with all its calls.                                    *)
ProcessDies == CutOff(Calls)

-----------------------------------------------------------------------------
(* Requests.                                                               *)

(* CheckRateLimit may fail, which lets the request pass.                   *)
Limiting(c, k) == call[c].key = k /\ call[c].pc \in {"insert", "limit"}

CheckLimit(c, k, kind, u) ==
    /\ call[c].pc = "idle"
    /\ \E failed \in BOOLEAN :
          /\ failed \/ limit[k] = 0
          /\ unlimited' = IF failed \/ \E x \in Calls : Limiting(x, k)
                          THEN unlimited \cup {k} ELSE unlimited
    /\ call' = [call EXCEPT ![c] = At("insert", kind, k, u, None, "current")]
    /\ UNCHANGED <<users, code, limit, logins, now, past, leftover>>

RequestPasswordReset(c, e) == CheckLimit(c, <<"reset", e>>, "reset", Account[e])

(* The interceptor has put the user of an access token into the context.   *)
(* The user is read after the limit and refused if verified; verified      *)
(* users stay so, hence the look is taken at once.                         *)
RequestEmailVerification(c, u) ==
    /\ users[u] = "unverified"
    /\ CheckLimit(c, <<"verify", u>>, "verify", u)

(* GetByEmail answers an unknown address with neither a user nor an error, *)
(* and RequestPasswordReset dereferences it: nothing recovers the panic.   *)
FindNoUser(c) ==
    /\ call[c].pc = "insert"
    /\ users[call[c].user] = "none"
    /\ ProcessDies

(* Register: ExistsByEmail and the insert of the user, which the unique    *)
(* index on lower(email) refuses when another call was faster.             *)
Register(c, e) ==
    /\ call[c].pc = "idle"
    /\ users[Account[e]] = "none"
    /\ users' = [users EXCEPT ![Account[e]] = "unverified"]
    /\ call' = [call EXCEPT ![c] =
          At("insert", "verify", None, Account[e], None, "current")]
    /\ UNCHANGED <<code, limit, logins, now, history>>

Life(kind) == IF kind = "reset" THEN Hour ELSE Day

(* Create.  The code of a registration has no rate limit.                  *)
NewRow(k) == [state |-> "fresh", kind |-> k.kind, user |-> k.user, key |-> k.key,
              created |-> now, expires |-> now + Life(k.kind)]

InsertCode(c) ==
    /\ call[c].pc = "insert"
    /\ users[call[c].user] # "none"
    /\ \E r \in Codes :
          /\ code[r].state = "none"
          /\ code' = [code EXCEPT ![r] = NewRow(call[c])]
    /\ IF call[c].key = None THEN Return(c) ELSE Goto(c, "limit")
    /\ UNCHANGED <<users, limit, logins, now, history>>

(* SetRateLimit.  Mutants: the key lives a tick less, or twice as long.    *)
SetLimitShort(k) == limit' = [limit EXCEPT ![k] = now + Cooldown - 1]
SetLimitLong(k) == limit' = [limit EXCEPT ![k] = now + Cooldown + Cooldown]
SetLimit(k) == limit' = [limit EXCEPT ![k] = now + Cooldown]

LimitRate(c) ==
    /\ call[c].pc = "limit"
    /\ SetLimit(call[c].key)
    /\ Return(c)
    /\ UNCHANGED <<users, code, logins, now, history>>

(* It fails, which is logged: no key is set.                               *)
SkipLimitRate(c) ==
    /\ call[c].pc = "limit"
    /\ unlimited' = unlimited \cup {call[c].key}
    /\ Return(c)
    /\ UNCHANGED <<users, code, limit, logins, now, past, leftover>>

-----------------------------------------------------------------------------
(* Confirmation.                                                           *)

(* GetValidByHash.  Two rows may have one code, and either may be found.   *)
Confirm(c, r) ==
    /\ call[c].pc = "idle"
    /\ Valid(r)
    /\ call' = [call EXCEPT ![c] =
          At("apply", code[r].kind, None, code[r].user, r, "current")]
    /\ Share({r} \cap {call[x].row : x \in {y \in Calls : Using(y)}})
    /\ UNCHANGED <<users, code, limit, logins, now, unlimited, leftover>>

(* What was obtained with the password of before now is obtained with an   *)
(* old one: the refresh tokens, and those a call is about to insert.       *)
UpdatePassword(c) ==
    /\ call[c].pc = "apply" /\ call[c].kind = "reset"
    /\ Use(call[c].row)
    /\ logins' = [logins EXCEPT ![call[c].user] = {"old" : p \in @}]
    /\ call' = [x \in Calls |->
          IF x = c THEN [call[x] EXCEPT !.pc = "consume"]
          ELSE IF call[x].pc = "login" /\ call[x].user = call[c].user
               THEN [call[x] EXCEPT !.pw = "old"] ELSE call[x]]
    /\ UNCHANGED <<users, code, limit, now, unlimited, leftover>>

UpdateIsEmailVerified(c) ==
    /\ call[c].pc = "apply" /\ call[c].kind = "verify"
    /\ Use(call[c].row)
    /\ users' = [users EXCEPT ![call[c].user] = "verified"]
    /\ Goto(c, "consume")
    /\ UNCHANGED <<code, limit, logins, now, unlimited, leftover>>

(* Consume; an error is logged and the call goes on, to its end if it      *)
(* verified an address.  Mutant: the flag is set only in the copy the call *)
(* holds.                                                                  *)
KeepFresh(r) == UNCHANGED code
ConsumeRow(r) ==
    code' = [code EXCEPT ![r] = IF @.state = "fresh" THEN Consumed(@) ELSE @]
AfterConsume(c) == IF call[c].kind = "reset" THEN Goto(c, "revoke") ELSE Return(c)

Consume(c) ==
    /\ call[c].pc = "consume"
    /\ ConsumeRow(call[c].row)
    /\ AfterConsume(c)
    /\ UNCHANGED <<users, limit, logins, now, history>>

SkipConsume(c) ==
    /\ call[c].pc = "consume"
    /\ AfterConsume(c)
    /\ Share({call[x].row : x \in {y \in {c} : Unconsumed(y) /\ call[y].kind = "verify"}})
    /\ UNCHANGED <<users, code, limit, logins, now, unlimited, leftover>>

LoggingIn(u, pw) == \E x \in Calls :
    call[x].pc = "login" /\ call[x].user = u /\ call[x].pw = pw

(* refresh.RevokeAll, and the sessions with it.  A login or refresh that   *)
(* is about to insert a token is not reached.  Mutant: only the tokens of  *)
(* the current password go.                                                *)
KeepOld(u) == logins' = [logins EXCEPT ![u] = @ \ {"current"}]
RevokeTokens(u) == logins' = [logins EXCEPT ![u] = {}]

RevokeAll(c) ==
    /\ call[c].pc = "revoke"
    /\ RevokeTokens(call[c].user)
    /\ leftover' = IF LoggingIn(call[c].user, "old")
                   THEN leftover \cup {call[c].user} ELSE leftover
    /\ Goto(c, "purge")
    /\ UNCHANGED <<users, code, limit, now, unlimited, past>>

(* It fails, which is logged.                                              *)
SkipRevokeAll(c) ==
    /\ call[c].pc = "revoke"
    /\ leftover' = leftover \cup {call[c].user}
    /\ Goto(c, "purge")
    /\ UNCHANGED <<users, code, limit, logins, now, unlimited, past>>

(* DeleteAllForUser, also of codes that were requested since.  Mutant: of  *)
(* both tables.                                                            *)
AllCodesOf(u) == {r \in Codes : Stored(r) /\ code[r].user = u}
ResetCodesOf(u) == {r \in Codes : Stored(r) /\ code[r].kind = "reset" /\ code[r].user = u}

Purge(c) ==
    /\ call[c].pc = "purge"
    /\ Delete(ResetCodesOf(call[c].user))
    /\ Return(c)
    /\ UNCHANGED <<users, limit, logins, now, history>>

SkipPurge(c) == call[c].pc = "purge" /\ CutOff({c})

-----------------------------------------------------------------------------
(* Login and Refresh (module AuthSessions), as far as a reset is about     *)
(* them: a call has seen the right password, or a live token, and inserts  *)
(* a token later.  Refresh may have revoked the last token of its kind.    *)
StartLogin(c, u) ==
    /\ call[c].pc = "idle" /\ users[u] # "none"
    /\ call' = [call EXCEPT ![c] = At("login", "reset", None, u, None, "current")]
    /\ UNCHANGED <<users, code, limit, logins, now, history>>

StartRefresh(c, u, pw) ==
    /\ call[c].pc = "idle" /\ pw \in logins[u]
    /\ call' = [call EXCEPT ![c] = At("login", "reset", None, u, None, pw)]
    /\ \E left \in {logins[u], logins[u] \ {pw}} : logins' = [logins EXCEPT ![u] = left]
    /\ UNCHANGED <<users, code, limit, now, history>>

InsertToken(c) ==
    /\ call[c].pc = "login"
    /\ logins' = [logins EXCEPT ![call[c].user] = @ \cup {call[c].pw}]
    /\ Return(c)
    /\ UNCHANGED <<users, code, limit, now, history>>

-----------------------------------------------------------------------------
(* The cleanup jobs, one DELETE each, and the clock.                       *)

(* expires_at < now.                                                       *)
Expired == {r \in Codes : Stored(r) /\ code[r].expires < now}
(* consumed = true AND created_at < now - 24h.                             *)
LongConsumed == {r \in Codes : code[r].state = "consumed" /\ code[r].created < now - Day}

OfKind(S, kind) == {r \in S : code[r].kind = kind}

CleanupExpiredTokens(kind) ==
    /\ Delete(OfKind(Expired, kind))
    /\ UNCHANGED <<users, limit, logins, call, now, history>>

CleanupConsumedTokens(kind) ==
    /\ Delete(OfKind(LongConsumed, kind))
    /\ UNCHANGED <<users, limit, logins, call, now, history>>

(* Time passes, and Redis drops the keys whose time is over.               *)
Tick ==
    /\ now < MaxTime
    /\ now' = now + 1
    /\ limit' = [k \in Keys |-> IF limit[k] > now + 1 THEN limit[k] ELSE 0]
    /\ UNCHANGED <<users, code, logins, call, history>>

-----------------------------------------------------------------------------
Request(c) ==
    \/ \E e \in Emails : RequestPasswordReset(c, e) \/ Register(c, e)
    \/ \E u \in Users : RequestEmailVerification(c, u)
    \/ FindNoUser(c) \/ InsertCode(c) \/ LimitRate(c) \/ SkipLimitRate(c)

Confirmation(c) ==
    \/ \E r \in Codes : Confirm(c, r)
    \/ UpdatePassword(c) \/ UpdateIsEmailVerified(c)
    \/ Consume(c) \/ SkipConsume(c) \/ RevokeAll(c) \/ SkipRevokeAll(c)
    \/ Purge(c) \/ SkipPurge(c)

LogIn(c) ==
    \/ \E u \in Users : StartLogin(c, u)
    \/ \E u \in Users, pw \in Passwords : StartRefresh(c, u, pw)
    \/ InsertToken(c)

Cleanup == \E kind \in Kinds : CleanupExpiredTokens(kind) \/ CleanupConsumedTokens(kind)

CodesNext ==
    \/ \E c \in Calls : Request(c) \/ Confirmation(c) \/ LogIn(c) \/ Abort(c)
    \/ ProcessDies \/ Cleanup \/ Tick

CodesSpec == CodesInit /\ [][CodesNext]_codesVars

-----------------------------------------------------------------------------
(* Types of the rows, the handlers' locals and the history.                *)
CodesTypeOK ==
    /\ users \in [Users -> {"none", "unverified", "verified"}]
    /\ code \in [Codes -> Row]
    /\ limit \in [Keys -> 0 .. (MaxTime + Cooldown)]
    /\ logins \in [Users -> SUBSET Passwords]
    /\ call \in [Calls -> Call]
    /\ now \in Times
    /\ unlimited \subseteq Keys
    /\ past \in [Codes -> {"new", "used", "reused", "shared"}]
    /\ leftover \subseteq Users

(* Two codes requested for one address, or one user, are a minute apart    *)
(* (auth_service.go:351, :469), unless two such requests overlapped, one   *)
(* was cut off before it set the limit, or Redis failed it.                *)
CodesAreSpaced ==
    \A r, s \in Codes :
        /\ r # s
        /\ code[r].key # None /\ code[r].key = code[s].key
        /\ code[r].key \notin unlimited
        /\ code[r].created =< code[s].created
        => code[r].created + Cooldown =< code[s].created

(* A code changes a password, or verifies, once, unless two calls had it   *)
(* in hand at a time or the call that used it got no statement through     *)
(* that ends it (auth_service.go:441, :453, :616).                         *)
CodesWorkOnce == \A r \in Codes : past[r] # "reused"

(* After a password reset (auth_service.go:437-451) no token is accepted   *)
(* that was obtained with the password of before, except while the reset   *)
(* is under way, after a failed or missing revocation, or when a login or  *)
(* refresh was inserting a token at the time.                              *)
OldPasswordIsOut ==
    \A u \in Users :
        "old" \in logins[u] /\ u \notin leftover
            => \E c \in Calls : MustRevoke(c) /\ call[c].user = u

(* A code that is consumed, deleted or past its time, and that no call has *)
(* in hand, has no effect any more and never comes back                    *)
(* (password_reset_repo.go:38, email_verification_repo.go:34).             *)
Alive(r) == code[r].state = "fresh" /\ now < code[r].expires
InHand(r) == \E c \in Calls : Using(c) /\ call[c].row = r
Dead(r) == code[r].state # "none" /\ ~Alive(r) /\ ~InHand(r)
DeadCodesStayDead ==
    [][\A r \in Codes : Dead(r) => Dead(r)' /\ past'[r] = past[r]]_codesVars

(* What ends a code before its time is the call that consumes it or a      *)
(* completed reset of its user, and nothing else: no cleanup, no failed    *)
(* or repeated request (auth_service.go:453, cleanup.go:41, :113).         *)
CodesLiveTheirTime ==
    [][\A r \in Codes :
          Alive(r) /\ ~Alive(r)' =>
              \/ now' # now
              \/ \E c \in Calls : call[c].pc = "consume" /\ call[c].row = r
              \/ /\ code[r].kind = "reset"
                 /\ \E c \in Calls : call[c].pc = "purge" /\ call[c].user = code[r].user
      ]_codesVars

=============================================================================
