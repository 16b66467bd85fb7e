---------------------------- MODULE AccessTokens ----------------------------
(***************************************************************************)
(* Access tokens: signed with the key of an instance, verified by any      *)
(* other with the table of keys, and blacklisted in Redis at logout.       *)
(***************************************************************************)
EXTENDS SigningKeys

CONSTANTS
    Tokens,     \* the access tokens that are followed: their jti
    TTL,        \* life of a token
    MaxTime     \* bound: the last tick of the clock

ASSUME LifeAssumption == TTL \in Nat \ {0} /\ MaxTime \in Nat

VARIABLES
    token,      \* the claims of each token that was signed
    blacklist,  \* blacklist:<jti>: when the key expires, 0 if it is not there
    now,        \* the clock
    out         \* history: tokens that were put on the blacklist

tokenVars == <<token, blacklist, now, out>>

Moments == 0 .. MaxTime
Forever == MaxTime + 1
Claims == [kid : Kids \cup {None}, exp : Moments]

TokensInit ==
    /\ token = [t \in Tokens |-> [kid |-> None, exp |-> 0]]
    /\ blacklist = [t \in Tokens |-> 0]
    /\ now = 0
    /\ out = {}

Issued(t) == token[t].kid # None
Live(t) == Issued(t) /\ now < token[t].exp

(* SignAccess.  Bound: the token expires by MaxTime.                       *)
SignAccess(i, t) ==
    /\ now + TTL <= MaxTime
    /\ ~Issued(t)
    /\ token' = [token EXCEPT ![t] = [kid |-> active[i], exp |-> now + TTL]]
    /\ UNCHANGED <<blacklist, now, out>>

(* ParseAndValidateAccess.  Mutant: only tokens of an active key pass.     *)
KeyIsActive(t) == token[t].kid \in ActiveKeys
KeyIsKnown(t) == token[t].kid \in Kids /\ keys[token[t].kid] # "none"

Blacklisted(t) == blacklist[t] > now
Validates(t, noRedis) == Live(t) /\ KeyIsKnown(t) /\ (noRedis \/ ~Blacklisted(t))

(* BlacklistToken: for what is left of the token's life.  A key that Redis *)
(* is given for no time at all it keeps for ever.  Mutant: a tick less.    *)
UntilBefore(t) == IF token[t].exp - 1 > now THEN token[t].exp - 1 ELSE now
Until(t) == IF token[t].exp > now THEN token[t].exp ELSE Forever

BlacklistToken(t) ==
    /\ blacklist' = IF now > token[t].exp THEN blacklist
                    ELSE [blacklist EXCEPT ![t] = Until(t)]
    /\ out' = out \cup {t}
    /\ UNCHANGED <<token, now>>

(* Time passes, and Redis drops the keys whose time is over.               *)
Tick ==
    /\ now < MaxTime
    /\ now' = now + 1
    /\ blacklist' = [t \in Tokens |-> IF blacklist[t] > now + 1 THEN blacklist[t] ELSE 0]
    /\ UNCHANGED <<token, out>>

TokensTypeOK ==
    /\ token \in [Tokens -> Claims]
    /\ blacklist \in [Tokens -> Moments \cup {Forever}]
    /\ now \in 0 .. MaxTime
    /\ out \subseteq Tokens
=============================================================================
