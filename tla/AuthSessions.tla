---------------------------- MODULE AuthSessions ----------------------------
(***************************************************************************)
(* Sessions and refresh tokens of the auth service: the gRPC calls Login,  *)
(* Refresh, Logout and Logout(all), run by concurrent handler goroutines,  *)
(* and the jobs of the cleanup scheduler.  Nothing here is a transaction:  *)
(* every SQL statement of a call commits by itself, so a call is           *)
(* interleaved with the others, and may be cut off, between any two of its *)
(* statements.  One action is one statement.                               *)
(*                                                                         *)
(* Time is a clock of coarse ticks; a call carries the time it read.       *)
(***************************************************************************)
EXTENDS Integers

CONSTANTS
    Users,
    Tokens,     \* ids the database may generate for refresh_tokens
    Sessions,   \* ... and for user_sessions
    Calls,      \* handler goroutines that may run at once
    None,       \* "no token", "no session", "no user"
    TTL,        \* life of a refresh token (REFRESH_EXP), in ticks
    Age,        \* how long a session may go unseen (30 days)
    MaxTime     \* bound: the last tick of the clock

States == {"none", "live", "revoked", "deleted"}
Times == 0 .. MaxTime
Expiries == 0 .. (MaxTime + TTL)

(* A row of refresh_tokens; "parent", the token it was refreshed from, is  *)
(* history: no column holds it.                                            *)
Token == [state : States, user : Users \cup {None}, ses : Sessions \cup {None},
          expires : Expiries, parent : Tokens \cup {None}]
Session == [state : States, user : Users \cup {None}, lastSeen : Times]

(* What a handler has in its local variables.                              *)
Steps == {"idle", "session", "insert", "check", "read", "revoke", "touch",
          "logout", "still_active", "close", "revoke_sessions"}
Call == [pc : Steps, user : Users \cup {None}, tok : Tokens \cup {None},
         ses : Sessions \cup {None}, began : Times, expires : Expiries]

ASSUME NoneAssumption == None \notin Users \cup Tokens \cup Sessions
ASSUME TimeAssumption == TTL \in Nat \ {0} /\ Age \in Nat /\ MaxTime \in Nat
(* A token does not live longer than a session may go unseen.  Nothing     *)
(* checks it; the defaults are 7 and 30 days.                              *)
ASSUME AgeAssumption == TTL =< Age

VARIABLES
    tokens,     \* refresh_tokens
    sessions,   \* user_sessions
    call,       \* each handler's locals and place in the code
    now,        \* the clock
    disturbed   \* history: sessions that calls overlapped about, see Record

vars == <<tokens, sessions, call, now, disturbed>>

NoToken == [state |-> "none", user |-> None, ses |-> None, expires |-> 0,
            parent |-> None]
NoSession == [state |-> "none", user |-> None, lastSeen |-> 0]
Idle == [pc |-> "idle", user |-> None, tok |-> None, ses |-> None,
         began |-> 0, expires |-> 0]

Init ==
    /\ tokens = [t \in Tokens |-> NoToken]
    /\ sessions = [s \in Sessions |-> NoSession]
    /\ call = [c \in Calls |-> Idle]
    /\ now = 0
    /\ disturbed = {}

-----------------------------------------------------------------------------
(* WHERE clauses and updates of the repositories.                          *)

(* revoked = false AND expires_at > at                                     *)
ActiveAt(t, at) == tokens[t].state = "live" /\ tokens[t].expires > at

(* HasActiveBySession.                                                     *)
HasActive(s, at) == \E t \in Tokens : tokens[t].ses = s /\ ActiveAt(t, at)

Revoke(row) == IF row.state = "live" THEN [row EXCEPT !.state = "revoked"] ELSE row

(* UPDATE refresh_tokens SET revoked = true WHERE token_hash = t's AND     *)
(* revoked = false, and what the number of rows says.                      *)
RevokeToken(t) == tokens' = [tokens EXCEPT ![t] = Revoke(@)]

(* Whether a row is there for a DELETE to find, and the DELETE of those    *)
(* in S.                                                                   *)
Stored(row) == row.state \in {"live", "revoked"}
DeleteTokens(S) == tokens' = [t \in Tokens |->
    IF t \in S THEN [tokens[t] EXCEPT !.state = "deleted", !.expires = 0] ELSE tokens[t]]
DeleteSessions(S) == sessions' = [s \in Sessions |->
    IF s \in S THEN [sessions[s] EXCEPT !.state = "deleted", !.lastSeen = 0]
    ELSE sessions[s]]

Goto(c, step) == call' = [call EXCEPT ![c].pc = step]
Return(c) == call' = [call EXCEPT ![c] = Idle]

-----------------------------------------------------------------------------
(* Login: the user's row and the password are right; the expiry of the     *)
(* token to be and the times of the session are computed before the first  *)
(* statement.                                                              *)
StartLogin(c, u) ==
    /\ call[c].pc = "idle"
    /\ call' = [call EXCEPT ![c] =
          [Idle EXCEPT !.pc = "session", !.user = u, !.began = now,
                       !.expires = now + TTL]]
    /\ UNCHANGED <<tokens, sessions, now>>

CreateSession(c) ==
    /\ call[c].pc = "session"
    /\ \E s \in Sessions :
          /\ sessions[s].state = "none"
          /\ sessions' = [sessions EXCEPT ![s] =
                [state |-> "live", user |-> call[c].user, lastSeen |-> call[c].began]]
          /\ call' = [call EXCEPT ![c].pc = "insert", ![c].ses = s]
    /\ UNCHANGED <<tokens, now>>

(* The row that Login and Refresh insert last.  Mutant: the life of the    *)
(* token is added to an expiry that has it already.                        *)
LongLived(k) == [state |-> "live", user |-> k.user, ses |-> k.ses,
                 expires |-> k.expires + TTL, parent |-> k.tok]
NewToken(k) == [state |-> "live", user |-> k.user, ses |-> k.ses,
                expires |-> k.expires, parent |-> k.tok]

InsertToken(c) ==
    /\ call[c].pc = "insert"
    /\ \E t \in Tokens :
          /\ tokens[t].state = "none"
          /\ tokens' = [tokens EXCEPT ![t] = NewToken(call[c])]
    /\ Return(c)
    /\ UNCHANGED <<sessions, now>>

-----------------------------------------------------------------------------
(* Refresh.                                                                *)

StartRefresh(c, t) ==
    /\ call[c].pc = "idle"
    /\ tokens[t].state # "none"
    /\ call' = [call EXCEPT ![c] =
          [Idle EXCEPT !.pc = "check", !.tok = t, !.began = now]]
    /\ UNCHANGED <<tokens, sessions, now>>

(* IsActiveByHash, with the time read at the start of the call.            *)
CheckActive(c) ==
    /\ call[c].pc = "check"
    /\ IF ActiveAt(call[c].tok, call[c].began) THEN Goto(c, "read") ELSE Return(c)
    /\ UNCHANGED <<tokens, sessions, now>>

(* GetByHashOnly, and the user's row, which nothing deletes.  Mutant: any  *)
(* row with the hash is found, revoked or not.                             *)
FoundAnyway(t) == tokens[t].state \in {"live", "revoked"}
Found(t) == tokens[t].state = "live"

ReadToken(c) ==
    /\ call[c].pc = "read"
    /\ IF Found(call[c].tok)
       THEN call' = [call EXCEPT ![c].pc = "revoke",
                                 ![c].ses = tokens[call[c].tok].ses,
                                 ![c].user = tokens[call[c].tok].user]
       ELSE Return(c)
    /\ UNCHANGED <<tokens, sessions, now>>

(* RevokeByHashOnly; whether it revoked anything is not looked at.         *)
(* Mutant: the old token is not revoked.                                   *)
KeepOld(c) ==
    /\ call[c].pc = "revoke"
    /\ Goto(c, "touch")
    /\ UNCHANGED <<tokens, sessions, now>>
RevokeOld(c) ==
    /\ call[c].pc = "revoke"
    /\ RevokeToken(call[c].tok)
    /\ Goto(c, "touch")
    /\ UNCHANGED <<sessions, now>>

(* SignAccess and NewRefresh, which reads the clock, then the session's    *)
(* last_seen_at.  An error of that statement is ignored: SkipTouch.        *)
(* Mutant: last_seen_at is not written.                                    *)
LeaveUnseen(row, at) == row
Seen(row, at) ==
    IF row.state # "deleted" THEN [row EXCEPT !.lastSeen = at] ELSE row

TouchSession(c) ==
    /\ call[c].pc = "touch"
    /\ sessions' = [sessions EXCEPT ![call[c].ses] = Seen(@, call[c].began)]
    /\ call' = [call EXCEPT ![c].pc = "insert", ![c].expires = now + TTL]
    /\ UNCHANGED <<tokens, now>>

SkipTouch(c) ==
    /\ call[c].pc = "touch"
    /\ call' = [call EXCEPT ![c].pc = "insert", ![c].expires = now + TTL]
    /\ UNCHANGED <<tokens, sessions, now>>

-----------------------------------------------------------------------------
(* Logout.                                                                 *)

(* GetByHashOnly: an expired token that is still there will do.            *)
StartLogout(c, t) ==
    /\ call[c].pc = "idle"
    /\ tokens[t].state = "live"
    /\ call' = [call EXCEPT ![c] =
          [Idle EXCEPT !.pc = "logout", !.tok = t, !.ses = tokens[t].ses]]
    /\ UNCHANGED <<tokens, sessions, now>>

RevokeOwn(c) ==
    /\ call[c].pc = "logout"
    /\ RevokeToken(call[c].tok)
    /\ IF tokens[call[c].tok].state = "live" THEN Goto(c, "still_active") ELSE Return(c)
    /\ UNCHANGED <<sessions, now>>

CheckSession(c) ==
    /\ call[c].pc = "still_active"
    /\ IF HasActive(call[c].ses, now) THEN Return(c) ELSE Goto(c, "close")
    /\ UNCHANGED <<tokens, sessions, now>>

CloseSession(c) ==
    /\ call[c].pc = "close"
    /\ sessions' = [sessions EXCEPT ![call[c].ses] = Revoke(@)]
    /\ Return(c)
    /\ UNCHANGED <<tokens, now>>

(* Logout(all), for the user of the access token, is two statements, and   *)
(* ConfirmPasswordReset ends with the same two.  It goes on to the second  *)
(* when the first fails: SkipRevokeAll.  (Mutant: Logout(all) does too.)   *)
SkipRevokeAll(c, u) ==
    /\ call[c].pc = "idle"
    /\ call' = [call EXCEPT ![c] = [Idle EXCEPT !.pc = "revoke_sessions", !.user = u]]
    /\ UNCHANGED <<tokens, sessions, now>>

RevokeAll(c, u) ==
    /\ call[c].pc = "idle"
    /\ tokens' = [t \in Tokens |->
          IF tokens[t].user = u THEN Revoke(tokens[t]) ELSE tokens[t]]
    /\ call' = [call EXCEPT ![c] = [Idle EXCEPT !.pc = "revoke_sessions", !.user = u]]
    /\ UNCHANGED <<sessions, now>>

RevokeAllSessions(c) ==
    /\ call[c].pc = "revoke_sessions"
    /\ sessions' = [s \in Sessions |->
          IF sessions[s].user = call[c].user THEN Revoke(sessions[s]) ELSE sessions[s]]
    /\ Return(c)
    /\ UNCHANGED <<tokens, now>>

(* A statement fails, the caller goes away or the process is killed: the   *)
(* statements executed so far stay.                                        *)
Abort(c) ==
    /\ call[c].pc # "idle"
    /\ Return(c)
    /\ UNCHANGED <<tokens, sessions, now>>

-----------------------------------------------------------------------------
(* The cleanup jobs, one DELETE each.                                      *)

(* CleanupExpiredTokens.  Mutant: only tokens that were revoked go.        *)
RevokedAndExpired ==
    {t \in Tokens : tokens[t].state = "revoked" /\ tokens[t].expires < now}
Expired == {t \in Tokens : Stored(tokens[t]) /\ tokens[t].expires < now}

CleanupExpiredTokens ==
    /\ DeleteTokens(Expired)
    /\ UNCHANGED <<sessions, call, now>>

(* CleanupOrphanedSessions.  Mutant: one token that is not active is       *)
(* enough.                                                                 *)
OrphanedByOne == {s \in Sessions : Stored(sessions[s]) /\
    \E t \in Tokens : tokens[t].ses = s /\ ~ActiveAt(t, now)}
Orphaned == {s \in Sessions : Stored(sessions[s]) /\ ~HasActive(s, now)}

CleanupOrphanedSessions ==
    /\ DeleteSessions(Orphaned)
    /\ UNCHANGED <<tokens, call, now>>

Old == {s \in Sessions : Stored(sessions[s]) /\ sessions[s].lastSeen < now - Age}

CleanupOldSessions ==
    /\ DeleteSessions(Old)
    /\ UNCHANGED <<tokens, call, now>>

(* Time passes.  A Login or Refresh takes less than a tick (a day, if TTL  *)
(* is 7), so it ends in the tick it began in or in the next.               *)
Tick ==
    /\ now < MaxTime
    /\ \A c \in Calls :
          call[c].pc \in {"session", "insert", "check", "read", "revoke", "touch"}
              => call[c].began = now
    /\ now' = now + 1
    /\ UNCHANGED <<tokens, sessions, call>>

-----------------------------------------------------------------------------
(* Which calls are about a session: Login from the statement that creates  *)
(* it, Refresh and Logout from the start, Logout(all) while it is between  *)
(* its two statements.                                                     *)
SessionOf(c) == IF call[c].tok = None THEN call[c].ses ELSE tokens[call[c].tok].ses
About(c, s) ==
    /\ call[c].pc # "idle"
    /\ \/ SessionOf(c) = s
       \/ call[c].pc = "revoke_sessions" /\ sessions[s].user = call[c].user

Overlapped ==
    {s \in Sessions : \E c, d \in Calls : c # d /\ About(c, s) /\ About(d, s)}

(* Sessions deleted under a call that goes on to insert a token for them.  *)
Swept ==
    {s \in Sessions :
        /\ sessions[s].state # "deleted" /\ sessions'[s].state = "deleted"
        /\ \E c \in Calls :
              SessionOf(c) = s /\ call[c].pc \in {"check", "read", "revoke", "touch", "insert"}}

(* What a step disturbs: the sessions that calls are about at once, those  *)
(* swept, and those in S, about which a statement failed and was skipped.  *)
Record(S) == disturbed' = disturbed \cup Overlapped' \cup Swept \cup S

SessionsOfUser(u) == {s \in Sessions : sessions[s].user = u}

CallStep(c) ==
    \/ \E u \in Users : StartLogin(c, u) \/ RevokeAll(c, u)
    \/ \E t \in Tokens : StartRefresh(c, t) \/ StartLogout(c, t)
    \/ CreateSession(c) \/ InsertToken(c)
    \/ CheckActive(c) \/ ReadToken(c) \/ RevokeOld(c) \/ TouchSession(c)
    \/ RevokeOwn(c) \/ CheckSession(c) \/ CloseSession(c)
    \/ RevokeAllSessions(c)
    \/ Abort(c)

Cleanup == CleanupExpiredTokens \/ CleanupOrphanedSessions \/ CleanupOldSessions

Next ==
    \/ (\E c \in Calls : CallStep(c)) /\ Record({})
    \/ \E c \in Calls : SkipTouch(c) /\ Record({call[c].ses})
    \/ \E c \in Calls, u \in Users : SkipRevokeAll(c, u) /\ Record(SessionsOfUser(u))
    \/ (Cleanup \/ Tick) /\ Record({})

Spec == Init /\ [][Next]_vars

(* The scheduler runs its jobs again and again; nobody need call anything. *)
FairSpec ==
    /\ Spec
    /\ WF_vars(CleanupExpiredTokens /\ Record({}))
    /\ WF_vars(CleanupOrphanedSessions /\ Record({}))

-----------------------------------------------------------------------------
(* Types of the rows, of the handlers' locals and of the clock.            *)
TypeOK ==
    /\ tokens \in [Tokens -> Token]
    /\ sessions \in [Sessions -> Session]
    /\ call \in [Calls -> Call]
    /\ now \in Times
    /\ disturbed \subseteq Sessions

(* A session that no two calls have overlapped about, that was not swept   *)
(* from under a call and no failed statement of which was passed over, has *)
(* at most one token that is not revoked: Refresh replaces a token, it     *)
(* does not add one (auth_service.go:227-255), wherever calls are cut off. *)
OneTokenPerSession ==
    \A t1, t2 \in Tokens :
        /\ tokens[t1].state = "live" /\ tokens[t2].state = "live"
        /\ tokens[t1].ses = tokens[t2].ses
        /\ tokens[t1].ses \notin disturbed
        => t1 = t2

(* A token that Refresh would accept has a session that was neither        *)
(* revoked by Logout or Logout(all) nor deleted by the cleanup jobs, again *)
(* unless the session is disturbed.  In particular last_seen_at keeps a session in *)
(* use from counting as old (cleanup.go:94).                               *)
ActiveTokenHasSession ==
    \A t \in Tokens :
        /\ ActiveAt(t, now)
        /\ tokens[t].ses \notin disturbed
        => sessions[tokens[t].ses].state = "live"

(* A token that is revoked or deleted, and that no Refresh has read        *)
(* before, is out of use for good: it gets no successor, however calls     *)
(* overlap.  Refresh relies on it instead of on RowsAffected.              *)
Dead(t) ==
    /\ tokens[t].state \in {"revoked", "deleted"}
    /\ \A c \in Calls : ~(call[c].tok = t /\ call[c].pc \in {"revoke", "touch", "insert"})
Successors(t) == {x \in Tokens : tokens[x].parent = t}

DeadTokensStayBarren ==
    [][\A t \in Tokens : Dead(t) => Dead(t)' /\ Successors(t)' = Successors(t)]_vars

(* One session, as SessionFamily sees it.                                  *)
Lives == [none |-> "unborn", live |-> "open", revoked |-> "over", deleted |-> "over"]
Life(s) == IF s \in disturbed THEN "astray" ELSE Lives[sessions[s].state]
UsableOf(s) ==
    {t \in Tokens : s \notin disturbed /\ tokens[t].ses = s /\ ActiveAt(t, now)}
HeirsOf(s) ==
    {[of |-> tokens[t].parent, heir |-> t] :
        t \in {x \in Tokens : s \notin disturbed /\ tokens[x].ses = s}}

Family(s) == INSTANCE SessionFamily
    WITH life <- Life(s), usable <- UsableOf(s), heirs <- HeirsOf(s)

(* Each session on its own is a family of tokens, until it is disturbed:   *)
(* what Login, Refresh and Logout do to it in several statements, with     *)
(* calls about other sessions, cleanup jobs and the clock in between, is   *)
(* one step of SessionFamily or none.                                      *)
SessionsAreFamilies ==
    /\ \A s \in Sessions : Family(s)!Init
    /\ [][\A s \in Sessions : [Family(s)!Next]_(Family(s)!vars)]_vars

(* Expired tokens are deleted, revoked or not, and so are the sessions     *)
(* that a Login or Refresh left without a usable token when it was cut     *)
(* off, or that expired with their token.                                  *)
GarbageIsCollected ==
    /\ \A t \in Tokens :
          Stored(tokens[t]) /\ tokens[t].expires < now ~> ~Stored(tokens[t])
    /\ \A s \in Sessions :
          Stored(sessions[s]) /\ ~HasActive(s, now)
              ~> ~Stored(sessions[s]) \/ HasActive(s, now)

(* README.md:9 of the service promises rotation of the refresh token:      *)
(* one token is exchanged for one.  Refresh ignores whether it was the one *)
(* that revoked the token (auth_service.go:227).                           *)
RotationIsExclusive ==
    \A t1, t2 \in Tokens :
        tokens[t1].parent # None /\ tokens[t1].parent = tokens[t2].parent => t1 = t2
=============================================================================
