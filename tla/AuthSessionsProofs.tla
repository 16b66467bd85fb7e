------------------------- MODULE AuthSessionsProofs -------------------------
(***************************************************************************)
(* Theorems about AuthSessions, for any users, tokens, sessions and calls  *)
(* and any times.                                                          *)
(*                                                                         *)
(* Between the statements of a call the promise "one token per session" is *)
(* carried by the call: from the moment Refresh has revoked the old token  *)
(* the call stands for it, and nothing else may.  IInv says so for every   *)
(* session that is not disturbed, and says what each call that is about    *)
(* such a session knows of it.                                             *)
(***************************************************************************)
EXTENDS AuthSessions, TLAPS

LiveIn(t, s) == tokens[t].state = "live" /\ tokens[t].ses = s
Quiet == Sessions \ disturbed

RowsFit ==
    \A t \in Tokens :
        \/ tokens[t].state = "none" /\ tokens[t].ses = None /\ tokens[t].user = None
        \/ /\ tokens[t].state # "none"
           /\ tokens[t].user \in Users
           /\ tokens[t].ses \in Sessions
           /\ sessions[tokens[t].ses].state # "none"
           /\ sessions[tokens[t].ses].user = tokens[t].user

CallFits(c) ==
    /\ call[c].pc \in {"idle", "session", "revoke_sessions"} =>
          call[c].tok = None /\ call[c].ses = None
    /\ call[c].pc \in {"session", "revoke_sessions"} => call[c].user \in Users
    /\ call[c].pc \in {"check", "read", "revoke", "touch", "logout", "still_active", "close"}
          => call[c].tok \in Tokens
    /\ call[c].tok \in Tokens => tokens[call[c].tok].state # "none"
    /\ call[c].tok \in Tokens /\ call[c].pc \notin {"check", "read"} =>
          call[c].ses = tokens[call[c].tok].ses
    /\ call[c].pc \in {"revoke", "touch", "insert"} =>
          /\ call[c].ses \in Sessions
          /\ sessions[call[c].ses].state # "none"
          /\ call[c].user = sessions[call[c].ses].user
          /\ call[c].user \in Users

CallsFit == \A c \in Calls : CallFits(c)

(* A Login or Refresh is at most one tick old.                             *)
OnTime(c) ==
    /\ call[c].pc \in {"session", "insert", "check", "read", "revoke", "touch"} =>
          call[c].began =< now /\ now =< call[c].began + 1
    /\ call[c].pc = "session" => call[c].expires = call[c].began + TTL

InTime == \A c \in Calls : OnTime(c)

OverlapsKnown == Overlapped \subseteq disturbed

(* What holds of a session that is not disturbed, ...                      *)
SessionFits(s) ==
    \A t \in Tokens : LiveIn(t, s) =>
        /\ \A x \in Tokens : LiveIn(x, s) => x = t
        /\ tokens[t].expires > now => sessions[s].state = "live"
        /\ sessions[s].state = "live" =>
              tokens[t].expires =< sessions[s].lastSeen + TTL + 1

(* ... and what the call about it may rely on.                             *)
CallKnows(c, s) ==
    /\ \A t \in Tokens : LiveIn(t, s) =>
          /\ call[c].pc \in {"check", "read", "revoke", "logout"}
          /\ call[c].pc = "revoke" => call[c].tok = t
    /\ call[c].pc = "check" /\ ActiveAt(call[c].tok, call[c].began) =>
          sessions[s].state = "live"
    /\ call[c].pc \in {"read", "revoke", "touch", "insert"} =>
          sessions[s].state = "live"
    /\ call[c].pc = "insert" =>
          call[c].expires =< sessions[s].lastSeen + TTL + 1

QuietFits ==
    \A s \in Quiet :
        /\ SessionFits(s)
        /\ \A c \in Calls : About(c, s) => CallKnows(c, s)

IInv ==
    /\ TypeOK
    /\ RowsFit
    /\ CallsFit
    /\ InTime
    /\ OverlapsKnown
    /\ QuietFits

-----------------------------------------------------------------------------
(* Rows and locals keep their types.                                       *)

LEMMA RevokedTokenRow ==
    ASSUME NEW row \in Token
    PROVE  /\ Revoke(row) \in Token
           /\ Revoke(row).state = (IF row.state = "live" THEN "revoked" ELSE row.state)
           /\ Revoke(row).user = row.user /\ Revoke(row).ses = row.ses
           /\ Revoke(row).expires = row.expires
  BY DEF Revoke, Token, States

LEMMA RevokedSessionRow ==
    ASSUME NEW row \in Session
    PROVE  /\ Revoke(row) \in Session
           /\ Revoke(row).state = (IF row.state = "live" THEN "revoked" ELSE row.state)
           /\ Revoke(row).user = row.user /\ Revoke(row).lastSeen = row.lastSeen
  BY DEF Revoke, Session, States

LEMMA DeletedTokens ==
    ASSUME TypeOK, NEW S \in SUBSET Tokens, DeleteTokens(S)
    PROVE  /\ tokens' \in [Tokens -> Token]
           /\ \A t \in Tokens \ S : tokens'[t] = tokens[t]
           /\ \A t \in S : /\ tokens'[t].state = "deleted"
                           /\ tokens'[t].user = tokens[t].user
                           /\ tokens'[t].ses = tokens[t].ses
<1>1. 0 \in Expiries
  BY TimeAssumption DEF Expiries
<1>2. \A t \in Tokens : [tokens[t] EXCEPT !.state = "deleted", !.expires = 0] \in Token
  BY <1>1 DEF TypeOK, Token, States
<1> QED
  BY <1>2 DEF TypeOK, DeleteTokens, Token

LEMMA DeletedSessions ==
    ASSUME TypeOK, NEW S \in SUBSET Sessions, DeleteSessions(S)
    PROVE  /\ sessions' \in [Sessions -> Session]
           /\ \A s \in Sessions \ S : sessions'[s] = sessions[s]
           /\ \A s \in S : /\ sessions'[s].state = "deleted"
                           /\ sessions'[s].user = sessions[s].user
<1>1. 0 \in Times
  BY TimeAssumption DEF Times
<1>2. \A s \in Sessions : [sessions[s] EXCEPT !.state = "deleted", !.lastSeen = 0] \in Session
  BY <1>1 DEF TypeOK, Session, States
<1> QED
  BY <1>2 DEF TypeOK, DeleteSessions, Session

LEMMA IdleIsCall == Idle \in Call
  BY TimeAssumption DEF Idle, Call, Steps, Times, Expiries

LEMMA ExpiryInRange ==
    ASSUME now \in Times
    PROVE  now + TTL \in Expiries
  BY TimeAssumption DEF Times, Expiries

(* A step that records what it disturbs knows all overlaps afterwards.     *)
LEMMA Recorded ==
    ASSUME TypeOK, NEW X \in SUBSET Sessions, Record(X)
    PROVE  /\ disturbed' \subseteq Sessions
           /\ OverlapsKnown'
           /\ Quiet' \subseteq Quiet
           /\ \A s \in Quiet' : s \notin Swept /\ s \notin X
  BY DEF TypeOK, Record, OverlapsKnown, Quiet, Overlapped, Swept

(* The call that is about a session that is not disturbed is alone.        *)
LEMMA Alone ==
    ASSUME OverlapsKnown, NEW s \in Quiet, NEW c \in Calls, NEW d \in Calls,
           About(c, s), About(d, s)
    PROVE  c = d
  BY DEF OverlapsKnown, Overlapped, Quiet

(* A step that changes nothing but the locals of c, to k, has only to show *)
(* that c may rely on what it then relies on.                              *)
LEMMA LocalStep ==
    ASSUME IInv, NEW c \in Calls, NEW k \in Call, NEW X \in SUBSET Sessions,
           call' = [call EXCEPT ![c] = k], Record(X),
           UNCHANGED <<tokens, sessions, now>>,
           CallFits(c)', OnTime(c)',
           \A s \in Quiet' : About(c, s)' => CallKnows(c, s)'
    PROVE  IInv'
<1>1. TypeOK'
  BY Recorded DEF IInv, TypeOK
<1>2. \A d \in Calls : d # c => call'[d] = call[d]
  BY DEF IInv, TypeOK
<1>3. RowsFit'
  BY DEF IInv, RowsFit
<1>4. CallsFit'
  BY <1>2 DEF IInv, CallsFit, CallFits
<1>5. InTime'
  BY <1>2 DEF IInv, InTime, OnTime
<1>6. OverlapsKnown' /\ Quiet' \subseteq Quiet
  BY Recorded DEF IInv
<1>7. ASSUME NEW s \in Quiet'
      PROVE  SessionFits(s)'
  BY <1>6 DEF IInv, QuietFits, SessionFits, LiveIn
<1>8. ASSUME NEW s \in Quiet', NEW d \in Calls, d # c, About(d, s)'
      PROVE  CallKnows(d, s)'
  <2>1. About(d, s)
    BY <1>2, <1>8 DEF About, SessionOf
  <2>2. CallKnows(d, s)
    BY <1>6, <2>1 DEF IInv, QuietFits
  <2> QED
    BY <1>2, <1>8, <2>2 DEF CallKnows, LiveIn, ActiveAt
<1> QED
  BY <1>1, <1>3, <1>4, <1>5, <1>6, <1>7, <1>8 DEF IInv, QuietFits

(* The step that ends a call, and leaves the tables alone.                 *)
LEMMA ReturnStep ==
    ASSUME IInv, NEW c \in Calls, NEW X \in SUBSET Sessions, Return(c), Record(X),
           UNCHANGED <<tokens, sessions, now>>
    PROVE  IInv'
<1>1. call' = [call EXCEPT ![c] = Idle] /\ call'[c] = Idle
  BY DEF Return, IInv, TypeOK
<1>2. CallFits(c)' /\ OnTime(c)'
  BY <1>1, NoneAssumption DEF Idle, CallFits, OnTime
<1>3. \A s \in Quiet' : ~About(c, s)'
  BY <1>1 DEF About, Idle
<1> QED
  BY <1>1, <1>2, <1>3, IdleIsCall, LocalStep

-----------------------------------------------------------------------------
(* One lemma per action; first those that change only the caller's locals. *)

LEMMA StartLoginKeeps ==
    ASSUME IInv, NEW c \in Calls, NEW u \in Users, StartLogin(c, u), Record({})
    PROVE  IInv'
<1> DEFINE k == [Idle EXCEPT !.pc = "session", !.user = u, !.began = now,
                             !.expires = now + TTL]
<1>1. k \in Call /\ call' = [call EXCEPT ![c] = k] /\ call'[c] = k
  BY IdleIsCall, ExpiryInRange DEF IInv, TypeOK, Call, Steps, StartLogin
<1>2. CallFits(c)' /\ OnTime(c)'
  BY <1>1, NoneAssumption DEF StartLogin, Idle, CallFits, OnTime, IInv, TypeOK, Times
<1>3. \A s \in Quiet' : ~About(c, s)'
  <2>1. k.pc = "session" /\ k.tok = None /\ k.ses = None
    BY DEF Idle
  <2> HIDE DEF k
  <2> QED
    BY <1>1, <2>1, NoneAssumption DEF About, SessionOf, Quiet
<1> QED
  BY <1>1, <1>2, <1>3, LocalStep DEF StartLogin

LEMMA StartRefreshKeeps ==
    ASSUME IInv, NEW c \in Calls, NEW t \in Tokens, StartRefresh(c, t), Record({})
    PROVE  IInv'
<1> DEFINE k == [Idle EXCEPT !.pc = "check", !.tok = t, !.began = now]
<1>1. k \in Call /\ call' = [call EXCEPT ![c] = k] /\ call'[c] = k
  BY IdleIsCall DEF IInv, TypeOK, Call, Steps, StartRefresh
<1>2. CallFits(c)' /\ OnTime(c)'
  BY <1>1, NoneAssumption DEF StartRefresh, Idle, CallFits, OnTime, IInv, TypeOK, Times
<1>3. ASSUME NEW s \in Quiet', About(c, s)'
      PROVE  CallKnows(c, s)'
  <2>1. s \in Quiet /\ SessionFits(s) /\ SessionFits(s)'
    BY Recorded DEF IInv, QuietFits, SessionFits, LiveIn, StartRefresh
  <2>2. tokens[t].ses = s
    BY <1>1, <1>3, NoneAssumption DEF StartRefresh, About, SessionOf, Idle
  <2>3. k.pc = "check" /\ k.tok = t /\ k.began = now
    BY DEF Idle
  <2>4. tokens' = tokens /\ sessions' = sessions
    BY DEF StartRefresh
  <2>5. ActiveAt(t, now) => sessions[s].state = "live"
    BY <2>1, <2>2 DEF SessionFits, LiveIn, ActiveAt
  <2> HIDE DEF k
  <2>6. (ActiveAt(call[c].tok, call[c].began) => sessions[s].state = "live")'
    BY <1>1, <2>3, <2>4, <2>5 DEF ActiveAt
  <2> QED
    BY <1>1, <2>3, <2>6 DEF CallKnows
<1> QED
  BY <1>1, <1>2, <1>3, LocalStep DEF StartRefresh

LEMMA StartLogoutKeeps ==
    ASSUME IInv, NEW c \in Calls, NEW t \in Tokens, StartLogout(c, t), Record({})
    PROVE  IInv'
<1> DEFINE k == [Idle EXCEPT !.pc = "logout", !.tok = t, !.ses = tokens[t].ses]
<1>1. k \in Call /\ call' = [call EXCEPT ![c] = k] /\ call'[c] = k
  BY IdleIsCall DEF IInv, TypeOK, Call, Token, Steps, StartLogout
<1>2. CallFits(c)' /\ OnTime(c)'
  BY <1>1, NoneAssumption DEF StartLogout, Idle, CallFits, OnTime
<1>3. \A s \in Quiet' : CallKnows(c, s)'
  BY <1>1 DEF StartLogout, Idle, CallKnows
<1> QED
  BY <1>1, <1>2, <1>3, LocalStep DEF StartLogout

LEMMA CheckActiveKeeps ==
    ASSUME IInv, NEW c \in Calls, CheckActive(c), Record({})
    PROVE  IInv'
<1>1. CASE Return(c)
  BY <1>1, ReturnStep DEF CheckActive
<1>2. CASE ActiveAt(call[c].tok, call[c].began) /\ Goto(c, "read")
  <2> DEFINE k == [call[c] EXCEPT !.pc = "read"]
  <2>1. k \in Call /\ call' = [call EXCEPT ![c] = k] /\ call'[c] = k
    BY <1>2 DEF IInv, TypeOK, Call, Steps, Goto
  <2>2. call[c] \in Call /\ CallFits(c) /\ OnTime(c) /\ call[c].pc = "check"
    BY DEF IInv, TypeOK, CallsFit, InTime, CheckActive
  <2>3. /\ call'[c].pc = "read" /\ call'[c].tok = call[c].tok
        /\ call'[c].ses = call[c].ses /\ call'[c].began = call[c].began
    BY <2>1, <2>2 DEF Call
  <2>4. CallFits(c)' /\ OnTime(c)'
    BY <2>2, <2>3 DEF CheckActive, CallFits, OnTime
  <2>5. ASSUME NEW s \in Quiet', About(c, s)'
        PROVE  CallKnows(c, s)'
    <3>1. s \in Quiet /\ About(c, s)
      BY <2>2, <2>3, <2>5, Recorded DEF IInv, About, SessionOf, CheckActive
    <3>2. CallKnows(c, s)
      BY <3>1 DEF IInv, QuietFits
    <3> QED
      BY <1>2, <2>2, <2>3, <3>2 DEF CallKnows, LiveIn, CheckActive
  <2> QED
    BY <2>1, <2>4, <2>5, LocalStep DEF CheckActive
<1> QED
  BY <1>1, <1>2 DEF CheckActive

LEMMA ReadTokenKeeps ==
    ASSUME IInv, NEW c \in Calls, ReadToken(c), Record({})
    PROVE  IInv'
<1>1. CASE Return(c)
  BY <1>1, ReturnStep DEF ReadToken
<1>2. CASE ~Return(c)
  <2> DEFINE t == call[c].tok
             k == [call[c] EXCEPT !.pc = "revoke", !.ses = tokens[t].ses,
                                  !.user = tokens[t].user]
  <2>1. /\ call[c] \in Call /\ CallFits(c) /\ OnTime(c) /\ call[c].pc = "read"
        /\ t \in Tokens /\ tokens[t] \in Token /\ tokens[t].state = "live"
    BY <1>2 DEF IInv, TypeOK, CallsFit, CallFits, InTime, ReadToken, Found
  <2>2. k \in Call
    BY <2>1 DEF Call, Token, Steps
  <2>3. call' = [call EXCEPT ![c] = k] /\ call'[c] = k
    BY <1>2, <2>1 DEF IInv, TypeOK, ReadToken, Call
  <2>4. /\ call'[c].pc = "revoke" /\ call'[c].tok = t /\ call'[c].ses = tokens[t].ses
        /\ call'[c].user = tokens[t].user /\ call'[c].began = call[c].began
    <3>1. /\ k.pc = "revoke" /\ k.tok = t /\ k.ses = tokens[t].ses
          /\ k.user = tokens[t].user /\ k.began = call[c].began
      BY <2>1 DEF Call
    <3> HIDE DEF k
    <3> QED
      BY <2>3, <3>1
  <2>5. CallFits(c)' /\ OnTime(c)'
    BY <2>1, <2>4, NoneAssumption DEF IInv, RowsFit, ReadToken, CallFits, OnTime
  <2>6. ASSUME NEW s \in Quiet', About(c, s)'
        PROVE  CallKnows(c, s)'
    <3>1. s \in Quiet /\ About(c, s) /\ tokens[t].ses = s
      BY <2>1, <2>4, <2>6, NoneAssumption, Recorded DEF IInv, About, SessionOf, ReadToken
    <3>2. CallKnows(c, s) /\ SessionFits(s)
      BY <3>1 DEF IInv, QuietFits
    <3> QED
      BY <2>1, <2>4, <3>1, <3>2 DEF CallKnows, SessionFits, LiveIn, ReadToken
  <2> QED
    BY <2>2, <2>3, <2>5, <2>6, LocalStep DEF ReadToken
<1> QED
  BY <1>1, <1>2

LEMMA SkipTouchKeeps ==
    ASSUME IInv, NEW c \in Calls, SkipTouch(c), Record({call[c].ses})
    PROVE  IInv'
<1> DEFINE k == [call[c] EXCEPT !.pc = "insert", !.expires = now + TTL]
<1>1. /\ call[c] \in Call /\ CallFits(c) /\ OnTime(c) /\ call[c].pc = "touch"
      /\ call[c].ses \in Sessions
  BY DEF IInv, TypeOK, CallsFit, CallFits, InTime, SkipTouch
<1>2. k \in Call
  BY <1>1, ExpiryInRange DEF IInv, TypeOK, Call, Steps
<1>3. call' = [call EXCEPT ![c] = k] /\ call'[c] = k
  BY <1>1 DEF IInv, TypeOK, Call, SkipTouch
<1>4. /\ call'[c].pc = "insert" /\ call'[c].tok = call[c].tok
      /\ call'[c].ses = call[c].ses /\ call'[c].user = call[c].user
      /\ call'[c].began = call[c].began
  <2>1. /\ k.pc = "insert" /\ k.tok = call[c].tok /\ k.ses = call[c].ses
        /\ k.user = call[c].user /\ k.began = call[c].began
    BY <1>1 DEF Call
  <2> HIDE DEF k
  <2> QED
    BY <1>3, <2>1
<1>5. CallFits(c)' /\ OnTime(c)'
  BY <1>1, <1>4 DEF CallFits, OnTime, SkipTouch
<1>6. \A s \in Quiet' : ~About(c, s)'
  <2>1. \A s \in Quiet' : s # call[c].ses
    BY <1>1, Recorded DEF IInv
  <2> QED
    BY <1>1, <1>4, <1>5, <2>1, NoneAssumption
    DEF About, SessionOf, SkipTouch, CallFits, Quiet, Call
<1> QED
  BY <1>1, <1>2, <1>3, <1>5, <1>6, LocalStep DEF SkipTouch

LEMMA SkipRevokeAllKeeps ==
    ASSUME IInv, NEW c \in Calls, NEW u \in Users, SkipRevokeAll(c, u),
           Record(SessionsOfUser(u))
    PROVE  IInv'
<1> DEFINE k == [Idle EXCEPT !.pc = "revoke_sessions", !.user = u]
<1>1. /\ k \in Call /\ k.pc = "revoke_sessions" /\ k.user = u
      /\ k.tok = None /\ k.ses = None
  BY IdleIsCall DEF Call, Steps, Idle
<1> HIDE DEF k
<1>2. call' = [call EXCEPT ![c] = k] /\ call'[c] = k
  BY DEF IInv, TypeOK, SkipRevokeAll, k
<1>3. CallFits(c)' /\ OnTime(c)'
  BY <1>1, <1>2, NoneAssumption DEF CallFits, OnTime
<1>4. SessionsOfUser(u) \in SUBSET Sessions
  BY DEF SessionsOfUser
<1>5. \A s \in Quiet' : ~About(c, s)'
  <2>1. \A s \in Quiet' : s \in Sessions /\ sessions'[s].user # u
    BY <1>4, Recorded DEF IInv, SkipRevokeAll, SessionsOfUser, Quiet
  <2> QED
    BY <1>1, <1>2, <2>1, NoneAssumption DEF About, SessionOf
<1> QED
  BY <1>1, <1>2, <1>3, <1>4, <1>5, LocalStep DEF SkipRevokeAll

LEMMA CheckSessionKeeps ==
    ASSUME IInv, NEW c \in Calls, CheckSession(c), Record({})
    PROVE  IInv'
<1>1. CASE Return(c)
  BY <1>1, ReturnStep DEF CheckSession
<1>2. CASE Goto(c, "close")
  <2> DEFINE k == [call[c] EXCEPT !.pc = "close"]
  <2>1. /\ call[c] \in Call /\ CallFits(c) /\ call[c].pc = "still_active"
        /\ k \in Call
    BY DEF IInv, TypeOK, CallsFit, Call, Steps, CheckSession
  <2>2. call' = [call EXCEPT ![c] = k] /\ call'[c] = k
    BY <1>2, <2>1 DEF IInv, TypeOK, Goto
  <2>3. /\ call'[c].pc = "close" /\ call'[c].tok = call[c].tok
        /\ call'[c].ses = call[c].ses
    BY <2>1, <2>2 DEF Call
  <2>4. CallFits(c)' /\ OnTime(c)'
    BY <2>1, <2>3 DEF CallFits, OnTime, CheckSession
  <2>5. ASSUME NEW s \in Quiet', About(c, s)'
        PROVE  CallKnows(c, s)'
    <3>1. s \in Quiet /\ About(c, s)
      BY <2>1, <2>3, <2>5, Recorded DEF IInv, About, SessionOf, CheckSession
    <3>2. CallKnows(c, s)
      BY <3>1 DEF IInv, QuietFits
    <3> QED
      BY <2>1, <2>3, <3>2 DEF CallKnows, LiveIn, CheckSession
  <2> QED
    BY <2>1, <2>2, <2>4, <2>5, LocalStep DEF CheckSession
<1> QED
  BY <1>1, <1>2 DEF CheckSession

LEMMA AbortKeeps ==
    ASSUME IInv, NEW c \in Calls, Abort(c), Record({})
    PROVE  IInv'
  BY ReturnStep DEF Abort

-----------------------------------------------------------------------------
(* A step that moves the calls in D, creates no row and only takes tokens  *)
(* out of use.  It has to show what the moved calls may rely on, and that  *)
(* a session it changes has no token in use and no call that counts on it. *)
Narrowed ==
    /\ tokens' \in [Tokens -> Token]
    /\ \A t \in Tokens :
          /\ tokens'[t].ses = tokens[t].ses /\ tokens'[t].user = tokens[t].user
          /\ tokens'[t].state = "none" <=> tokens[t].state = "none"
          /\ tokens'[t].state = "live" => tokens'[t] = tokens[t]

SameSessions ==
    /\ sessions' \in [Sessions -> Session]
    /\ \A s \in Sessions :
          /\ sessions'[s].user = sessions[s].user
          /\ sessions'[s].state = "none" <=> sessions[s].state = "none"

Spared(s, D) ==
    /\ \A t \in Tokens : LiveIn(t, s)' =>
          ~(tokens[t].expires > now) /\ sessions'[s].state # "live"
    /\ \A d \in Calls \ D : About(d, s) =>
          call[d].pc \notin {"check", "read", "revoke", "touch", "insert"}

LEMMA FrameStep ==
    ASSUME IInv, NEW D \in SUBSET Calls, NEW X \in SUBSET Sessions, Record(X),
           Narrowed, SameSessions, now' = now,
           call' \in [Calls -> Call],
           \A d \in Calls \ D : call'[d] = call[d],
           \A c \in D : CallFits(c)' /\ OnTime(c)',
           \A s \in Quiet', c \in D : About(c, s)' => CallKnows(c, s)',
           \A s \in Quiet' : sessions'[s] # sessions[s] => Spared(s, D)
    PROVE  IInv'
<1>1. TypeOK'
  BY Recorded DEF IInv, TypeOK, Narrowed, SameSessions
<1>2. RowsFit'
  BY DEF IInv, RowsFit, Narrowed, SameSessions
<1>3. CallsFit'
  <2>1. ASSUME NEW d \in Calls \ D
        PROVE  CallFits(d)'
    <3>1. CallFits(d) /\ call'[d] = call[d]
      BY DEF IInv, CallsFit
    <3> QED
      BY <3>1 DEF CallFits, Narrowed, SameSessions
  <2> QED
    BY <2>1 DEF CallsFit
<1>4. InTime'
  BY DEF IInv, InTime, OnTime
<1>5. OverlapsKnown' /\ Quiet' \subseteq Quiet
  BY Recorded DEF IInv
<1>6. ASSUME NEW s \in Quiet'
      PROVE  SessionFits(s)'
  <2>1. s \in Quiet /\ SessionFits(s)
    BY <1>5 DEF IInv, QuietFits
  <2>2. \A t \in Tokens : LiveIn(t, s)' => LiveIn(t, s) /\ tokens'[t] = tokens[t]
    BY DEF Narrowed, LiveIn
  <2>3. CASE sessions'[s] = sessions[s]
    BY <2>1, <2>2, <2>3 DEF SessionFits
  <2>4. CASE Spared(s, D)
    BY <2>1, <2>2, <2>4 DEF SessionFits, Spared
  <2> QED
    BY <2>3, <2>4
<1>7. ASSUME NEW s \in Quiet', NEW d \in Calls \ D, About(d, s)'
      PROVE  CallKnows(d, s)'
  <2>1. call'[d] = call[d] /\ CallFits(d)
    BY DEF IInv, CallsFit
  <2>2. SessionOf(d)' = SessionOf(d)
    <3>1. CASE call[d].tok \in Tokens
      BY <3>1, <2>1 DEF SessionOf, Narrowed
    <3>2. CASE call[d].tok = None
      BY <3>2, <2>1 DEF SessionOf
    <3> QED
      BY <3>1, <3>2 DEF IInv, TypeOK, Call
  <2>3. s \in Sessions /\ s \in Quiet
    BY <1>5 DEF Quiet
  <2>4. About(d, s)
    BY <1>7, <2>1, <2>2, <2>3 DEF About, SameSessions
  <2>5. CallKnows(d, s)
    BY <2>3, <2>4 DEF IInv, QuietFits
  <2>6. \A t \in Tokens : LiveIn(t, s)' => LiveIn(t, s)
    BY DEF Narrowed, LiveIn
  <2>7. call[d].pc = "check" =>
            (ActiveAt(call[d].tok, call[d].began)' => ActiveAt(call[d].tok, call[d].began))
    BY <2>1 DEF CallFits, Narrowed, ActiveAt
  <2>8. CASE sessions'[s] = sessions[s]
    BY <2>1, <2>5, <2>6, <2>7, <2>8 DEF CallKnows, ActiveAt
  <2>9. CASE Spared(s, D)
    BY <2>1, <2>4, <2>5, <2>6, <2>9 DEF CallKnows, Spared
  <2> QED
    BY <2>8, <2>9
<1> QED
  BY <1>1, <1>2, <1>3, <1>4, <1>5, <1>6, <1>7 DEF IInv, QuietFits

(* UPDATE ... SET revoked = true of one token.                             *)
LEMMA RevokedToken ==
    ASSUME TypeOK, NEW t \in Tokens, RevokeToken(t)
    PROVE  Narrowed /\ tokens'[t].state # "live"
<1>1. /\ tokens[t] \in Token
      /\ tokens'[t] = Revoke(tokens[t])
      /\ \A x \in Tokens : x # t => tokens'[x] = tokens[x]
  BY DEF TypeOK, RevokeToken
<1>2. tokens' \in [Tokens -> Token]
  BY <1>1, RevokedTokenRow DEF TypeOK, RevokeToken
<1>3. /\ tokens'[t].state = (IF tokens[t].state = "live" THEN "revoked" ELSE tokens[t].state)
      /\ tokens'[t].user = tokens[t].user /\ tokens'[t].ses = tokens[t].ses
  BY <1>1, RevokedTokenRow
<1>4. \A x \in Tokens :
          /\ tokens'[x].ses = tokens[x].ses /\ tokens'[x].user = tokens[x].user
          /\ tokens'[x].state = "none" <=> tokens[x].state = "none"
          /\ tokens'[x].state = "live" => tokens'[x] = tokens[x]
  <2>1. CASE tokens[t].state = "live"
    BY <1>1, <1>3, <2>1
  <2>2. CASE tokens[t].state # "live"
    BY <1>1, <1>3, <2>2
  <2> QED
    BY <2>1, <2>2
<1> QED
  BY <1>2, <1>3, <1>4 DEF Narrowed

(* FrameStep for a step of one call.                                       *)
LEMMA CallFrame ==
    ASSUME IInv, NEW c \in Calls, Record({}),
           Narrowed, SameSessions, now' = now,
           call' \in [Calls -> Call], \A d \in Calls \ {c} : call'[d] = call[d],
           CallFits(c)', OnTime(c)',
           \A s \in Quiet' : About(c, s)' => CallKnows(c, s)',
           \A s \in Quiet' : sessions'[s] = sessions[s] \/ Spared(s, {c})
    PROVE  IInv'
<1>1. {c} \in SUBSET Calls /\ {} \in SUBSET Sessions
  OBVIOUS
<1>2. \A x \in {c} : CallFits(x)' /\ OnTime(x)'
  OBVIOUS
<1>3. \A s \in Quiet', x \in {c} : About(x, s)' => CallKnows(x, s)'
  OBVIOUS
<1>4. \A s \in Quiet' : sessions'[s] # sessions[s] => Spared(s, {c})
  OBVIOUS
<1> QED
  BY <1>1, <1>2, <1>3, <1>4, FrameStep

LEMMA RevokeOldKeeps ==
    ASSUME IInv, NEW c \in Calls, RevokeOld(c), Record({})
    PROVE  IInv'
<1> DEFINE t == call[c].tok
           k == [call[c] EXCEPT !.pc = "touch"]
<1>1. /\ call[c] \in Call /\ CallFits(c) /\ OnTime(c) /\ call[c].pc = "revoke"
      /\ t \in Tokens
  BY DEF IInv, TypeOK, CallsFit, CallFits, InTime, RevokeOld
<1>2. k \in Call /\ call' = [call EXCEPT ![c] = k] /\ call'[c] = k
  BY <1>1 DEF IInv, TypeOK, Call, Steps, Goto, RevokeOld
<1>3. /\ call'[c].pc = "touch" /\ call'[c].tok = t /\ call'[c].ses = call[c].ses
      /\ call'[c].user = call[c].user /\ call'[c].began = call[c].began
  BY <1>1, <1>2 DEF Call
<1>4. Narrowed /\ tokens'[t].state # "live"
  BY <1>1, RevokedToken DEF IInv, RevokeOld
<1>5. SameSessions /\ sessions' = sessions /\ now' = now
  BY DEF IInv, TypeOK, RevokeOld, SameSessions
<1>6. call' \in [Calls -> Call] /\ \A d \in Calls \ {c} : call'[d] = call[d]
  BY <1>2 DEF IInv, TypeOK
<1>7. CallFits(c)' /\ OnTime(c)'
  BY <1>1, <1>3, <1>4, <1>5 DEF CallFits, OnTime, Narrowed
<1>8. ASSUME NEW s \in Quiet', About(c, s)'
      PROVE  CallKnows(c, s)'
  <2>1. s \in Quiet /\ About(c, s)
    BY <1>1, <1>3, <1>4, <1>8, NoneAssumption, Recorded DEF IInv, About, SessionOf, Narrowed
  <2>2. CallKnows(c, s)
    BY <2>1 DEF IInv, QuietFits
  <2>3. \A x \in Tokens : ~LiveIn(x, s)'
    BY <1>1, <1>4, <2>2 DEF CallKnows, LiveIn, Narrowed
  <2> QED
    BY <1>1, <1>3, <1>5, <2>2, <2>3 DEF CallKnows
<1> QED
  BY <1>4, <1>5, <1>6, <1>7, <1>8, CallFrame

LEMMA RevokeOwnKeeps ==
    ASSUME IInv, NEW c \in Calls, RevokeOwn(c), Record({})
    PROVE  IInv'
<1> DEFINE t == call[c].tok
<1>1. /\ call[c] \in Call /\ CallFits(c) /\ call[c].pc = "logout" /\ t \in Tokens
  BY DEF IInv, TypeOK, CallsFit, CallFits, RevokeOwn
<1>2. Narrowed /\ tokens'[t].state # "live"
  BY <1>1, RevokedToken DEF IInv, RevokeOwn
<1>3. SameSessions /\ sessions' = sessions /\ now' = now
  BY DEF IInv, TypeOK, RevokeOwn, SameSessions
<1>4. CASE Return(c)
  <2>1. /\ call' \in [Calls -> Call] /\ call'[c] = Idle
        /\ \A d \in Calls \ {c} : call'[d] = call[d]
    BY <1>4, IdleIsCall DEF Return, IInv, TypeOK
  <2>2. CallFits(c)' /\ OnTime(c)' /\ \A s \in Quiet' : ~About(c, s)'
    BY <2>1, NoneAssumption DEF Idle, CallFits, OnTime, About
  <2> QED
    BY <1>2, <1>3, <2>1, <2>2, CallFrame
<1>5. CASE tokens[t].state = "live" /\ Goto(c, "still_active")
  <2> DEFINE k == [call[c] EXCEPT !.pc = "still_active"]
  <2>1. k \in Call /\ call' = [call EXCEPT ![c] = k] /\ call'[c] = k
    BY <1>1, <1>5 DEF IInv, TypeOK, Call, Steps, Goto
  <2>2. /\ call'[c].pc = "still_active" /\ call'[c].tok = t
        /\ call'[c].ses = call[c].ses
    BY <1>1, <2>1 DEF Call
  <2>3. call' \in [Calls -> Call] /\ \A d \in Calls \ {c} : call'[d] = call[d]
    BY <2>1 DEF IInv, TypeOK
  <2>4. CallFits(c)' /\ OnTime(c)'
    BY <1>1, <1>2, <2>2 DEF CallFits, OnTime, Narrowed
  <2>5. ASSUME NEW s \in Quiet', About(c, s)'
        PROVE  CallKnows(c, s)'
    <3>1. s \in Quiet /\ tokens[t].ses = s
      BY <1>1, <1>2, <2>2, <2>5, NoneAssumption, Recorded
      DEF IInv, About, SessionOf, Narrowed
    <3>2. SessionFits(s)
      BY <3>1 DEF IInv, QuietFits
    <3>3. \A x \in Tokens : ~LiveIn(x, s)'
      BY <1>1, <1>2, <1>5, <3>1, <3>2 DEF SessionFits, LiveIn, Narrowed
    <3> QED
      BY <2>2, <3>3 DEF CallKnows
  <2> QED
    BY <1>2, <1>3, <2>3, <2>4, <2>5, CallFrame
<1> QED
  BY <1>4, <1>5 DEF RevokeOwn

LEMMA RevokeAllKeeps ==
    ASSUME IInv, NEW c \in Calls, NEW u \in Users, RevokeAll(c, u), Record({})
    PROVE  IInv'
<1> DEFINE k == [Idle EXCEPT !.pc = "revoke_sessions", !.user = u]
<1>1. /\ k \in Call /\ k.pc = "revoke_sessions" /\ k.user = u
      /\ k.tok = None /\ k.ses = None
  BY IdleIsCall DEF Call, Steps, Idle
<1> HIDE DEF k
<1>2. call' = [call EXCEPT ![c] = k] /\ call'[c] = k
  BY DEF IInv, TypeOK, RevokeAll, k
<1>3. call' \in [Calls -> Call] /\ \A d \in Calls \ {c} : call'[d] = call[d]
  BY <1>1, <1>2 DEF IInv, TypeOK
<1>4. Narrowed /\ \A t \in Tokens : tokens[t].user = u => tokens'[t].state # "live"
  <2>1. \A t \in Tokens : tokens[t] \in Token /\ Revoke(tokens[t]) \in Token
    BY RevokedTokenRow DEF IInv, TypeOK
  <2>2. tokens' \in [Tokens -> Token]
    BY <2>1 DEF RevokeAll
  <2>3. \A t \in Tokens : (tokens'[t] = tokens[t] /\ tokens[t].user # u)
                          \/ tokens'[t] = Revoke(tokens[t])
    BY DEF RevokeAll
  <2> QED
    BY <2>1, <2>2, <2>3, RevokedTokenRow DEF Narrowed
<1>5. SameSessions /\ sessions' = sessions /\ now' = now
  BY DEF IInv, TypeOK, RevokeAll, SameSessions
<1>6. CallFits(c)' /\ OnTime(c)'
  BY <1>1, <1>2, NoneAssumption DEF CallFits, OnTime
<1>7. ASSUME NEW s \in Quiet', About(c, s)'
      PROVE  CallKnows(c, s)'
  <2>1. s \in Sessions /\ sessions[s].user = u
    BY <1>1, <1>2, <1>5, <1>7, NoneAssumption DEF About, SessionOf, Quiet
  <2>2. \A t \in Tokens : ~LiveIn(t, s)'
    BY <1>4, <2>1 DEF LiveIn, Narrowed, IInv, RowsFit
  <2> QED
    BY <1>1, <1>2, <2>2 DEF CallKnows
<1> QED
  BY <1>3, <1>4, <1>5, <1>6, <1>7, CallFrame

(* Statements that change a session: no token of it is in use, and the     *)
(* call is the only one about it.                                          *)
LEMMA TouchSessionKeeps ==
    ASSUME IInv, NEW c \in Calls, TouchSession(c), Record({})
    PROVE  IInv'
<1>0. PICK z \in Sessions : z = call[c].ses
  BY DEF IInv, CallsFit, CallFits, TouchSession
<1> DEFINE k == [call[c] EXCEPT !.pc = "insert", !.expires = now + TTL]
<1>1. /\ call[c] \in Call /\ CallFits(c) /\ OnTime(c) /\ call[c].pc = "touch"
      /\ z = call[c].ses /\ call[c].tok \in Tokens
      /\ sessions[z] \in Session /\ sessions[z].state # "none"
  BY <1>0 DEF IInv, TypeOK, CallsFit, CallFits, InTime, TouchSession
<1>2. k \in Call
  BY <1>1, ExpiryInRange DEF IInv, TypeOK, Call, Steps
<1>3. call' = [call EXCEPT ![c] = k] /\ call'[c] = k
  BY <1>1 DEF IInv, TypeOK, Call, TouchSession
<1>4. /\ call'[c].pc = "insert" /\ call'[c].tok = call[c].tok
      /\ call'[c].ses = z /\ call'[c].user = call[c].user
      /\ call'[c].began = call[c].began /\ call'[c].expires = now + TTL
  <2>1. /\ k.pc = "insert" /\ k.tok = call[c].tok /\ k.ses = call[c].ses
        /\ k.user = call[c].user /\ k.began = call[c].began /\ k.expires = now + TTL
    BY <1>1 DEF Call
  <2> HIDE DEF k
  <2> QED
    BY <1>0, <1>3, <2>1
<1>5. /\ Seen(sessions[z], call[c].began) \in Session
      /\ Seen(sessions[z], call[c].began).state = sessions[z].state
      /\ Seen(sessions[z], call[c].began).user = sessions[z].user
      /\ sessions[z].state # "deleted" =>
            Seen(sessions[z], call[c].began).lastSeen = call[c].began
  BY <1>1 DEF Seen, Session, Call
<1>6. /\ sessions'[z] = Seen(sessions[z], call[c].began)
      /\ \A s \in Sessions : s # z => sessions'[s] = sessions[s]
      /\ sessions' \in [Sessions -> Session]
      /\ tokens' = tokens /\ now' = now
  BY <1>1, <1>5 DEF TouchSession, IInv, TypeOK
<1>7. Narrowed /\ SameSessions
  BY <1>5, <1>6 DEF IInv, TypeOK, Narrowed, SameSessions
<1>8. call' \in [Calls -> Call] /\ \A d \in Calls \ {c} : call'[d] = call[d]
  BY <1>2, <1>3 DEF IInv, TypeOK
<1>9. CallFits(c)' /\ OnTime(c)'
  BY <1>1, <1>4, <1>6, <1>5 DEF CallFits, OnTime
<1>10. About(c, z) /\ \A s \in Quiet' : About(c, s)' => s = z
  BY <1>1, <1>4, <1>6, NoneAssumption DEF About, SessionOf, CallFits
<1>11. ASSUME z \in Quiet
       PROVE  /\ sessions[z].state = "live"
              /\ \A t \in Tokens : ~LiveIn(t, z) /\ ~LiveIn(t, z)'
              /\ \A d \in Calls \ {c} : ~About(d, z)
  <2>1. CallKnows(c, z)
    BY <1>10, <1>11 DEF IInv, QuietFits
  <2>2. \A d \in Calls \ {c} : ~About(d, z)
    BY <1>10, <1>11, Alone DEF IInv
  <2> QED
    BY <1>1, <1>6, <2>1, <2>2 DEF CallKnows, LiveIn
<1>12. ASSUME NEW s \in Quiet', About(c, s)'
       PROVE  CallKnows(c, s)'
  <2>1. s = z /\ z \in Quiet
    BY <1>10, <1>12, Recorded DEF IInv
  <2>2. now + TTL =< call[c].began + TTL + 1
    BY <1>1, TimeAssumption DEF OnTime, Call, Times, IInv, TypeOK
  <2> QED
    BY <1>4, <1>5, <1>6, <1>11, <2>1, <2>2 DEF CallKnows
<1>13. ASSUME NEW s \in Quiet', sessions'[s] # sessions[s]
       PROVE  Spared(s, {c})
  <2>1. s = z /\ z \in Quiet
    BY <1>6, <1>13, Recorded DEF IInv, Quiet
  <2> QED
    BY <1>11, <2>1 DEF Spared
<1> QED
  BY <1>6, <1>7, <1>8, <1>9, <1>12, <1>13, CallFrame

LEMMA CloseSessionKeeps ==
    ASSUME IInv, NEW c \in Calls, CloseSession(c), Record({})
    PROVE  IInv'
<1>0. /\ call[c] \in Call /\ CallFits(c) /\ call[c].pc = "close"
      /\ call[c].tok \in Tokens /\ call[c].ses = tokens[call[c].tok].ses
      /\ call[c].ses \in Sessions
  BY NoneAssumption DEF IInv, TypeOK, CallsFit, CallFits, RowsFit, CloseSession
<1>1. PICK z \in Sessions : z = call[c].ses
  BY <1>0
<1>2. /\ sessions[z] \in Session /\ Revoke(sessions[z]) \in Session
      /\ Revoke(sessions[z]).user = sessions[z].user
      /\ Revoke(sessions[z]).state = "none" <=> sessions[z].state = "none"
      /\ Revoke(sessions[z]).state # "live"
  <2>1. sessions[z] \in Session
    BY <1>1 DEF IInv, TypeOK
  <2>2. /\ Revoke(sessions[z]) \in Session
        /\ Revoke(sessions[z]).user = sessions[z].user
        /\ Revoke(sessions[z]).state =
              (IF sessions[z].state = "live" THEN "revoked" ELSE sessions[z].state)
    BY <2>1, RevokedSessionRow
  <2>3. CASE sessions[z].state = "live"
    BY <2>1, <2>2, <2>3
  <2>4. CASE sessions[z].state # "live"
    BY <2>1, <2>2, <2>4
  <2> QED
    BY <2>3, <2>4
<1>3. /\ sessions'[z] = Revoke(sessions[z])
      /\ \A s \in Sessions : s # z => sessions'[s] = sessions[s]
      /\ sessions' \in [Sessions -> Session]
      /\ tokens' = tokens /\ now' = now
  BY <1>1, <1>2 DEF CloseSession, IInv, TypeOK
<1>4. Narrowed /\ SameSessions
  BY <1>2, <1>3 DEF IInv, TypeOK, Narrowed, SameSessions
<1>5. /\ call' \in [Calls -> Call] /\ call'[c] = Idle
      /\ \A d \in Calls \ {c} : call'[d] = call[d]
  BY IdleIsCall DEF CloseSession, Return, IInv, TypeOK
<1>6. CallFits(c)' /\ OnTime(c)' /\ \A s \in Quiet' : ~About(c, s)'
  BY <1>5, NoneAssumption DEF Idle, CallFits, OnTime, About
<1>7. ASSUME NEW s \in Quiet', sessions'[s] # sessions[s]
      PROVE  Spared(s, {c})
  <2>1. s = z /\ z \in Quiet
    BY <1>3, <1>7, Recorded DEF IInv, Quiet
  <2>2. About(c, z)
    BY <1>0, <1>1, NoneAssumption DEF About, SessionOf
  <2>3. CallKnows(c, z)
    BY <2>1, <2>2 DEF IInv, QuietFits
  <2>4. \A d \in Calls \ {c} : ~About(d, z)
    BY <2>1, <2>2, Alone DEF IInv
  <2>5. \A t \in Tokens : ~LiveIn(t, z)'
    BY <1>0, <1>3, <2>3 DEF CallKnows, LiveIn
  <2> QED
    BY <2>1, <2>4, <2>5 DEF Spared
<1> QED
  BY <1>3, <1>4, <1>5, <1>6, <1>7, CallFrame

LEMMA RevokeAllSessionsKeeps ==
    ASSUME IInv, NEW c \in Calls, RevokeAllSessions(c), Record({})
    PROVE  IInv'
<1> DEFINE u == call[c].user
<1>1. call[c].pc = "revoke_sessions" /\ tokens' = tokens /\ now' = now
  BY DEF RevokeAllSessions
<1>2. \A s \in Sessions :
          /\ sessions[s].user # u => sessions'[s] = sessions[s]
          /\ sessions'[s] \in {sessions[s], Revoke(sessions[s])}
  BY DEF RevokeAllSessions
<1>3. \A s \in Sessions :
          /\ sessions[s] \in Session /\ Revoke(sessions[s]) \in Session
          /\ Revoke(sessions[s]).user = sessions[s].user
          /\ Revoke(sessions[s]).state =
                (IF sessions[s].state = "live" THEN "revoked" ELSE sessions[s].state)
  BY RevokedSessionRow DEF IInv, TypeOK
<1>4. Narrowed /\ SameSessions
  <2>1. sessions' \in [Sessions -> Session]
    BY <1>3 DEF RevokeAllSessions
  <2>2. ASSUME NEW s \in Sessions
        PROVE  /\ sessions'[s].user = sessions[s].user
               /\ sessions'[s].state = "none" <=> sessions[s].state = "none"
    <3>1. CASE sessions'[s] = sessions[s]
      BY <3>1
    <3>2. CASE sessions'[s] = Revoke(sessions[s]) /\ sessions[s].state = "live"
      BY <1>3, <3>2
    <3>3. CASE sessions'[s] = Revoke(sessions[s]) /\ sessions[s].state # "live"
      BY <1>3, <3>3
    <3> QED
      BY <1>2, <3>1, <3>2, <3>3
  <2> QED
    BY <1>1, <2>1, <2>2 DEF IInv, TypeOK, Narrowed, SameSessions
<1>5. /\ call' \in [Calls -> Call] /\ call'[c] = Idle
      /\ \A d \in Calls \ {c} : call'[d] = call[d]
  BY IdleIsCall DEF RevokeAllSessions, Return, IInv, TypeOK
<1>6. CallFits(c)' /\ OnTime(c)' /\ \A s \in Quiet' : ~About(c, s)'
  BY <1>5, NoneAssumption DEF Idle, CallFits, OnTime, About
<1>7. ASSUME NEW s \in Quiet', sessions'[s] # sessions[s]
      PROVE  Spared(s, {c})
  <2>1. s \in Quiet /\ s \in Sessions /\ sessions[s].user = u
    BY <1>2, <1>7, Recorded DEF IInv, Quiet
  <2>2. About(c, s)
    BY <1>1, <2>1 DEF About
  <2>3. CallKnows(c, s)
    BY <2>1, <2>2 DEF IInv, QuietFits
  <2>4. \A d \in Calls \ {c} : ~About(d, s)
    BY <2>1, <2>2, Alone DEF IInv
  <2>5. \A t \in Tokens : ~LiveIn(t, s)'
    BY <1>1, <2>3 DEF CallKnows, LiveIn
  <2> QED
    BY <2>4, <2>5 DEF Spared
<1> QED
  BY <1>1, <1>4, <1>5, <1>6, <1>7, CallFrame

-----------------------------------------------------------------------------
(* Statements that create a row.                                           *)

LEMMA CreateSessionKeeps ==
    ASSUME IInv, NEW c \in Calls, CreateSession(c), Record({})
    PROVE  IInv'
<1>1. PICK z \in Sessions :
          /\ sessions[z].state = "none"
          /\ sessions' = [sessions EXCEPT ![z] =
                [state |-> "live", user |-> call[c].user, lastSeen |-> call[c].began]]
          /\ call' = [call EXCEPT ![c].pc = "insert", ![c].ses = z]
  BY DEF CreateSession
<1> DEFINE k == [call[c] EXCEPT !.pc = "insert", !.ses = z]
<1>2. /\ call[c] \in Call /\ CallFits(c) /\ OnTime(c) /\ call[c].pc = "session"
      /\ tokens' = tokens /\ now' = now
  BY DEF IInv, TypeOK, CallsFit, InTime, CreateSession
<1>3. /\ k \in Call /\ k.pc = "insert" /\ k.ses = z /\ k.tok = call[c].tok
      /\ k.user = call[c].user /\ k.began = call[c].began
      /\ k.expires = call[c].expires
  BY <1>2 DEF Call, Steps
<1>4. call' = [call EXCEPT ![c] = k] /\ call'[c] = k
  BY <1>1, <1>2 DEF IInv, TypeOK, Call
<1> HIDE DEF k
<1>5. /\ sessions'[z].state = "live" /\ sessions'[z].user = call[c].user
      /\ sessions'[z].lastSeen = call[c].began
      /\ \A s \in Sessions : s # z => sessions'[s] = sessions[s]
      /\ sessions' \in [Sessions -> Session]
  BY <1>1, <1>2 DEF IInv, TypeOK, Session, States, Call
<1>6. \A d \in Calls : d # c => call'[d] = call[d]
  BY <1>4 DEF IInv, TypeOK
<1>7. TypeOK'
  BY <1>2, <1>3, <1>4, <1>5, Recorded DEF IInv, TypeOK
<1>8. /\ \A t \in Tokens : tokens[t].ses # z
      /\ \A d \in Calls : d # c /\ call[d].pc # "idle" => SessionOf(d) # z
  BY <1>1, <1>2, NoneAssumption
  DEF IInv, RowsFit, CallsFit, CallFits, SessionOf, TypeOK, Call, Steps
<1>9. RowsFit'
  BY <1>1, <1>2, <1>5, <1>8 DEF IInv, RowsFit
<1>10. CallsFit'
  <2>1. CallFits(c)'
    BY <1>2, <1>3, <1>4, <1>5, NoneAssumption DEF CallFits
  <2>2. ASSUME NEW d \in Calls, d # c
        PROVE  CallFits(d)'
    <3>1. CallFits(d) /\ call'[d] = call[d]
      BY <1>6, <2>2 DEF IInv, CallsFit
    <3>2. CASE call[d].pc \in {"revoke", "touch", "insert"}
      <4>1. call[d].ses \in Sessions /\ call[d].ses # z
        BY <1>1, <3>1, <3>2 DEF CallFits
      <4>2. sessions'[call[d].ses] = sessions[call[d].ses]
        BY <1>5, <4>1
      <4> QED
        BY <1>2, <3>1, <4>2 DEF CallFits
    <3>3. CASE call[d].pc \notin {"revoke", "touch", "insert"}
      BY <1>2, <3>1, <3>3 DEF CallFits
    <3> QED
      BY <3>2, <3>3
  <2> QED
    BY <2>1, <2>2 DEF CallsFit
<1>11. InTime'
  BY <1>2, <1>3, <1>4, <1>6 DEF IInv, InTime, OnTime
<1>12. OverlapsKnown' /\ Quiet' \subseteq Quiet
  BY Recorded DEF IInv
<1>13. ASSUME NEW s \in Quiet'
       PROVE  SessionFits(s)'
  <2>1. s \in Sessions /\ SessionFits(s)
    BY <1>12 DEF IInv, QuietFits, Quiet
  <2> QED
    BY <1>2, <1>5, <1>8, <2>1 DEF SessionFits, LiveIn
<1>14. ASSUME NEW s \in Quiet', NEW d \in Calls, About(d, s)'
       PROVE  CallKnows(d, s)'
  <2>1. s \in Quiet /\ s \in Sessions
    BY <1>12 DEF Quiet
  <2>2. CASE d = c
    <3>1. call[c].tok = None /\ s = z
      BY <1>2, <1>3, <1>4, <1>14, <2>2 DEF About, SessionOf, CallFits
    <3>2. call[c].expires = call[c].began + TTL
      BY <1>2 DEF OnTime
    <3>3. call[c].began + TTL =< call[c].began + TTL + 1
      BY <1>2, TimeAssumption DEF Call, Times
    <3> QED
      BY <1>2, <1>3, <1>4, <1>5, <1>8, <2>2, <3>1, <3>2, <3>3 DEF CallKnows, LiveIn
  <2>3. CASE d # c /\ s # z
    <3>1. About(d, s)
      BY <1>2, <1>5, <1>6, <1>14, <2>1, <2>3 DEF About, SessionOf
    <3>2. CallKnows(d, s)
      BY <2>1, <3>1 DEF IInv, QuietFits
    <3> QED
      BY <1>2, <1>5, <1>6, <2>1, <2>3, <3>2 DEF CallKnows, LiveIn, ActiveAt
  <2>4. CASE d # c /\ s = z
    <3>1. About(c, z)'
      BY <1>2, <1>3, <1>4 DEF About, SessionOf, CallFits
    <3> QED
      BY <1>12, <1>14, <2>4, <3>1 DEF OverlapsKnown, Overlapped, Quiet
  <2> QED
    BY <2>2, <2>3, <2>4
<1> QED
  BY <1>7, <1>9, <1>10, <1>11, <1>12, <1>13, <1>14 DEF IInv, QuietFits

LEMMA InsertTokenKeeps ==
    ASSUME IInv, NEW c \in Calls, InsertToken(c), Record({})
    PROVE  IInv'
<1>0. PICK z \in Sessions : z = call[c].ses
  BY DEF IInv, CallsFit, CallFits, InsertToken
<1>1. PICK t \in Tokens :
          tokens[t].state = "none" /\ tokens' = [tokens EXCEPT ![t] = NewToken(call[c])]
  BY DEF InsertToken
<1>2. /\ call[c] \in Call /\ CallFits(c) /\ call[c].pc = "insert" /\ z = call[c].ses
      /\ sessions' = sessions /\ now' = now
  BY <1>0 DEF IInv, TypeOK, CallsFit, CallFits, InsertToken
<1>3. /\ NewToken(call[c]) \in Token
      /\ NewToken(call[c]).state = "live" /\ NewToken(call[c]).ses = z
      /\ NewToken(call[c]).user = call[c].user
      /\ NewToken(call[c]).expires = call[c].expires
  BY <1>2 DEF NewToken, Token, Call, States
<1>4. /\ tokens'[t] = NewToken(call[c]) /\ tokens' \in [Tokens -> Token]
      /\ \A x \in Tokens : x # t => tokens'[x] = tokens[x]
  BY <1>1, <1>3 DEF IInv, TypeOK
<1>5. /\ call' \in [Calls -> Call] /\ call'[c] = Idle
      /\ \A d \in Calls : d # c => call'[d] = call[d]
  BY IdleIsCall DEF InsertToken, Return, IInv, TypeOK
<1>6. TypeOK'
  BY <1>2, <1>4, <1>5, Recorded DEF IInv, TypeOK
<1>7. \A d \in Calls : call[d].tok # t
  BY <1>1 DEF IInv, CallsFit, CallFits
<1>8. RowsFit'
  BY <1>2, <1>3, <1>4 DEF IInv, RowsFit, CallFits
<1>9. CallsFit' /\ InTime'
  <2>1. CallFits(c)' /\ OnTime(c)'
    BY <1>5, NoneAssumption DEF Idle, CallFits, OnTime
  <2>2. ASSUME NEW d \in Calls, d # c
        PROVE  CallFits(d)' /\ OnTime(d)'
    BY <1>2, <1>4, <1>5, <1>7, <2>2 DEF IInv, CallsFit, CallFits, InTime, OnTime
  <2> QED
    BY <2>1, <2>2 DEF CallsFit, InTime
<1>10. OverlapsKnown' /\ Quiet' \subseteq Quiet
  BY Recorded DEF IInv
<1>11. About(c, z)
  BY <1>2, NoneAssumption DEF About, SessionOf, CallFits, Call
<1>12. ASSUME z \in Quiet
       PROVE  /\ CallKnows(c, z) /\ \A x \in Tokens : ~LiveIn(x, z)
              /\ \A d \in Calls : About(d, z) => d = c
  <2>1. CallKnows(c, z)
    BY <1>11, <1>12 DEF IInv, QuietFits
  <2>2. \A d \in Calls : About(d, z) => d = c
    BY <1>11, <1>12, Alone DEF IInv
  <2> QED
    BY <1>2, <2>1, <2>2 DEF CallKnows
<1>13. \A x \in Tokens, s \in Sessions : LiveIn(x, s)' =>
            \/ x # t /\ LiveIn(x, s) /\ tokens'[x] = tokens[x]
            \/ x = t /\ s = z
  BY <1>3, <1>4 DEF LiveIn
<1>14. ASSUME NEW s \in Quiet'
       PROVE  SessionFits(s)'
  <2>1. s \in Quiet /\ s \in Sessions /\ SessionFits(s)
    BY <1>10 DEF IInv, QuietFits, Quiet
  <2>2. CASE s = z
    <3>1. \A x \in Tokens : LiveIn(x, z)' => x = t
      BY <1>2, <1>12, <1>13, <2>1, <2>2
    <3>2. sessions[z].state = "live" /\ call[c].expires =< sessions[z].lastSeen + TTL + 1
      BY <1>2, <1>12, <2>1, <2>2 DEF CallKnows
    <3> QED
      BY <1>2, <1>3, <1>4, <2>2, <3>1, <3>2 DEF SessionFits
  <2>3. CASE s # z
    BY <1>2, <1>13, <2>1, <2>3 DEF SessionFits
  <2> QED
    BY <2>2, <2>3
<1>15. ASSUME NEW s \in Quiet', NEW d \in Calls, About(d, s)'
       PROVE  CallKnows(d, s)'
  <2>1. s \in Quiet /\ s \in Sessions
    BY <1>10 DEF Quiet
  <2>2. d # c /\ call'[d] = call[d] /\ CallFits(d)
    BY <1>5, <1>15 DEF About, Idle, IInv, CallsFit
  <2>3. About(d, s)
    <3>1. CASE call[d].tok \in Tokens
      BY <1>2, <1>4, <1>7, <1>15, <2>2, <3>1 DEF About, SessionOf
    <3>2. CASE call[d].tok = None
      BY <1>2, <1>15, <2>2, <3>2 DEF About, SessionOf
    <3> QED
      BY <3>1, <3>2 DEF IInv, TypeOK, Call
  <2>4. s # z /\ CallKnows(d, s)
    BY <1>12, <2>1, <2>2, <2>3 DEF IInv, QuietFits
  <2>5. \A x \in Tokens : LiveIn(x, s)' => LiveIn(x, s)
    BY <1>13, <2>1, <2>4
  <2>6. call[d].pc = "check" =>
            (ActiveAt(call[d].tok, call[d].began)' => ActiveAt(call[d].tok, call[d].began))
    BY <1>4, <1>7, <2>2 DEF CallFits, ActiveAt
  <2> QED
    BY <1>2, <2>2, <2>4, <2>5, <2>6 DEF CallKnows, ActiveAt
<1> QED
  BY <1>6, <1>8, <1>9, <1>10, <1>14, <1>15 DEF IInv, QuietFits

-----------------------------------------------------------------------------
(* The cleanup jobs, the clock and the theorems.                           *)

LEMMA DeletionKeeps ==
    ASSUME IInv, NEW S \in SUBSET Sessions, DeleteSessions(S), Record({}),
           UNCHANGED <<tokens, call, now>>,
           \A s \in S, t \in Tokens : s \in Quiet /\ LiveIn(t, s) => ~(tokens[t].expires > now),
           \A s \in S : sessions[s].state \notin {"none", "deleted"}
    PROVE  IInv'
<1>1. /\ sessions' \in [Sessions -> Session]
      /\ \A s \in Sessions \ S : sessions'[s] = sessions[s]
      /\ \A s \in S : sessions'[s].state = "deleted" /\ sessions'[s].user = sessions[s].user
  BY DeletedSessions DEF IInv
<1>2. Narrowed
  BY DEF IInv, TypeOK, Narrowed
<1>3. SameSessions
  BY <1>1 DEF SameSessions
<1>4. ASSUME NEW s \in Quiet', sessions'[s] # sessions[s]
      PROVE  Spared(s, {})
  <2>1. s \in Quiet /\ s \in Sessions /\ s \notin Swept /\ s \in S
    BY <1>1, <1>4, Recorded DEF IInv, Quiet
  <2>2. \A t \in Tokens : LiveIn(t, s)' => ~(tokens[t].expires > now)
    BY <2>1 DEF LiveIn
  <2>3. sessions'[s].state = "deleted" /\ sessions[s].state # "deleted"
    BY <1>1, <2>1
  <2>4. \A d \in Calls : SessionOf(d) = s =>
            call[d].pc \notin {"check", "read", "revoke", "touch", "insert"}
    BY <2>1, <2>3 DEF Swept
  <2>5. \A d \in Calls : About(d, s) =>
            call[d].pc \notin {"check", "read", "revoke", "touch", "insert"}
    BY <2>4 DEF About
  <2> QED
    BY <2>2, <2>3, <2>5 DEF Spared
<1>5. /\ {} \in SUBSET Calls /\ {} \in SUBSET Sessions
      /\ call' \in [Calls -> Call] /\ \A d \in Calls \ {} : call'[d] = call[d]
      /\ now' = now
  BY DEF IInv, TypeOK
<1>6. \A c \in {} : CallFits(c)' /\ OnTime(c)'
  OBVIOUS
<1>7. \A s \in Quiet', c \in {} : About(c, s)' => CallKnows(c, s)'
  OBVIOUS
<1>8. \A s \in Quiet' : sessions'[s] # sessions[s] => Spared(s, {})
  BY <1>4
<1> QED
  BY <1>2, <1>3, <1>5, <1>6, <1>7, <1>8, FrameStep

LEMMA CleanupOrphanedSessionsKeeps ==
    ASSUME IInv, CleanupOrphanedSessions, Record({})
    PROVE  IInv'
<1>1. \A s \in Orphaned, t \in Tokens : LiveIn(t, s) => ~(tokens[t].expires > now)
  BY DEF Orphaned, HasActive, ActiveAt, LiveIn
<1>2. \A s \in Orphaned : sessions[s].state \notin {"none", "deleted"}
  BY DEF Orphaned, Stored
<1>3. Orphaned \in SUBSET Sessions
  BY DEF Orphaned
<1> QED
  BY <1>1, <1>2, <1>3, DeletionKeeps DEF CleanupOrphanedSessions

(* Refresh keeps last_seen_at no more than a tick and a TTL behind the     *)
(* expiry of the token.                                                    *)
LEMMA CleanupOldSessionsKeeps ==
    ASSUME IInv, CleanupOldSessions, Record({})
    PROVE  IInv'
<1>1. ASSUME NEW s \in Old, NEW t \in Tokens, s \in Quiet, LiveIn(t, s)
      PROVE  ~(tokens[t].expires > now)
  <2>1. /\ SessionFits(s) /\ s \in Sessions
        /\ sessions[s].lastSeen \in Int /\ tokens[t].expires \in Int /\ now \in Int
        /\ sessions[s].lastSeen < now - Age
    BY <1>1, TimeAssumption
    DEF Old, IInv, QuietFits, TypeOK, Session, Token, Times, Expiries
  <2>2. CASE sessions[s].state = "live"
    <3>1. tokens[t].expires =< sessions[s].lastSeen + TTL + 1
      BY <1>1, <2>1, <2>2 DEF SessionFits
    <3> QED
      BY <2>1, <3>1, TimeAssumption, AgeAssumption
  <2>3. CASE sessions[s].state # "live"
    BY <1>1, <2>1, <2>3 DEF SessionFits
  <2> QED
    BY <2>2, <2>3
<1>2. \A s \in Old : sessions[s].state \notin {"none", "deleted"}
  BY DEF Old, Stored
<1>3. Old \in SUBSET Sessions
  BY DEF Old
<1> QED
  BY <1>1, <1>2, <1>3, DeletionKeeps DEF CleanupOldSessions

LEMMA CleanupExpiredTokensKeeps ==
    ASSUME IInv, CleanupExpiredTokens, Record({})
    PROVE  IInv'
<1>1. Expired \in SUBSET Tokens /\ \A t \in Expired : tokens[t].state # "none"
  BY DEF Expired, Stored
<1>2. /\ tokens' \in [Tokens -> Token]
      /\ \A t \in Tokens \ Expired : tokens'[t] = tokens[t]
      /\ \A t \in Expired : /\ tokens'[t].state = "deleted"
                            /\ tokens'[t].user = tokens[t].user
                            /\ tokens'[t].ses = tokens[t].ses
  BY <1>1, DeletedTokens DEF IInv, CleanupExpiredTokens
<1>3. Narrowed
  BY <1>1, <1>2 DEF Narrowed
<1>4. SameSessions /\ sessions' = sessions
  BY DEF IInv, TypeOK, SameSessions, CleanupExpiredTokens
<1>5. /\ {} \in SUBSET Calls /\ {} \in SUBSET Sessions
      /\ call' \in [Calls -> Call] /\ \A d \in Calls \ {} : call'[d] = call[d]
      /\ now' = now
  BY DEF IInv, TypeOK, CleanupExpiredTokens
<1>6. \A c \in {} : CallFits(c)' /\ OnTime(c)'
  OBVIOUS
<1>7. \A s \in Quiet', c \in {} : About(c, s)' => CallKnows(c, s)'
  OBVIOUS
<1>8. \A s \in Quiet' : sessions'[s] # sessions[s] => Spared(s, {})
  BY <1>4
<1> QED
  BY <1>3, <1>4, <1>5, <1>6, <1>7, <1>8, FrameStep

LEMMA TickKeeps ==
    ASSUME IInv, Tick, Record({})
    PROVE  IInv'
<1>1. /\ now \in Int /\ now' = now + 1 /\ now' \in Times
      /\ tokens' = tokens /\ sessions' = sessions /\ call' = call
  BY TimeAssumption DEF IInv, TypeOK, Tick, Times
<1>2. TypeOK'
  BY <1>1, Recorded DEF IInv, TypeOK
<1>3. RowsFit' /\ CallsFit'
  BY <1>1 DEF IInv, RowsFit, CallsFit, CallFits
<1>4. InTime'
  <2>1. ASSUME NEW c \in Calls
        PROVE  OnTime(c)'
    BY <1>1 DEF IInv, InTime, OnTime, Tick
  <2> QED
    BY <2>1 DEF InTime
<1>5. OverlapsKnown' /\ Quiet' \subseteq Quiet
  BY Recorded DEF IInv
<1>6. ASSUME NEW s \in Quiet'
      PROVE  SessionFits(s)'
  <2>1. SessionFits(s)
    BY <1>5 DEF IInv, QuietFits
  <2>2. \A t \in Tokens : tokens[t].expires > now' => tokens[t].expires > now
    BY <1>1, TimeAssumption DEF IInv, TypeOK, Token, Expiries
  <2> QED
    BY <1>1, <2>1, <2>2 DEF SessionFits, LiveIn
<1>7. ASSUME NEW s \in Quiet', NEW c \in Calls, About(c, s)'
      PROVE  CallKnows(c, s)'
  <2>1. CallKnows(c, s)
    BY <1>1, <1>5, <1>7 DEF IInv, QuietFits, About, SessionOf
  <2> QED
    BY <1>1, <2>1 DEF CallKnows, LiveIn, ActiveAt
<1> QED
  BY <1>2, <1>3, <1>4, <1>5, <1>6, <1>7 DEF IInv, QuietFits

LEMMA InitFits ==
    ASSUME Init
    PROVE  IInv
<1>1. NoToken \in Token /\ NoSession \in Session
  BY TimeAssumption DEF NoToken, NoSession, Token, Session, States, Times, Expiries
<1>2. TypeOK
  BY <1>1, IdleIsCall, TimeAssumption DEF Init, TypeOK, Times
<1>3. RowsFit
  BY DEF Init, RowsFit, NoToken
<1>4. CallsFit /\ InTime
  BY NoneAssumption DEF Init, CallsFit, CallFits, InTime, OnTime, Idle
<1>5. \A c \in Calls, s \in Sessions : ~About(c, s)
  BY DEF Init, About, Idle
<1>6. OverlapsKnown
  BY <1>5 DEF OverlapsKnown, Overlapped
<1>7. \A t \in Tokens, s \in Sessions : ~LiveIn(t, s)
  BY DEF Init, LiveIn, NoToken
<1>8. QuietFits
  BY <1>5, <1>7 DEF QuietFits, SessionFits, Quiet
<1> QED
  BY <1>2, <1>3, <1>4, <1>6, <1>8 DEF IInv

LEMMA CallStepKeeps ==
    ASSUME IInv, NEW c \in Calls, CallStep(c), Record({})
    PROVE  IInv'
<1>1. ASSUME NEW u \in Users, StartLogin(c, u)
      PROVE  IInv'
  BY <1>1, StartLoginKeeps
<1>2. ASSUME NEW u \in Users, RevokeAll(c, u)
      PROVE  IInv'
  BY <1>2, RevokeAllKeeps
<1>3. ASSUME NEW t \in Tokens, StartRefresh(c, t)
      PROVE  IInv'
  BY <1>3, StartRefreshKeeps
<1>4. ASSUME NEW t \in Tokens, StartLogout(c, t)
      PROVE  IInv'
  BY <1>4, StartLogoutKeeps
<1>5. CASE CreateSession(c)
  BY <1>5, CreateSessionKeeps
<1>6. CASE InsertToken(c)
  BY <1>6, InsertTokenKeeps
<1>7. CASE CheckActive(c)
  BY <1>7, CheckActiveKeeps
<1>8. CASE ReadToken(c)
  BY <1>8, ReadTokenKeeps
<1>9. CASE RevokeOld(c)
  BY <1>9, RevokeOldKeeps
<1>10. CASE TouchSession(c)
  BY <1>10, TouchSessionKeeps
<1>11. CASE RevokeOwn(c)
  BY <1>11, RevokeOwnKeeps
<1>12. CASE CheckSession(c)
  BY <1>12, CheckSessionKeeps
<1>13. CASE CloseSession(c)
  BY <1>13, CloseSessionKeeps
<1>14. CASE RevokeAllSessions(c)
  BY <1>14, RevokeAllSessionsKeeps
<1>15. CASE Abort(c)
  BY <1>15, AbortKeeps
<1> QED
  BY <1>1, <1>2, <1>3, <1>4, <1>5, <1>6, <1>7, <1>8, <1>9, <1>10, <1>11,
     <1>12, <1>13, <1>14, <1>15 DEF CallStep

LEMMA NextKeeps ==
    ASSUME IInv, [Next]_vars
    PROVE  IInv'
<1>1. ASSUME NEW c \in Calls, CallStep(c), Record({})
      PROVE  IInv'
  BY <1>1, CallStepKeeps
<1>2. ASSUME NEW c \in Calls, SkipTouch(c), Record({call[c].ses})
      PROVE  IInv'
  BY <1>2, SkipTouchKeeps
<1>3. ASSUME NEW c \in Calls, NEW u \in Users, SkipRevokeAll(c, u),
             Record(SessionsOfUser(u))
      PROVE  IInv'
  BY <1>3, SkipRevokeAllKeeps
<1>4. CASE Cleanup /\ Record({})
  BY <1>4, CleanupExpiredTokensKeeps, CleanupOrphanedSessionsKeeps,
     CleanupOldSessionsKeeps DEF Cleanup
<1>5. CASE Tick /\ Record({})
  BY <1>5, TickKeeps
<1>6. CASE UNCHANGED vars
  <2>1. /\ tokens' = tokens /\ sessions' = sessions /\ call' = call
        /\ now' = now /\ disturbed' = disturbed
    BY <1>6 DEF vars
  <2>2. TypeOK' /\ RowsFit' /\ CallsFit' /\ InTime'
    BY <2>1 DEF IInv, TypeOK, RowsFit, CallsFit, CallFits, InTime, OnTime
  <2>3. OverlapsKnown'
    BY <2>1 DEF IInv, OverlapsKnown, Overlapped, About, SessionOf
  <2>4. QuietFits'
    BY <2>1 DEF IInv, QuietFits, Quiet, SessionFits, CallKnows, LiveIn, ActiveAt,
                About, SessionOf
  <2> QED
    BY <2>2, <2>3, <2>4 DEF IInv
<1> QED
  BY <1>1, <1>2, <1>4, <1>5, <1>6, <1>3 DEF Next

(* The inductive invariant, at every moment of every run of the service.   *)
THEOREM Invariance == Spec => []IInv
<1>1. Init => IInv
  BY InitFits
<1>2. IInv /\ [Next]_vars => IInv'
  BY NextKeeps
<1> QED
  BY <1>1, <1>2, PTL DEF Spec

(* Rows, the locals of the handlers and the clock keep their types.        *)
THEOREM TypeCorrect == Spec => []TypeOK
<1>1. IInv => TypeOK
  BY DEF IInv
<1> QED
  BY <1>1, Invariance, PTL

(* Refresh replaces a token and never adds one: a session that no two      *)
(* calls overlapped about has at most one token that is not revoked, at    *)
(* whatever statement calls are cut off (auth_service.go:206).             *)
THEOREM OneToken == Spec => []OneTokenPerSession
<1>1. IInv => OneTokenPerSession
  <2> SUFFICES ASSUME IInv, NEW t1 \in Tokens, NEW t2 \in Tokens,
                      tokens[t1].state = "live", tokens[t2].state = "live",
                      tokens[t1].ses = tokens[t2].ses,
                      tokens[t1].ses \notin disturbed
               PROVE  t1 = t2
    BY DEF OneTokenPerSession
  <2>1. tokens[t1].ses \in Quiet
    BY DEF IInv, RowsFit, Quiet
  <2>2. SessionFits(tokens[t1].ses)
    BY <2>1 DEF IInv, QuietFits
  <2> QED
    BY <2>2 DEF SessionFits, LiveIn
<1> QED
  BY <1>1, Invariance, PTL

(* A token that Refresh would accept has a session that is still there and *)
(* not revoked, unless calls overlapped about it or the cleanup jobs swept *)
(* it from under a call (cleanup.go:68, :94).                              *)
THEOREM SessionKept == Spec => []ActiveTokenHasSession
<1>1. IInv => ActiveTokenHasSession
  <2> SUFFICES ASSUME IInv, NEW t \in Tokens, ActiveAt(t, now),
                      tokens[t].ses \notin disturbed
               PROVE  sessions[tokens[t].ses].state = "live"
    BY DEF ActiveTokenHasSession
  <2>1. tokens[t].ses \in Quiet
    BY DEF IInv, RowsFit, Quiet, ActiveAt
  <2>2. SessionFits(tokens[t].ses)
    BY <2>1 DEF IInv, QuietFits
  <2> QED
    BY <2>2 DEF SessionFits, LiveIn, ActiveAt
<1> QED
  BY <1>1, Invariance, PTL

-----------------------------------------------------------------------------
(* Dead tokens.                                                            *)

(* What a step may do to a row of refresh_tokens: nothing, take it out of  *)
(* use, or create it for a handler that is about to insert.                *)
Aged(t) ==
    \/ tokens'[t] = tokens[t]
    \/ /\ tokens[t].state # "none"
       /\ tokens'[t].state \in {"revoked", "deleted"}
       /\ tokens'[t].parent = tokens[t].parent
       /\ tokens'[t].ses = tokens[t].ses
Created(t) ==
    /\ tokens[t].state = "none"
    /\ \E c \in Calls : /\ call[c].pc = "insert"
                        /\ tokens'[t].state = "live"
                        /\ tokens'[t].parent = call[c].tok
                        /\ tokens'[t].ses = call[c].ses
                        /\ call'[c] = Idle

LEMMA RevokedRow ==
    ASSUME TypeOK, NEW t \in Tokens, tokens'[t] = Revoke(tokens[t])
    PROVE  Aged(t)
<1>1. CASE tokens[t].state = "live"
  BY <1>1 DEF TypeOK, Token, Revoke, Aged
<1>2. CASE tokens[t].state # "live"
  BY <1>2 DEF Revoke, Aged
<1> QED
  BY <1>1, <1>2

LEMMA RowStep ==
    ASSUME IInv, [Next]_vars, NEW t \in Tokens
    PROVE  Aged(t) \/ Created(t)
<1>1. TypeOK
  BY DEF IInv
<1>2. ASSUME NEW x, RevokeToken(x)
      PROVE  Aged(t)
  <2>1. tokens'[t] = tokens[t] \/ tokens'[t] = Revoke(tokens[t])
    BY <1>1, <1>2 DEF TypeOK, RevokeToken
  <2> QED
    BY <1>1, <2>1, RevokedRow DEF Aged
<1>3. ASSUME NEW c \in Calls, NEW u \in Users, RevokeAll(c, u)
      PROVE  Aged(t)
  <2>1. tokens'[t] = tokens[t] \/ tokens'[t] = Revoke(tokens[t])
    BY <1>3 DEF RevokeAll
  <2> QED
    BY <1>1, <2>1, RevokedRow DEF Aged
<1>4. ASSUME NEW c \in Calls, InsertToken(c)
      PROVE  Aged(t) \/ Created(t)
  <2>1. PICK x \in Tokens : /\ tokens[x].state = "none"
                            /\ tokens' = [tokens EXCEPT ![x] = NewToken(call[c])]
    BY <1>4 DEF InsertToken
  <2>2. CASE x = t
    BY <1>1, <1>4, <2>1, <2>2 DEF TypeOK, InsertToken, NewToken, Created, Return
  <2>3. CASE x # t
    BY <1>1, <2>1, <2>3 DEF TypeOK, Aged
  <2> QED
    BY <2>2, <2>3
<1>5. CASE CleanupExpiredTokens
  <2>1. CASE t \in Expired
    <3>1. tokens'[t] = [tokens[t] EXCEPT !.state = "deleted", !.expires = 0]
      BY <1>5, <2>1 DEF CleanupExpiredTokens, DeleteTokens
    <3>2. tokens[t].state # "none" /\ tokens[t] \in Token
      BY <1>1, <2>1 DEF Expired, Stored, TypeOK
    <3> QED
      BY <3>1, <3>2 DEF Token, Aged
  <2>2. CASE t \notin Expired
    BY <1>5, <2>2 DEF CleanupExpiredTokens, DeleteTokens, Aged
  <2> QED
    BY <2>1, <2>2
<1>6. ASSUME NEW c \in Calls, CallStep(c)
      PROVE  Aged(t) \/ Created(t)
  <2>1. CASE UNCHANGED tokens
    BY <2>1 DEF Aged
  <2>2. CASE RevokeOld(c) \/ RevokeOwn(c)
    BY <1>2, <2>2 DEF RevokeOld, RevokeOwn
  <2>3. CASE \E u \in Users : RevokeAll(c, u)
    BY <1>3, <2>3
  <2>4. CASE InsertToken(c)
    BY <1>4, <2>4
  <2> QED
    BY <1>6, <2>1, <2>2, <2>3, <2>4
    DEF CallStep, StartLogin, StartRefresh, StartLogout, CreateSession, CheckActive,
        ReadToken, TouchSession, CheckSession, CloseSession, RevokeAllSessions, Abort
<1>7. CASE UNCHANGED tokens
  BY <1>7 DEF Aged
<1> QED
  BY <1>5, <1>6, <1>7
  DEF Next, vars, SkipTouch, SkipRevokeAll, Cleanup, CleanupOrphanedSessions, CleanupOldSessions, Tick

(* A call goes past ReadToken only with a token that is not revoked.       *)
Committed == {"revoke", "touch", "insert"}

LEMMA CommittedStep ==
    ASSUME IInv, [Next]_vars, NEW d \in Calls, call'[d].pc \in Committed
    PROVE  \/ call'[d] = call[d]
           \/ CreateSession(d) \/ ReadToken(d) \/ RevokeOld(d)
           \/ TouchSession(d) \/ SkipTouch(d)
<1>1. call \in [Calls -> Call] /\ call[d] \in Call
  BY DEF IInv, TypeOK
<1>2. ASSUME NEW c \in Calls, c # d,
             CallStep(c) \/ SkipTouch(c) \/ \E u \in Users : SkipRevokeAll(c, u)
      PROVE  call'[d] = call[d]
  BY <1>1, <1>2
  DEF CallStep, SkipTouch, SkipRevokeAll, StartLogin, StartRefresh, StartLogout, CreateSession,
      CheckActive, ReadToken, TouchSession, CheckSession, CloseSession, RevokeAll,
      RevokeAllSessions, Abort, RevokeOld, RevokeOwn, InsertToken, Goto, Return
<1>3. CASE CheckActive(d) \/ RevokeOwn(d) \/ CheckSession(d) \/ CloseSession(d)
           \/ RevokeAllSessions(d) \/ Abort(d) \/ InsertToken(d)
  <2>1. call'[d].pc \in {"idle", "read", "still_active", "close"}
    BY <1>1, <1>3
    DEF CheckActive, RevokeOwn, CheckSession, CloseSession, RevokeAllSessions, Abort,
        InsertToken, Goto, Return, Idle, Call
  <2> QED
    BY <2>1 DEF Committed
<1>4. ASSUME NEW u \in Users, StartLogin(d, u) \/ RevokeAll(d, u) \/ SkipRevokeAll(d, u)
      PROVE  call'[d].pc \in {"session", "revoke_sessions"}
  <2>1. CASE StartLogin(d, u)
    <3>1. call'[d] = [Idle EXCEPT !.pc = "session", !.user = u, !.began = now,
                                  !.expires = now + TTL]
      BY <1>1, <2>1 DEF StartLogin
    <3> QED
      BY <3>1, IdleIsCall DEF Call
  <2>2. CASE RevokeAll(d, u) \/ SkipRevokeAll(d, u)
    <3>1. call'[d] = [Idle EXCEPT !.pc = "revoke_sessions", !.user = u]
      BY <1>1, <2>2 DEF RevokeAll, SkipRevokeAll
    <3> QED
      BY <3>1, IdleIsCall DEF Call
  <2> QED
    BY <1>4, <2>1, <2>2
<1>5. ASSUME NEW t \in Tokens, StartRefresh(d, t) \/ StartLogout(d, t)
      PROVE  call'[d].pc \in {"check", "logout"}
  <2>1. CASE StartRefresh(d, t)
    <3>1. call'[d] = [Idle EXCEPT !.pc = "check", !.tok = t, !.began = now]
      BY <1>1, <2>1 DEF StartRefresh
    <3> QED
      BY <3>1, IdleIsCall DEF Call
  <2>2. CASE StartLogout(d, t)
    <3>1. call'[d] = [Idle EXCEPT !.pc = "logout", !.tok = t, !.ses = tokens[t].ses]
      BY <1>1, <2>2 DEF StartLogout
    <3> QED
      BY <3>1, IdleIsCall DEF Call
  <2> QED
    BY <1>5, <2>1, <2>2
<1> QED
  BY <1>2, <1>3, <1>4, <1>5
  DEF Next, vars, CallStep, Cleanup, CleanupExpiredTokens, CleanupOrphanedSessions,
      CleanupOldSessions, Tick, Committed

LEMMA CallsStep ==
    ASSUME IInv, [Next]_vars, NEW d \in Calls, call'[d].tok \in Tokens,
           call'[d].pc \in Committed
    PROVE  /\ call'[d].tok = call[d].tok
           /\ call[d].pc \notin Committed => tokens[call[d].tok].state = "live"
<1>1. call \in [Calls -> Call] /\ call[d] \in Call /\ CallFits(d)
  BY DEF IInv, TypeOK, CallsFit
<1>2. CASE call'[d] = call[d]
  BY <1>2
<1>3. CASE CreateSession(d)
  <2>1. call[d].tok = None
    BY <1>1, <1>3 DEF CallFits, CreateSession
  <2>2. call'[d].tok = call[d].tok
    BY <1>1, <1>3 DEF CreateSession, Call
  <2> QED
    BY <2>1, <2>2, NoneAssumption
<1>4. CASE ReadToken(d)
  BY <1>1, <1>4 DEF ReadToken, Found, Return, Idle, Call, Committed
<1>5. CASE RevokeOld(d) \/ TouchSession(d) \/ SkipTouch(d)
  BY <1>1, <1>5 DEF RevokeOld, TouchSession, SkipTouch, Goto, Call, Committed
<1> QED
  BY <1>2, <1>3, <1>4, <1>5, CommittedStep

(* An id that was never generated is nobody's successor.                   *)
Blank == \A t \in Tokens : tokens[t].state = "none" => tokens[t].parent = None

LEMMA BlankAlways == Spec => []Blank
<1>1. Init => Blank
  BY DEF Init, Blank, NoToken
<1>2. IInv /\ Blank /\ [Next]_vars => Blank'
  BY RowStep DEF Blank, Aged, Created
<1> QED
  BY <1>1, <1>2, Invariance, PTL DEF Spec

(* A token that is revoked or deleted, and that no Refresh had read before *)
(* that, never gets a successor, however the calls and the cleanup jobs    *)
(* overlap: what Refresh relies on when it does not look at RowsAffected   *)
(* (auth_service.go:227).                                                  *)
THEOREM Barren == Spec => DeadTokensStayBarren
<1>1. ASSUME IInv, Blank, [Next]_vars, NEW t \in Tokens, Dead(t)
      PROVE  Dead(t)' /\ Successors(t)' = Successors(t)
  <2>1. tokens'[t].state \in {"revoked", "deleted"}
    <3>1. Aged(t) \/ Created(t)
      BY <1>1, RowStep
    <3> QED
      BY <1>1, <3>1 DEF Dead, Aged, Created
  <2>2. ASSUME NEW c \in Calls, call'[c].tok = t, call'[c].pc \in Committed
        PROVE  FALSE
    <3>1. /\ call[c].tok = t
          /\ call[c].pc \notin Committed => tokens[t].state = "live"
      BY <1>1, <2>2, CallsStep
    <3> QED
      BY <1>1, <3>1 DEF Dead, Committed
  <2>3. ASSUME NEW x \in Tokens
        PROVE  tokens'[x].parent = t <=> tokens[x].parent = t
    <3>1. Aged(x) \/ Created(x)
      BY <1>1, RowStep
    <3>2. CASE Aged(x)
      BY <3>2 DEF Aged
    <3>3. CASE Created(x)
      BY <1>1, <3>3, NoneAssumption DEF Created, Dead, Blank
    <3> QED
      BY <3>1, <3>2, <3>3
  <2> QED
    BY <2>1, <2>2, <2>3 DEF Dead, Committed, Successors
<1>2. IInv /\ Blank /\ [Next]_vars =>
          [\A t \in Tokens : Dead(t) => Dead(t)' /\ Successors(t)' = Successors(t)]_vars
  BY <1>1
<1> QED
  BY <1>2, Invariance, BlankAlways, PTL DEF Spec, DeadTokensStayBarren

-----------------------------------------------------------------------------
(* Sessions are families.                                                  *)

(* A token that is still in use, or that a Refresh has in hand, has no     *)
(* heir yet, and a session that Login is about to give a token has none.   *)
ChainFits(s) ==
    /\ \A t, x \in Tokens : LiveIn(t, s) /\ tokens[x].ses = s => tokens[x].parent # t
    /\ \A c \in Calls : About(c, s) /\ call[c].pc \in Committed =>
          \A x \in Tokens : tokens[x].ses = s => tokens[x].parent # call[c].tok

ChainInv ==
    /\ \A x \in Tokens : tokens[x].parent \in Tokens => tokens[tokens[x].parent].state # "none"
    /\ \A s \in Quiet : ChainFits(s)

(* The call that is about to insert a token is about the token's session.  *)
LEMMA InserterIsAbout ==
    ASSUME IInv, NEW c \in Calls, call[c].pc = "insert"
    PROVE  call[c].ses \in Sessions /\ About(c, call[c].ses)
<1>1. CallFits(c) /\ call[c] \in Call
  BY DEF IInv, CallsFit, TypeOK
<1> QED
  BY <1>1, NoneAssumption DEF CallFits, Call, About, SessionOf

LEMMA QuietShrinks ==
    ASSUME IInv, [Next]_vars
    PROVE  Quiet' \subseteq Quiet
<1>1. disturbed \subseteq disturbed'
  BY DEF Next, Record, vars
<1> QED
  BY <1>1 DEF Quiet

(* A Login comes to its last statement by creating the session.            *)
LEMMA LoginStep ==
    ASSUME IInv, [Next]_vars, NEW d \in Calls, call'[d].tok = None, call'[d].pc \in Committed
    PROVE  \/ call'[d] = call[d]
           \/ /\ tokens' = tokens
              /\ \E s \in Sessions : sessions[s].state = "none" /\ call'[d].ses = s
<1>1. call \in [Calls -> Call] /\ call[d] \in Call /\ CallFits(d)
  BY DEF IInv, TypeOK, CallsFit
<1>2. CASE call'[d] = call[d]
  BY <1>2
<1>3. CASE CreateSession(d)
  <2>1. PICK s \in Sessions : /\ sessions[s].state = "none"
                              /\ call' = [call EXCEPT ![d].pc = "insert", ![d].ses = s]
    BY <1>3 DEF CreateSession
  <2>2. call'[d].ses = s
    BY <1>1, <2>1 DEF Call
  <2> QED
    BY <1>3, <2>1, <2>2 DEF CreateSession
<1>4. CASE ReadToken(d) \/ RevokeOld(d) \/ TouchSession(d) \/ SkipTouch(d)
  <2>1. call[d].tok \in Tokens
    BY <1>1, <1>4 DEF ReadToken, RevokeOld, TouchSession, SkipTouch, CallFits
  <2>2. call'[d].tok = call[d].tok \/ call'[d].pc = "idle"
    BY <1>1, <1>4 DEF ReadToken, RevokeOld, TouchSession, SkipTouch, Goto, Return, Idle, Call
  <2> QED
    BY <2>1, <2>2, NoneAssumption DEF Committed
<1> QED
  BY <1>2, <1>3, <1>4, CommittedStep

(* What a step does to the tokens of a session, it does to the family.     *)
LEMMA HeirStep ==
    ASSUME IInv, [Next]_vars, NEW s \in Sessions, NEW x \in Tokens, tokens'[x].ses = s
    PROVE  \/ /\ tokens[x].ses = s /\ tokens'[x].parent = tokens[x].parent
              /\ tokens'[x].state = "live" => tokens[x].state = "live"
           \/ /\ tokens[x].state = "none"
              /\ \E c \in Calls : /\ call[c].pc = "insert" /\ About(c, s)
                                  /\ tokens'[x].parent = call[c].tok /\ call'[c] = Idle
<1>1. CASE Aged(x)
  BY <1>1 DEF Aged
<1>2. CASE Created(x)
  <2>1. PICK c \in Calls : /\ call[c].pc = "insert" /\ tokens'[x].parent = call[c].tok
                           /\ tokens'[x].ses = call[c].ses /\ call'[c] = Idle
    BY <1>2 DEF Created
  <2>2. About(c, s)
    BY <2>1, InserterIsAbout
  <2> QED
    BY <1>2, <2>1, <2>2 DEF Created
<1> QED
  BY <1>1, <1>2, RowStep

LEMMA ChainKeeps ==
    ASSUME IInv, ChainInv, [Next]_vars
    PROVE  ChainInv'
<1>1. ASSUME NEW x \in Tokens, tokens'[x].parent \in Tokens
      PROVE  tokens'[tokens'[x].parent].state # "none"
  <2> DEFINE p == tokens'[x].parent
  <2>1. tokens[p].state # "none"
    <3>1. CASE Aged(x)
      BY <1>1, <3>1 DEF Aged, ChainInv
    <3>2. CASE Created(x)
      BY <1>1, <3>2 DEF Created, IInv, CallsFit, CallFits
    <3> QED
      BY <3>1, <3>2, RowStep
  <2>2. Aged(p)
    BY <1>1, <2>1, RowStep DEF Created
  <2> QED
    BY <2>1, <2>2 DEF Aged
<1>2. ASSUME NEW s \in Quiet', NEW t \in Tokens, NEW x \in Tokens,
             LiveIn(t, s)', tokens'[x].ses = s, tokens'[x].parent = t
      PROVE  FALSE
  <2>1. s \in Sessions /\ s \in Quiet /\ ChainFits(s)
    BY QuietShrinks DEF Quiet, ChainInv
  <2>2. CASE LiveIn(t, s)
    <3>1. CASE tokens[x].ses = s /\ tokens'[x].parent = tokens[x].parent
      BY <1>2, <2>1, <2>2, <3>1 DEF ChainFits
    <3>2. ASSUME NEW c \in Calls, call[c].pc = "insert", About(c, s)
          PROVE  FALSE
      BY <2>1, <2>2, <3>2 DEF IInv, QuietFits, CallKnows
    <3> QED
      BY <1>2, <2>1, <3>1, <3>2, HeirStep
  <2>3. CASE tokens[t].state = "none"
    <3>1. CASE tokens'[x].parent = tokens[x].parent
      BY <1>2, <2>3, <3>1 DEF ChainInv
    <3>2. ASSUME NEW c \in Calls, call[c].pc = "insert", tokens'[x].parent = call[c].tok
          PROVE  FALSE
      BY <1>2, <2>3, <3>2 DEF IInv, CallsFit, CallFits
    <3> QED
      BY <1>2, <2>1, <3>1, <3>2, HeirStep
  <2> QED
    BY <1>2, <2>1, <2>2, <2>3, HeirStep DEF LiveIn
<1>3. ASSUME NEW s \in Quiet', NEW d \in Calls, About(d, s)', call'[d].pc \in Committed,
             NEW x \in Tokens, tokens'[x].ses = s, tokens'[x].parent = call'[d].tok
      PROVE  FALSE
  <2>1. s \in Sessions /\ s \in Quiet /\ ChainFits(s)
    BY QuietShrinks DEF Quiet, ChainInv
  <2>2. /\ call[d] \in Call /\ call'[d] \in Call /\ CallFits(d) /\ CallFits(d)'
        /\ call'[d].pc # "idle"
    BY <1>3, NextKeeps DEF IInv, TypeOK, CallsFit, Committed
  <2>3. ASSUME NEW c \in Calls, About(c, s), About(d, s), call'[c] = Idle
        PROVE  FALSE
    <3>1. c = d
      BY <2>1, <2>3, Alone DEF IInv
    <3> QED
      BY <2>2, <2>3, <3>1 DEF Idle
  <2>4. CASE call'[d].tok \in Tokens
    <3> DEFINE t == call'[d].tok
    <3>1. /\ call[d].tok = t
          /\ call[d].pc \notin Committed => tokens[t].state = "live"
      BY <1>3, <2>4, CallsStep
    <3>2. tokens[t].state # "none" /\ call[d].pc # "idle"
      BY <2>2, <2>4, <3>1, NoneAssumption DEF CallFits
    <3>3. tokens'[t].ses = tokens[t].ses
      BY <2>4, <3>2, RowStep DEF Aged, Created
    <3>4. tokens[t].ses = s
      BY <1>3, <2>2, <2>4, <3>3, NoneAssumption DEF About, SessionOf, Committed
    <3>5. About(d, s)
      BY <2>4, <3>1, <3>2, <3>4, NoneAssumption DEF About, SessionOf
    <3>6. CASE tokens[x].ses = s /\ tokens'[x].parent = tokens[x].parent
      BY <1>3, <2>1, <3>1, <3>4, <3>5, <3>6, <2>4 DEF ChainFits, LiveIn
    <3> QED
      BY <1>3, <2>1, <2>3, <3>5, <3>6, HeirStep
  <2>5. CASE call'[d].tok = None
    <3>1. call'[d].pc = "insert" /\ call'[d].ses = s
      BY <1>3, <2>2, <2>5, NoneAssumption DEF CallFits, Committed, About, SessionOf
    <3>2. CASE call'[d] = call[d]
      <4>1. About(d, s)
        BY <2>5, <3>1, <3>2 DEF About, SessionOf
      <4>2. CASE tokens[x].ses = s /\ tokens'[x].parent = tokens[x].parent
        BY <1>3, <2>1, <3>2, <4>1, <4>2 DEF ChainFits
      <4> QED
        BY <1>3, <2>1, <2>3, <4>1, <4>2, HeirStep
    <3>3. CASE tokens' = tokens /\ sessions[s].state = "none"
      BY <1>3, <2>1, <3>3, NoneAssumption DEF IInv, RowsFit
    <3> QED
      BY <1>3, <2>5, <3>1, <3>2, <3>3, LoginStep
  <2> QED
    BY <2>2, <2>4, <2>5 DEF Call
<1> QED
  BY <1>1, <1>2, <1>3 DEF ChainInv, ChainFits

(* In a session that is not disturbed a token has one heir at most, and    *)
(* none while it is in use.                                                *)
THEOREM ChainInvariance == Spec => []ChainInv
<1>1. Init => ChainInv
  BY NoneAssumption DEF Init, ChainInv, ChainFits, NoToken, Idle, LiveIn, About, Quiet
<1>2. IInv /\ ChainInv /\ [Next]_vars => ChainInv'
  BY ChainKeeps
<1> QED
  BY <1>1, <1>2, Invariance, PTL DEF Spec

(* The four kinds of steps: a token is issued, tokens go out of use, a     *)
(* session is created, sessions are closed or seen.                        *)
Issuing == sessions' = sessions /\ now' = now /\ \E c \in Calls : InsertToken(c)

Ageing == sessions' = sessions /\ (\A t \in Tokens : Aged(t)) /\ now' >= now

Creating == tokens' = tokens /\ now' = now /\ \E c \in Calls : CreateSession(c)

Faded(s) ==
    \/ sessions'[s].state = sessions[s].state
    \/ /\ sessions[s].state \in {"live", "revoked"}
       /\ sessions'[s].state \in {"revoked", "deleted"}

Closing == tokens' = tokens /\ now' = now /\ \A s \in Sessions : Faded(s)

LEMMA SessionFades ==
    ASSUME TypeOK, NEW s \in Sessions,
           \/ sessions'[s] = Revoke(sessions[s])
           \/ \E at : sessions'[s] = Seen(sessions[s], at)
    PROVE  Faded(s)
<1>1. sessions[s] \in Session
  BY DEF TypeOK
<1>2. CASE sessions'[s] = Revoke(sessions[s])
  BY <1>1, <1>2, RevokedSessionRow DEF Faded
<1>3. ASSUME NEW at, sessions'[s] = Seen(sessions[s], at)
      PROVE  Faded(s)
  BY <1>1, <1>3 DEF Seen, Session, Faded
<1> QED
  BY <1>2, <1>3

LEMMA SessionsDeleted ==
    ASSUME TypeOK, NEW S \in SUBSET {s \in Sessions : Stored(sessions[s])}, DeleteSessions(S)
    PROVE  \A s \in Sessions : Faded(s)
<1>1. \A s \in Sessions \ S : sessions'[s] = sessions[s]
  BY DeletedSessions
<1>2. \A s \in S : sessions'[s].state = "deleted"
  BY DeletedSessions
<1> QED
  BY <1>1, <1>2 DEF Faded, Stored

LEMMA CallKinds ==
    ASSUME IInv, [Next]_vars, NEW c \in Calls, CallStep(c)
    PROVE  Issuing \/ Ageing \/ Creating \/ Closing
<1>1. TypeOK /\ now \in Int
  BY TimeAssumption DEF IInv, TypeOK, Times
<1>2. CASE InsertToken(c)
  BY <1>2 DEF InsertToken, Issuing
<1>3. CASE CreateSession(c)
  BY <1>3 DEF CreateSession, Creating
<1>4. CASE TouchSession(c)
  <2>1. \A s \in Sessions : sessions'[s] = sessions[s] \/ sessions'[s] = Seen(sessions[s], call[c].began)
    BY <1>1, <1>4 DEF TouchSession, TypeOK
  <2>2. \A s \in Sessions : Faded(s)
    BY <1>1, <2>1, SessionFades DEF Faded
  <2> QED
    BY <1>4, <2>2 DEF TouchSession, Closing
<1>5. CASE CloseSession(c) \/ RevokeAllSessions(c)
  <2>1. \A s \in Sessions : sessions'[s] = sessions[s] \/ sessions'[s] = Revoke(sessions[s])
    BY <1>1, <1>5 DEF CloseSession, RevokeAllSessions, TypeOK
  <2>2. \A s \in Sessions : Faded(s)
    BY <1>1, <2>1, SessionFades DEF Faded
  <2> QED
    BY <1>5, <2>2 DEF CloseSession, RevokeAllSessions, Closing
<1>6. CASE UNCHANGED <<tokens, sessions, now>>
  BY <1>1, <1>6 DEF Ageing, Aged
<1>7. CASE RevokeOld(c) \/ RevokeOwn(c) \/ \E u \in Users : RevokeAll(c, u)
  <2>1. /\ sessions' = sessions /\ now' = now
        /\ \A t \in Tokens : tokens'[t] = tokens[t] \/ tokens'[t] = Revoke(tokens[t])
    BY <1>1, <1>7 DEF RevokeOld, RevokeOwn, RevokeAll, RevokeToken, TypeOK
  <2>2. \A t \in Tokens : Aged(t)
    BY <1>1, <2>1, RevokedRow DEF Aged
  <2> QED
    BY <1>1, <2>1, <2>2 DEF Ageing
<1> QED
  BY <1>2, <1>3, <1>4, <1>5, <1>6, <1>7
  DEF CallStep, StartLogin, StartRefresh, StartLogout, CheckActive, ReadToken, CheckSession, Abort

LEMMA StepKinds ==
    ASSUME IInv, [Next]_vars
    PROVE  Issuing \/ Ageing \/ Creating \/ Closing
<1>1. TypeOK /\ now \in Int
  BY TimeAssumption DEF IInv, TypeOK, Times
<1>2. ASSUME NEW c \in Calls, CallStep(c)
      PROVE  Issuing \/ Ageing \/ Creating \/ Closing
  BY <1>2, CallKinds
<1>3. CASE UNCHANGED <<tokens, sessions>> /\ now' >= now
  BY <1>3 DEF Ageing, Aged
<1>4. CASE CleanupOrphanedSessions \/ CleanupOldSessions
  <2>1. \A s \in Sessions : Faded(s)
    BY <1>1, <1>4, SessionsDeleted DEF CleanupOrphanedSessions, CleanupOldSessions, Orphaned, Old
  <2> QED
    BY <1>4, <2>1 DEF CleanupOrphanedSessions, CleanupOldSessions, Closing
<1>5. CASE CleanupExpiredTokens
  <2>1. ASSUME NEW t \in Tokens
        PROVE  Aged(t)
    <3>1. CASE t \in Expired
      <4>1. tokens'[t] = [tokens[t] EXCEPT !.state = "deleted", !.expires = 0]
        BY <1>5, <3>1 DEF CleanupExpiredTokens, DeleteTokens
      <4>2. tokens[t].state # "none" /\ tokens[t] \in Token
        BY <1>1, <3>1 DEF Expired, Stored, TypeOK
      <4> QED
        BY <4>1, <4>2 DEF Token, Aged
    <3>2. CASE t \notin Expired
      BY <1>5, <3>2 DEF CleanupExpiredTokens, DeleteTokens, Aged
    <3> QED
      BY <3>1, <3>2
  <2> QED
    BY <1>1, <1>5, <2>1 DEF CleanupExpiredTokens, Ageing
<1>6. CASE Tick
  BY <1>1, <1>3, <1>6 DEF Tick
<1>7. CASE UNCHANGED vars
  BY <1>1, <1>3, <1>7 DEF vars
<1>8. ASSUME NEW c \in Calls, SkipTouch(c) \/ \E u \in Users : SkipRevokeAll(c, u)
      PROVE  Issuing \/ Ageing \/ Creating \/ Closing
  <2>1. UNCHANGED <<tokens, sessions>> /\ now' = now
    BY <1>8 DEF SkipTouch, SkipRevokeAll
  <2> QED
    BY <1>1, <1>3, <2>1
<1> QED
  BY <1>2, <1>4, <1>5, <1>6, <1>7, <1>8 DEF Next, Cleanup

(* What stays the same of a family when its rows do.                       *)
LEMMA SameHeirs ==
    ASSUME NEW s \in Sessions, s \notin disturbed, s \notin disturbed',
           \A t \in Tokens : tokens'[t].ses = s <=> tokens[t].ses = s,
           \A t \in Tokens : tokens[t].ses = s => tokens'[t].parent = tokens[t].parent
    PROVE  HeirsOf(s)' = HeirsOf(s)
<1>1. {x \in Tokens : tokens'[x].ses = s} = {x \in Tokens : tokens[x].ses = s}
  OBVIOUS
<1> QED
  BY <1>1 DEF HeirsOf

(* Login and Refresh issue a token in an open session that has none in use,*)
(* for one that has not been exchanged before.                             *)
LEMMA InsertIsIssue ==
    ASSUME IInv, ChainInv, NEW s \in Quiet, s \notin disturbed', NEW c \in Calls, InsertToken(c),
           sessions' = sessions, now' = now
    PROVE  Family(s)!Next \/ UNCHANGED <<Life(s), UsableOf(s), HeirsOf(s)>>
<1>1. /\ s \in Sessions /\ s \notin disturbed /\ call[c] \in Call /\ CallFits(c)
      /\ call[c].pc = "insert" /\ tokens \in [Tokens -> Token]
  BY DEF Quiet, IInv, TypeOK, CallsFit, InsertToken
<1>2. PICK new \in Tokens : /\ tokens[new].state = "none"
                            /\ tokens' = [tokens EXCEPT ![new] = NewToken(call[c])]
  BY DEF InsertToken
<1>3. /\ tokens'[new].ses = call[c].ses /\ tokens'[new].parent = call[c].tok
      /\ \A t \in Tokens \ {new} : tokens'[t] = tokens[t]
      /\ tokens[new].ses = None
  BY <1>1, <1>2 DEF NewToken, IInv, RowsFit
<1>4. Life(s)' = Life(s)
  BY <1>1 DEF Life
<1>5. CASE call[c].ses # s
  <2>1. \A t \in Tokens : tokens'[t].ses = s <=> tokens[t].ses = s
    BY <1>1, <1>3, <1>5, NoneAssumption
  <2>2. \A t \in Tokens : tokens[t].ses = s => tokens'[t] = tokens[t]
    BY <1>1, <1>3, NoneAssumption
  <2>3. HeirsOf(s)' = HeirsOf(s)
    BY <1>1, <2>1, <2>2, SameHeirs
  <2>4. UsableOf(s)' = UsableOf(s)
    BY <1>1, <2>1, <2>2 DEF UsableOf, ActiveAt
  <2> QED
    BY <1>4, <2>3, <2>4
<1>6. CASE call[c].ses = s
  <2>1. PICK old \in Tokens \cup {None} : old = call[c].tok
    BY <1>1 DEF Call
  <2>2. About(c, s) /\ CallKnows(c, s) /\ ChainFits(s)
    BY <1>1, <1>6, InserterIsAbout DEF IInv, QuietFits, ChainInv
  <2>3. Life(s) = "open"
    BY <1>1, <2>2 DEF CallKnows, Life, Lives
  <2>4. UsableOf(s) = {}
    BY <1>1, <2>2 DEF CallKnows, LiveIn, UsableOf, ActiveAt
  <2>5. old \in Tokens => tokens[old].ses = s
    BY <1>1, <1>6, <2>1 DEF CallFits
  <2>6. old \in {e.heir : e \in HeirsOf(s)} \cup {None}
    <3>1. ASSUME old \in Tokens
          PROVE  [of |-> tokens[old].parent, heir |-> old] \in HeirsOf(s)
      BY <1>1, <2>5, <3>1 DEF HeirsOf
    <3>2. [of |-> tokens[old].parent, heir |-> old].heir = old
      OBVIOUS
    <3> QED
      BY <3>1, <3>2
  <2>7. new \notin {e.heir : e \in HeirsOf(s)}
    BY <1>1, <1>3, NoneAssumption DEF HeirsOf
  <2>8. \A e \in HeirsOf(s) : e.of # old
    <3>1. \A x \in Tokens : tokens[x].ses = s => tokens[x].parent # old
      BY <1>1, <2>1, <2>2 DEF ChainFits, Committed
    <3> QED
      BY <3>1 DEF HeirsOf
  <2>9. HeirsOf(s)' = HeirsOf(s) \cup {[of |-> old, heir |-> new]}
    <3>1. {x \in Tokens : tokens'[x].ses = s} = {x \in Tokens : tokens[x].ses = s} \cup {new}
      BY <1>3, <1>6
    <3>2. HeirsOf(s)' = {[of |-> tokens'[t].parent, heir |-> t] :
                            t \in {x \in Tokens : tokens[x].ses = s} \cup {new}}
      BY <1>1, <3>1 DEF HeirsOf
    <3>3. \A t \in {x \in Tokens : tokens[x].ses = s} : tokens'[t].parent = tokens[t].parent
      BY <1>1, <1>3, NoneAssumption
    <3>4. HeirsOf(s) = {[of |-> tokens[t].parent, heir |-> t] :
                            t \in {x \in Tokens : tokens[x].ses = s}}
      BY <1>1 DEF HeirsOf
    <3> QED
      BY <1>3, <2>1, <3>2, <3>3, <3>4
  <2>10. UsableOf(s)' \in {{}, {new}}
    <3>1. ASSUME NEW t \in Tokens, t # new, t \in UsableOf(s)'
          PROVE  FALSE
      <4>1. tokens'[t] = tokens[t]
        BY <1>3, <3>1
      <4>2. t \in UsableOf(s)
        BY <1>1, <3>1, <4>1 DEF UsableOf, ActiveAt
      <4> QED
        BY <2>4, <4>2
    <3>2. UsableOf(s)' \subseteq Tokens
      BY DEF UsableOf
    <3> QED
      BY <3>1, <3>2
  <2>11. Family(s)!Issue(old, new)
    BY <1>4, <2>3, <2>4, <2>6, <2>7, <2>8, <2>9, <2>10 DEF Family!Issue, Family!Issued
  <2> QED
    BY <2>11 DEF Family!Next
<1> QED
  BY <1>5, <1>6

LEMMA StepIsFamily ==
    ASSUME IInv, IInv', ChainInv, [Next]_vars, NEW s \in Sessions
    PROVE  [Family(s)!Next]_(Family(s)!vars)
<1>1. CASE s \in disturbed'
  <2>1. Life(s)' = "astray" /\ UsableOf(s)' = {} /\ HeirsOf(s)' = {}
    BY <1>1 DEF Life, UsableOf, HeirsOf
  <2>2. Family(s)!GoAstray
    BY <2>1 DEF Family!GoAstray
  <2> QED
    BY <2>2 DEF Family!Next
<1> SUFFICES ASSUME s \notin disturbed'
             PROVE  Family(s)!Next \/ UNCHANGED <<Life(s), UsableOf(s), HeirsOf(s)>>
  BY <1>1 DEF Family!vars
<1>2. /\ s \in Quiet /\ s \in Quiet' /\ s \notin disturbed
      /\ sessions[s] \in Session /\ sessions'[s] \in Session
  BY QuietShrinks DEF Quiet, IInv, TypeOK
<1>3. CASE Issuing
  BY <1>2, <1>3, InsertIsIssue DEF Issuing
<1>4. CASE Ageing
  <2>1. Life(s)' = Life(s)
    BY <1>2, <1>4 DEF Ageing, Life
  <2>2. \A t \in Tokens : tokens'[t].ses = tokens[t].ses /\ tokens'[t].parent = tokens[t].parent
    BY <1>4 DEF Ageing, Aged
  <2>3. HeirsOf(s)' = HeirsOf(s)
    BY <1>2, <2>2, SameHeirs
  <2>4. ASSUME NEW t \in Tokens, t \in UsableOf(s)'
        PROVE  t \in UsableOf(s) /\ UsableOf(s) = {t}
    <3>1. tokens[t].state = "live" /\ tokens'[t] = tokens[t] /\ tokens[t].ses = s
      BY <1>4, <2>4 DEF Ageing, Aged, UsableOf, ActiveAt
    <3>2. tokens[t].expires > now
      <4>1. tokens[t].expires \in Int /\ now \in Int /\ now' \in Int
        BY TimeAssumption DEF IInv, TypeOK, Token, Times, Expiries
      <4> QED
        BY <1>4, <2>4, <3>1, <4>1 DEF Ageing, UsableOf, ActiveAt
    <3>3. \A x \in Tokens : LiveIn(x, s) => x = t
      BY <1>2, <3>1 DEF IInv, QuietFits, SessionFits, LiveIn
    <3> QED
      BY <1>2, <3>1, <3>2, <3>3 DEF UsableOf, ActiveAt, LiveIn
  <2>5. UsableOf(s)' = {} \/ UsableOf(s)' = UsableOf(s)
    <3>1. UsableOf(s)' \subseteq Tokens
      BY DEF UsableOf
    <3> QED
      BY <2>4, <3>1
  <2>6. CASE UsableOf(s)' = {}
    <3>1. Family(s)!Spend
      BY <2>1, <2>3, <2>6 DEF Family!Spend
    <3> QED
      BY <3>1 DEF Family!Next
  <2> QED
    BY <2>1, <2>3, <2>5, <2>6
<1> SUFFICES ASSUME tokens' = tokens, now' = now, Creating \/ Closing
             PROVE  Family(s)!Next \/ UNCHANGED <<Life(s), UsableOf(s), HeirsOf(s)>>
  BY <1>3, <1>4, StepKinds DEF Creating, Closing
<1>5. UsableOf(s)' = UsableOf(s) /\ HeirsOf(s)' = HeirsOf(s)
  BY <1>2 DEF UsableOf, HeirsOf, ActiveAt
<1>6. CASE sessions'[s].state = sessions[s].state
  BY <1>2, <1>5, <1>6 DEF Life
<1>7. CASE sessions[s].state = "none" /\ sessions'[s].state = "live"
  <2>1. Life(s) = "unborn" /\ Life(s)' = "open"
    BY <1>2, <1>7 DEF Life, Lives
  <2>2. Family(s)!Open
    BY <1>5, <2>1 DEF Family!Open
  <2> QED
    BY <2>2 DEF Family!Next
<1>8. CASE sessions[s].state = "revoked" /\ sessions'[s].state \in {"revoked", "deleted"}
  <2>1. Life(s) = "over" /\ Life(s)' = "over"
    BY <1>2, <1>8 DEF Life, Lives
  <2> QED
    BY <1>5, <2>1
<1>9. CASE sessions[s].state = "live" /\ sessions'[s].state \in {"revoked", "deleted"}
  <2>1. Life(s) = "open" /\ Life(s)' = "over"
    BY <1>2, <1>9 DEF Life, Lives
  <2>2. UsableOf(s) = {}
    BY <1>2, <1>9 DEF IInv, QuietFits, SessionFits, LiveIn, UsableOf, ActiveAt
  <2>3. Family(s)!Close
    BY <1>5, <2>1, <2>2 DEF Family!Close
  <2> QED
    BY <2>3 DEF Family!Next
<1>10. CASE Creating
  <2>1. sessions'[s] = sessions[s] \/ (sessions[s].state = "none" /\ sessions'[s].state = "live")
    BY <1>10 DEF Creating, CreateSession, IInv, TypeOK
  <2> QED
    BY <1>6, <1>7, <2>1
<1> QED
  BY <1>6, <1>8, <1>9, <1>10 DEF Closing, Faded

(* Each session on its own implements SessionFamily: until it is disturbed *)
(* its tokens are a chain, of which the last one only is ever accepted,    *)
(* and no step of a call about another session, of a cleanup job or of the *)
(* clock shows in it but as the end of a token or of the session.          *)
THEOREM FamiliesAreImplemented == Spec => SessionsAreFamilies
<1>1. ASSUME Init, NEW s \in Sessions
      PROVE  Family(s)!Init
  <2>1. Life(s) = "unborn" /\ UsableOf(s) = {} /\ HeirsOf(s) = {}
    BY <1>1, NoneAssumption DEF Init, Life, Lives, UsableOf, HeirsOf, NoSession, NoToken
  <2> QED
    BY <2>1 DEF Family!Init
<1>2. IInv /\ IInv' /\ ChainInv /\ [Next]_vars =>
         [\A s \in Sessions : [Family(s)!Next]_(Family(s)!vars)]_vars
  BY StepIsFamily
<1>3. Init => \A s \in Sessions : Family(s)!Init
  BY <1>1
<1> QED
  BY <1>2, <1>3, Invariance, ChainInvariance, PTL DEF Spec, SessionsAreFamilies

=============================================================================
