-------------------------- MODULE AuthCodesProofs --------------------------
(***************************************************************************)
(* Theorems about AuthCodes, for any users, addresses, codes and calls and *)
(* any lives of codes and limits.                                          *)
(*                                                                         *)
(* Each promise passes through the hands of a call.  While a request is    *)
(* between its look at the rate limit and its setting it, nothing in Redis *)
(* tells that a code was issued: the request itself stands for the limit.  *)
(* Likewise a code that took effect is fresh until the confirmation that   *)
(* used it consumes it, and old logins live until that confirmation        *)
(* revokes them.                                                           *)
(***************************************************************************)
EXTENDS AuthCodes, TLAPS

CallFits(c) ==
    /\ call[c].pc # "idle" => call[c].user \in Users
    /\ call[c].pc = "limit" => call[c].key \in Keys
    /\ call[c].pc \in {"revoke", "purge"} => call[c].kind = "reset"
    /\ Using(c) =>
          /\ call[c].row \in Codes
          /\ code[call[c].row].state # "none"
          /\ Stored(call[c].row) => /\ code[call[c].row].kind = call[c].kind
                                    /\ code[call[c].row].user = call[c].user

RowFits(r) ==
    /\ code[r].created =< now
    /\ code[r].state = "none" => code[r].key = None /\ past[r] = "new"
    /\ Stored(r) => code[r].user \in Users

Fit == CodesTypeOK /\ (\A c \in Calls : CallFits(c)) /\ (\A r \in Codes : RowFits(r))

-----------------------------------------------------------------------------
LEMMA TimesAreNat == CodesTypeOK => now \in Nat /\ MaxTime \in Nat
BY TimeAssumption DEF CodesTypeOK, Times

LEMMA InitFits == CodesInit => Fit
<1> SUFFICES ASSUME CodesInit PROVE Fit
  OBVIOUS
<1> USE TimeAssumption, NoneAssumption
<1>1. NoRow \in Row /\ Idle \in Call
  BY DEF NoRow, Row, Kinds, Times, At, Idle, Call, Steps, Passwords
<1>2. CodesTypeOK
  BY <1>1 DEF CodesInit, CodesTypeOK, Times
<1>3. \A c \in Calls : CallFits(c)
  BY DEF CodesInit, CallFits, At, Idle, Using
<1>4. \A r \in Codes : RowFits(r)
  BY DEF CodesInit, RowFits, NoRow, Stored
<1> QED BY <1>2, <1>3, <1>4 DEF Fit

(* What CutOff needs and keeps.                                            *)
LEMMA CutOffFits == ASSUME Fit, NEW S \in SUBSET Calls, CutOff(S) PROVE Fit'
<1> USE DEF Fit
<1>1. Idle \in Call
  BY DEF At, Idle, Call, Steps, Kinds, Passwords
<1>2. /\ call' \in [Calls -> Call]
      /\ \A c \in Calls : call'[c] = call[c] \/ call'[c] = Idle
  BY <1>1 DEF CutOff, CodesTypeOK
<1>3. unlimited' \subseteq Keys
  BY DEF CutOff, CodesTypeOK, CallFits
<1>4. leftover' \subseteq Users
  BY DEF CutOff, CodesTypeOK, CallFits, MustRevoke
<1>5. /\ past' \in [Codes -> {"new", "used", "reused", "shared"}]
      /\ \A r \in Codes : code[r].state = "none" => past'[r] = past[r]
  BY DEF CutOff, Share, CodesTypeOK, CallFits, Unconsumed, Using
<1>6. CodesTypeOK'
  BY <1>2, <1>3, <1>4, <1>5 DEF CutOff, CodesTypeOK
<1>7. \A c \in Calls : CallFits(c)'
  BY <1>2 DEF CutOff, CallFits, At, Idle, Using, Stored
<1>8. \A r \in Codes : RowFits(r)'
  BY <1>5 DEF CutOff, RowFits, Stored
<1> QED BY <1>6, <1>7, <1>8

(* A step of one call that writes neither rows nor history.                *)
LEMMA CallStepFits ==
    ASSUME Fit, NEW c \in Calls, NEW k \in Call,
           call' = [call EXCEPT ![c] = k], CallFits(c)',
           UNCHANGED <<code, now, past>>,
           users' \in [Users -> {"none", "unverified", "verified"}],
           limit' \in [Keys -> 0 .. (MaxTime + Cooldown)],
           logins' \in [Users -> SUBSET Passwords],
           unlimited' \subseteq Keys, leftover' \subseteq Users
    PROVE  Fit'
<1> USE DEF Fit
<1>1. CodesTypeOK'
  BY DEF CodesTypeOK
<1>2. ASSUME NEW x \in Calls PROVE CallFits(x)'
  <2>1. CASE x = c
    BY <2>1
  <2>2. CASE x # c
    BY <2>2 DEF CodesTypeOK, CallFits, Using, Stored
  <2> QED BY <2>1, <2>2
<1>3. \A r \in Codes : RowFits(r)'
  BY DEF RowFits, Stored
<1> QED BY <1>1, <1>2, <1>3

(* A step that writes rows keeps what calls know of theirs.                *)
LEMMA RowStepFits ==
    ASSUME Fit, code' \in [Codes -> Row], now' = now, past' = past,
           UNCHANGED <<users, limit, logins, unlimited, leftover>>,
           call' \in [Calls -> Call],
           \A c \in Calls : call'[c] = call[c] \/ call'[c] = Idle
                \/ (call[c].pc # "idle" /\ call'[c].pc \in {"limit", "revoke"}
                    /\ call'[c].user = call[c].user /\ call'[c].row = call[c].row
                    /\ call'[c].kind = call[c].kind /\ call'[c].key = call[c].key
                    /\ (call'[c].pc = "limit" => call[c].key # None)
                    /\ (call'[c].pc = "revoke" => call[c].kind = "reset" /\ Using(c))),
           \A r \in Codes :
              /\ code[r].state # "none" => code'[r].state # "none"
              /\ code'[r].state \in {"fresh", "consumed"} /\ code[r].state # "none" =>
                    /\ Stored(r)
                    /\ code'[r].kind = code[r].kind /\ code'[r].user = code[r].user
              /\ code'[r].created =< now
              /\ code'[r].state = "none" => code'[r] = code[r]
              /\ code'[r].state \in {"fresh", "consumed"} => code'[r].user \in Users
    PROVE  Fit'
<1> USE DEF Fit
<1>1. CodesTypeOK'
  BY DEF CodesTypeOK
<1>2. ASSUME NEW x \in Calls PROVE CallFits(x)'
  <2>1. CASE call'[x] = Idle
    BY <2>1 DEF CallFits, At, Idle, Using
  <2>2. CASE call'[x] = call[x]
    BY <2>2 DEF CallFits, Using, Stored
  <2>3. CASE ~(call'[x] = Idle \/ call'[x] = call[x])
    <3>1. call[x] \in Call
      BY DEF CodesTypeOK
    <3> QED BY <2>3, <3>1 DEF CallFits, Using, Stored, Call
  <2> QED BY <2>1, <2>2, <2>3
<1>3. \A r \in Codes : RowFits(r)'
  BY DEF RowFits, Stored
<1> QED BY <1>1, <1>2, <1>3

LEMMA IdleIsCall == Idle \in Call
BY DEF At, Idle, Call, Steps, Kinds, Passwords

(* The locals of a call that goes on or returns.                           *)
LEMMA GoingOn ==
    ASSUME call \in [Calls -> Call], NEW c \in Calls, NEW step \in Steps, Goto(c, step)
    PROVE  /\ call' \in [Calls -> Call]
           /\ \A x \in Calls : x # c => call'[x] = call[x]
           /\ call'[c] = [call[c] EXCEPT !.pc = step] /\ call'[c] \in Call
           /\ call'[c].pc = step /\ call'[c].kind = call[c].kind
           /\ call'[c].key = call[c].key /\ call'[c].user = call[c].user
           /\ call'[c].row = call[c].row /\ call'[c].pw = call[c].pw
BY DEF Goto, Call

LEMMA Returning ==
    ASSUME call \in [Calls -> Call], NEW c \in Calls, Return(c)
    PROVE  /\ call' \in [Calls -> Call]
           /\ \A x \in Calls : x # c => call'[x] = call[x]
           /\ call'[c] = Idle /\ call' = [call EXCEPT ![c] = Idle]
           /\ CallFits(c)'
<1>1. /\ call' \in [Calls -> Call]
      /\ \A x \in Calls : x # c => call'[x] = call[x]
      /\ call'[c] = Idle /\ call' = [call EXCEPT ![c] = Idle]
  BY IdleIsCall DEF Return
<1>2. call'[c].pc = "idle"
  BY <1>1 DEF Idle, At
<1> QED BY <1>1, <1>2 DEF CallFits, Using

(* A DELETE, by a call that returns or by a job.                           *)
LEMMA DeleteFits ==
    ASSUME Fit, NEW S \in SUBSET Codes, Delete(S), \A r \in S : Stored(r),
           call' \in [Calls -> Call],
           \A c \in Calls : call'[c] = call[c] \/ call'[c] = Idle,
           UNCHANGED <<now, past, users, limit, logins, unlimited, leftover>>
    PROVE  Fit'
<1>1. CodesTypeOK /\ \A r \in Codes : RowFits(r) /\ code[r] \in Row
  BY DEF Fit, CodesTypeOK
<1>2. \A r \in Codes : /\ Deleted(code[r]) \in Row
                       /\ Deleted(code[r]).state = "deleted"
                       /\ Deleted(code[r]).created = code[r].created
  <2> SUFFICES ASSUME NEW r \in Codes
               PROVE  /\ Deleted(code[r]) \in Row
                      /\ Deleted(code[r]).state = "deleted"
                      /\ Deleted(code[r]).created = code[r].created
    OBVIOUS
  <2>1. "reset" \in Kinds /\ 0 \in 0 .. (MaxTime + Hour + Day)
    BY TimeAssumption DEF Kinds
  <2>2. code[r] \in Row
    BY <1>1
  <2> QED BY <2>1, <2>2 DEF Deleted, Row
<1>3. code' \in [Codes -> Row]
      /\ \A r \in Codes : code'[r] = IF r \in S THEN Deleted(code[r]) ELSE code[r]
  BY <1>1, <1>2 DEF Delete
<1>4. \A r \in Codes :
          /\ code[r].state # "none" => code'[r].state # "none"
          /\ code'[r].state \in {"fresh", "consumed"} /\ code[r].state # "none" =>
                /\ Stored(r)
                /\ code'[r].kind = code[r].kind /\ code'[r].user = code[r].user
          /\ code'[r].created =< now
          /\ code'[r].state = "none" => code'[r] = code[r]
          /\ code'[r].state \in {"fresh", "consumed"} => code'[r].user \in Users
  BY <1>1, <1>2, <1>3 DEF Stored, RowFits
<1> QED BY <1>3, <1>4, RowStepFits

LEMMA FitStays == Fit /\ [CodesNext]_codesVars => Fit'
<1> SUFFICES ASSUME Fit, [CodesNext]_codesVars PROVE Fit'
  OBVIOUS
<1> USE IdleIsCall
<1>0. /\ CodesTypeOK
      /\ now \in Nat /\ MaxTime \in Nat /\ Cooldown \in Nat /\ Hour \in Nat /\ Day \in Nat
      /\ \A c \in Calls : CallFits(c) /\ call[c] \in Call
      /\ \A r \in Codes : RowFits(r) /\ code[r] \in Row
  BY TimesAreNat, TimeAssumption DEF Fit, CodesTypeOK
<1>1. ASSUME NEW c \in Calls, NEW k \in Keys, NEW kind \in Kinds, NEW u \in Users,
             CheckLimit(c, k, kind, u)
      PROVE  Fit'
  <2> DEFINE d == At("insert", kind, k, u, None, "current")
  <2>1. d \in Call
    BY DEF At, Idle, Call, Steps, Kinds, Passwords
  <2>2. call' = [call EXCEPT ![c] = d] /\ call'[c] = d
    BY <1>0, <1>1 DEF CheckLimit, CodesTypeOK
  <2>3. CallFits(c)'
    <3>2. call'[c].pc = "insert" /\ call'[c].user = u
      BY <2>2 DEF At
    <3> QED BY <3>2 DEF CallFits, Using
  <2>4. unlimited' \subseteq Keys
    BY <1>0, <1>1 DEF CheckLimit, CodesTypeOK
  <2> QED BY <1>0, <1>1, <2>1, <2>2, <2>3, <2>4, CallStepFits DEF CheckLimit, CodesTypeOK
<1>2. ASSUME NEW c \in Calls, Request(c) PROVE Fit'
  <2>1. ASSUME NEW e \in Emails, RequestPasswordReset(c, e) PROVE Fit'
    <3>1. <<"reset", e>> \in Keys /\ "reset" \in Kinds /\ Account[e] \in Users
      BY AccountAssumption DEF Keys, Kinds
    <3> QED BY <1>1, <2>1, <3>1 DEF RequestPasswordReset
  <2>2. ASSUME NEW u \in Users, RequestEmailVerification(c, u) PROVE Fit'
    <3>1. <<"verify", u>> \in Keys /\ "verify" \in Kinds
      BY DEF Keys, Kinds
    <3> QED BY <1>1, <2>2, <3>1 DEF RequestEmailVerification
  <2>3. ASSUME NEW e \in Emails, Register(c, e) PROVE Fit'
    <3> DEFINE d == At("insert", "verify", None, Account[e], None, "current")
    <3>1. Account[e] \in Users
      BY AccountAssumption
    <3>2. d \in Call
      BY <3>1 DEF At, Idle, Call, Steps, Kinds, Passwords
    <3>3. call' = [call EXCEPT ![c] = d] /\ call'[c] = d
      BY <1>0, <2>3 DEF Register, CodesTypeOK
    <3>4. CallFits(c)'
      <4>1. call'[c].pc = "insert" /\ call'[c].user = Account[e]
        BY <3>3 DEF At
      <4> QED BY <3>1, <4>1 DEF CallFits, Using
    <3>5. users' \in [Users -> {"none", "unverified", "verified"}]
      BY <1>0, <2>3 DEF Register, CodesTypeOK
    <3> QED BY <1>0, <2>3, <3>2, <3>3, <3>4, <3>5, CallStepFits
            DEF Register, CodesTypeOK, history
  <2>4. CASE FindNoUser(c)
    BY <2>4, CutOffFits DEF FindNoUser, ProcessDies
  <2>5. CASE InsertCode(c)
    <3>1. PICK r \in Codes : code[r].state = "none" /\ code' = [code EXCEPT ![r] = NewRow(call[c])]
      BY <2>5 DEF InsertCode
    <3>2. Life(call[c].kind) \in {Hour, Day}
      BY DEF Life
    <3>3. NewRow(call[c]) \in Row
      BY <1>0, <3>2 DEF NewRow, Row, CodesTypeOK, Times, Call
    <3>4. code' \in [Codes -> Row] /\ code'[r] = NewRow(call[c])
          /\ \A x \in Codes : x # r => code'[x] = code[x]
      BY <1>0, <3>1, <3>3 DEF CodesTypeOK
    <3>5. call' \in [Calls -> Call] /\ \A x \in Calls : x # c => call'[x] = call[x]
      BY <1>0, <2>5, GoingOn, Returning DEF InsertCode, CodesTypeOK, Steps
    <3>6. \/ call'[c] = Idle
          \/ /\ call'[c].pc = "limit" /\ call[c].key # None /\ call[c].pc = "insert"
             /\ call'[c].user = call[c].user /\ call'[c].row = call[c].row
             /\ call'[c].kind = call[c].kind /\ call'[c].key = call[c].key
      BY <1>0, <2>5, GoingOn, Returning DEF InsertCode, CodesTypeOK, Steps
    <3>7. \A x \in Codes :
              /\ code[x].state # "none" => code'[x].state # "none"
              /\ code'[x].state \in {"fresh", "consumed"} /\ code[x].state # "none" =>
                    /\ Stored(x)
                    /\ code'[x].kind = code[x].kind /\ code'[x].user = code[x].user
              /\ code'[x].created =< now
              /\ code'[x].state = "none" => code'[x] = code[x]
              /\ code'[x].state \in {"fresh", "consumed"} => code'[x].user \in Users
      BY <1>0, <2>5, <3>1, <3>4 DEF NewRow, Stored, RowFits, InsertCode, CallFits
    <3> QED BY <2>5, <3>4, <3>5, <3>6, <3>7, RowStepFits DEF InsertCode, history
  <2>6. CASE LimitRate(c)
    <3>1. CallFits(c)' /\ call' = [call EXCEPT ![c] = Idle]
      BY <1>0, <2>6, Returning DEF LimitRate, CodesTypeOK
    <3>2. limit' \in [Keys -> 0 .. (MaxTime + Cooldown)]
      <4>1. now + Cooldown \in 0 .. (MaxTime + Cooldown)
        BY <1>0 DEF CodesTypeOK, Times
      <4>2. call[c].key \in Keys
        BY <1>0, <2>6 DEF LimitRate, CallFits
      <4>3. limit \in [Keys -> 0 .. (MaxTime + Cooldown)]
        BY <1>0 DEF CodesTypeOK
      <4>4. limit' = [limit EXCEPT ![call[c].key] = now + Cooldown]
        BY <2>6 DEF LimitRate, SetLimit
      <4> QED BY <4>1, <4>2, <4>3, <4>4
    <3> QED BY <1>0, <2>6, <3>1, <3>2, CallStepFits DEF LimitRate, CodesTypeOK, history
  <2>7. CASE SkipLimitRate(c)
    <3>1. CallFits(c)' /\ call' = [call EXCEPT ![c] = Idle]
      BY <1>0, <2>7, Returning DEF SkipLimitRate, CodesTypeOK
    <3>2. unlimited' \subseteq Keys
      BY <1>0, <2>7 DEF SkipLimitRate, CallFits, CodesTypeOK
    <3> QED BY <1>0, <2>7, <3>1, <3>2, CallStepFits DEF SkipLimitRate, CodesTypeOK
  <2> QED BY <1>2, <2>1, <2>2, <2>3, <2>4, <2>5, <2>6, <2>7 DEF Request
<1>3. ASSUME NEW c \in Calls, Confirmation(c) PROVE Fit'
  <2>1. ASSUME NEW r \in Codes, Confirm(c, r) PROVE Fit'
    <3> DEFINE d == At("apply", code[r].kind, None, code[r].user, r, "current")
    <3>1. code[r].user \in Users /\ code[r].state = "fresh"
      BY <1>0, <2>1 DEF Confirm, Valid, RowFits, Stored
    <3>2. d \in Call
      BY <1>0 DEF At, Idle, Call, Steps, Kinds, Passwords, Row
    <3>3. call' = [call EXCEPT ![c] = d] /\ call'[c] = d
      BY <1>0, <2>1 DEF Confirm, CodesTypeOK
    <3>5. /\ call'[c].pc = "apply" /\ call'[c].kind = code[r].kind
          /\ call'[c].user = code[r].user /\ call'[c].row = r
      BY <3>3 DEF At
    <3>6. past' \in [Codes -> {"new", "used", "reused", "shared"}]
          /\ \A x \in Codes : past'[x] = past[x] \/ code[x].state = "fresh"
      BY <1>0, <2>1 DEF Confirm, Share, Valid, CodesTypeOK
    <3>7. CodesTypeOK'
      BY <1>0, <2>1, <3>2, <3>3, <3>6 DEF Confirm, CodesTypeOK
    <3>8. ASSUME NEW x \in Calls PROVE CallFits(x)'
      <4>1. CASE x = c
        BY <2>1, <3>1, <3>5, <4>1 DEF CallFits, Using, Stored, Confirm
      <4>2. CASE x # c
        BY <1>0, <2>1, <3>3, <4>2 DEF CallFits, Using, Stored, Confirm, CodesTypeOK
      <4> QED BY <4>1, <4>2
    <3>9. \A x \in Codes : RowFits(x)'
      BY <1>0, <2>1, <3>6 DEF Confirm, RowFits, Stored
    <3> QED BY <3>7, <3>8, <3>9 DEF Fit
  <2>2. ASSUME UpdatePassword(c) \/ UpdateIsEmailVerified(c) PROVE Fit'
    <3>1. call[c].row \in Codes /\ code[call[c].row].state # "none" /\ call[c].user \in Users
          /\ call[c].pc = "apply"
      BY <1>0, <2>2 DEF UpdatePassword, UpdateIsEmailVerified, CallFits, Using
    <3>2. past' \in [Codes -> {"new", "used", "reused", "shared"}]
          /\ \A x \in Codes : past'[x] = past[x] \/ code[x].state # "none"
      BY <1>0, <2>2, <3>1 DEF UpdatePassword, UpdateIsEmailVerified, Use, CodesTypeOK
    <3>3. call' \in [Calls -> Call]
          /\ \A x \in Calls : /\ call'[x].user = call[x].user /\ call'[x].kind = call[x].kind
                              /\ call'[x].row = call[x].row /\ call'[x].key = call[x].key
                              /\ call'[x].pc = IF x = c THEN "consume" ELSE call[x].pc
      <4>1. CASE UpdatePassword(c)
        BY <1>0, <4>1 DEF UpdatePassword, Call, Steps, Passwords, CodesTypeOK
      <4>2. CASE UpdateIsEmailVerified(c)
        BY <1>0, <4>2, GoingOn DEF UpdateIsEmailVerified, Steps, CodesTypeOK
      <4> QED BY <2>2, <4>1, <4>2
    <3>4. users' \in [Users -> {"none", "unverified", "verified"}]
          /\ logins' \in [Users -> SUBSET Passwords]
      BY <1>0, <2>2, <3>1 DEF UpdatePassword, UpdateIsEmailVerified, CodesTypeOK, Passwords
    <3>5. UNCHANGED <<code, limit, now, unlimited, leftover>>
      BY <2>2 DEF UpdatePassword, UpdateIsEmailVerified
    <3>6. CodesTypeOK'
      BY <1>0, <3>2, <3>3, <3>4, <3>5 DEF CodesTypeOK
    <3>7. \A x \in Calls : CallFits(x)'
      BY <1>0, <3>1, <3>3, <3>5 DEF CallFits, Using, Stored
    <3>8. \A x \in Codes : RowFits(x)'
      BY <1>0, <3>2, <3>5 DEF RowFits, Stored
    <3> QED BY <3>6, <3>7, <3>8 DEF Fit
  <2>3. CASE Consume(c)
    <3>1. call[c].row \in Codes /\ Using(c)
      BY <1>0, <2>3 DEF Consume, CallFits, Using
    <3>2. code' \in [Codes -> Row]
          /\ \A x \in Codes : \/ code'[x] = code[x]
                              \/ code[x].state = "fresh" /\ code'[x] = Consumed(code[x])
      <4> DEFINE r == call[c].row
      <4>1. Consumed(code[r]) \in Row
        BY <1>0, <3>1 DEF Consumed, Row
      <4>2. code' = [code EXCEPT ![r] = IF code[r].state = "fresh"
                                       THEN Consumed(code[r]) ELSE code[r]]
        BY <2>3 DEF Consume, ConsumeRow
      <4>3. code \in [Codes -> Row]
        BY <1>0 DEF CodesTypeOK
      <4> QED BY <3>1, <4>1, <4>2, <4>3
    <3>3. call' \in [Calls -> Call] /\ \A x \in Calls : x # c => call'[x] = call[x]
      BY <1>0, <2>3, GoingOn, Returning DEF Consume, AfterConsume, CodesTypeOK, Steps
    <3>4. \/ call'[c] = Idle
          \/ /\ call'[c].pc = "revoke" /\ call[c].kind = "reset" /\ call[c].pc # "idle"
             /\ call'[c].user = call[c].user /\ call'[c].row = call[c].row
             /\ call'[c].kind = call[c].kind /\ call'[c].key = call[c].key
      BY <1>0, <2>3, GoingOn, Returning DEF Consume, AfterConsume, CodesTypeOK, Steps
    <3>5. \A x \in Codes :
              /\ code[x].state # "none" => code'[x].state # "none"
              /\ code'[x].state \in {"fresh", "consumed"} /\ code[x].state # "none" =>
                    /\ Stored(x)
                    /\ code'[x].kind = code[x].kind /\ code'[x].user = code[x].user
              /\ code'[x].created =< now
              /\ code'[x].state = "none" => code'[x] = code[x]
              /\ code'[x].state \in {"fresh", "consumed"} => code'[x].user \in Users
      BY <1>0, <3>2 DEF Stored, RowFits, Consumed, Row
    <3> QED BY <1>0, <2>3, <3>1, <3>2, <3>3, <3>4, <3>5, RowStepFits DEF Consume, history, Fit
  <2>4. CASE SkipConsume(c)
    <3>1. call[c].row \in Codes /\ Using(c) /\ code[call[c].row].state # "none"
      BY <1>0, <2>4 DEF SkipConsume, CallFits, Using
    <3>2. past' \in [Codes -> {"new", "used", "reused", "shared"}]
          /\ \A x \in Codes : past'[x] = past[x] \/ code[x].state # "none"
      BY <1>0, <2>4, <3>1 DEF SkipConsume, Share, CodesTypeOK
    <3>3. call' \in [Calls -> Call] /\ \A x \in Calls : x # c => call'[x] = call[x]
      BY <1>0, <2>4, GoingOn, Returning DEF SkipConsume, AfterConsume, CodesTypeOK, Steps
    <3>4. \/ CallFits(c)'
          \/ /\ call'[c].pc = "revoke" /\ call[c].kind = "reset" /\ call[c].pc # "idle"
             /\ call'[c].user = call[c].user /\ call'[c].row = call[c].row
             /\ call'[c].kind = call[c].kind /\ call'[c].key = call[c].key
      BY <1>0, <2>4, GoingOn, Returning DEF SkipConsume, AfterConsume, CodesTypeOK, Steps
    <3>5. code' = code
      BY <2>4 DEF SkipConsume
    <3>6. CallFits(c)'
      BY <1>0, <3>1, <3>4, <3>5 DEF CallFits, Using, Stored
    <3>7. \A x \in Calls : CallFits(x)'
      BY <1>0, <3>3, <3>5, <3>6 DEF CallFits, Using, Stored
    <3>8. CodesTypeOK' /\ \A x \in Codes : RowFits(x)'
      BY <1>0, <2>4, <3>2, <3>3 DEF SkipConsume, CodesTypeOK, RowFits, Stored
    <3> QED BY <3>7, <3>8 DEF Fit
  <2>5. ASSUME RevokeAll(c) \/ SkipRevokeAll(c) PROVE Fit'
    <3>1. /\ call[c].row \in Codes /\ Using(c) /\ call[c].pc = "revoke"
          /\ call[c].user \in Users /\ call[c].kind = "reset"
      BY <1>0, <2>5 DEF RevokeAll, SkipRevokeAll, CallFits, Using
    <3>2. Goto(c, "purge") /\ UNCHANGED <<users, code, limit, now, unlimited, past>>
      BY <2>5 DEF RevokeAll, SkipRevokeAll
    <3>3. leftover' \subseteq Users /\ logins' \in [Users -> SUBSET Passwords]
      BY <1>0, <2>5, <3>1 DEF RevokeAll, SkipRevokeAll, RevokeTokens, CodesTypeOK
    <3>4. /\ call' = [call EXCEPT ![c] = [call[c] EXCEPT !.pc = "purge"]]
          /\ [call[c] EXCEPT !.pc = "purge"] \in Call
          /\ call'[c].pc = "purge" /\ call'[c].kind = call[c].kind
          /\ call'[c].user = call[c].user /\ call'[c].row = call[c].row
      BY <1>0, <3>2 DEF CodesTypeOK, Steps, Call, Goto
    <3>5. CallFits(c)'
      BY <1>0, <3>1, <3>2, <3>4 DEF CallFits, Using, Stored
    <3> QED BY <1>0, <3>2, <3>3, <3>4, <3>5, CallStepFits DEF CodesTypeOK
  <2>6. CASE Purge(c)
    <3>1. Return(c) /\ Delete(ResetCodesOf(call[c].user)) /\ UNCHANGED <<now, past>>
          /\ UNCHANGED <<users, limit, logins, unlimited, leftover>>
      BY <2>6 DEF Purge, history
    <3> QED BY <1>0, <3>1, DeleteFits, Returning DEF ResetCodesOf, CodesTypeOK
  <2>7. CASE SkipPurge(c)
    BY <2>7, CutOffFits DEF SkipPurge
  <2> QED BY <1>3, <2>1, <2>2, <2>3, <2>4, <2>5, <2>6, <2>7 DEF Confirmation
<1>4. ASSUME NEW c \in Calls, LogIn(c) PROVE Fit'
  <2>1. ASSUME NEW u \in Users, NEW pw \in Passwords,
               call' = [call EXCEPT ![c] = At("login", "reset", None, u, None, pw)],
               logins' \in [Users -> SUBSET Passwords],
               UNCHANGED <<users, code, limit, now, history>>
        PROVE  Fit'
    <3>1. At("login", "reset", None, u, None, pw) \in Call
      BY DEF At, Call, Steps, Kinds
    <3>2. call'[c].pc = "login" /\ call'[c].user = u
      BY <1>0, <2>1 DEF CodesTypeOK, At
    <3>3. CallFits(c)'
      BY <3>2 DEF CallFits, Using
    <3> QED BY <1>0, <2>1, <3>1, <3>3, CallStepFits DEF CodesTypeOK, history
  <2>2. ASSUME NEW u \in Users, StartLogin(c, u) PROVE Fit'
    BY <1>0, <2>1, <2>2 DEF StartLogin, Passwords, CodesTypeOK
  <2>3. ASSUME NEW u \in Users, NEW pw \in Passwords, StartRefresh(c, u, pw) PROVE Fit'
    <3>1. logins' \in [Users -> SUBSET Passwords]
      BY <1>0, <2>3 DEF StartRefresh, CodesTypeOK
    <3> QED BY <2>1, <2>3, <3>1 DEF StartRefresh
  <2>4. CASE InsertToken(c)
    <3>1. logins' \in [Users -> SUBSET Passwords]
      BY <1>0, <2>4 DEF InsertToken, CodesTypeOK, CallFits, Call
    <3> QED BY <1>0, <2>4, <3>1, Returning, CallStepFits DEF InsertToken, CodesTypeOK, history
  <2> QED BY <1>4, <2>2, <2>3, <2>4 DEF LogIn
<1>5. ASSUME NEW c \in Calls, Abort(c) PROVE Fit'
  BY <1>5, CutOffFits DEF Abort
<1>6. CASE ProcessDies
  BY <1>6, CutOffFits DEF ProcessDies
<1>7. CASE Cleanup
  <2>1. PICK S \in SUBSET Codes : Delete(S) /\ \A r \in S : Stored(r)
    BY <1>7 DEF Cleanup, CleanupExpiredTokens, CleanupConsumedTokens, OfKind, Expired,
                LongConsumed, Stored
  <2>2. UNCHANGED <<users, limit, logins, call, now, history>>
    BY <1>7 DEF Cleanup, CleanupExpiredTokens, CleanupConsumedTokens
  <2> QED BY <1>0, <2>1, <2>2, DeleteFits DEF CodesTypeOK, history
<1>8. CASE Tick
  <2>1. now + 1 \in Times /\ now' = now + 1
    BY <1>0, <1>8 DEF Tick, Times, CodesTypeOK
  <2>2. limit' \in [Keys -> 0 .. (MaxTime + Cooldown)]
    BY <1>0, <1>8 DEF Tick, CodesTypeOK
  <2>3. CodesTypeOK'
    BY <1>0, <1>8, <2>1, <2>2 DEF Tick, CodesTypeOK, history
  <2>4. \A c \in Calls : CallFits(c)'
    BY <1>0, <1>8 DEF Tick, CallFits, Using, Stored
  <2>5. \A r \in Codes : RowFits(r)'
    BY <1>0, <1>8, <2>1 DEF Tick, RowFits, Stored, history, Row, Times
  <2> QED BY <2>3, <2>4, <2>5 DEF Fit
<1>9. CASE UNCHANGED codesVars
  BY <1>0, <1>9 DEF codesVars, history, CodesTypeOK, CallFits, RowFits, Using, Stored, Fit
<1> QED BY <1>2, <1>3, <1>4, <1>5, <1>6, <1>7, <1>8, <1>9 DEF CodesNext

-----------------------------------------------------------------------------
(* Codes are spaced: at most one request is between its look at a limit    *)
(* and its setting it, all codes are old when it looks, and a code that is *)
(* not old is vouched for by the limit or by the request that issued it.   *)

Old(r) == code[r].created + Cooldown =< now
AtLimit(k) == \E c \in Calls : call[c].pc = "limit" /\ call[c].key = k

OneRequest(k) == \A c, d \in Calls : Limiting(c, k) /\ Limiting(d, k) => c = d
OldBefore(k) == \A c \in Calls, r \in Codes :
    call[c].pc = "insert" /\ call[c].key = k /\ code[r].key = k => Old(r)
Vouched(k) == \A r \in Codes :
    code[r].key = k => Old(r) \/ code[r].created + Cooldown =< limit[k] \/ AtLimit(k)
Apart(k) == \A r, s \in Codes :
    /\ code[r].key = k /\ code[s].key = k /\ r # s
    /\ code[r].created =< code[s].created
    => code[r].created + Cooldown =< code[s].created

SpacedFor(k) == OneRequest(k) /\ OldBefore(k) /\ Vouched(k) /\ Apart(k)
Spaced == \A k \in Keys \ unlimited : SpacedFor(k)

LEMMA SpacedImplies == Fit /\ Spaced => CodesAreSpaced
BY DEF Fit, CodesTypeOK, Row, Spaced, SpacedFor, Apart, CodesAreSpaced

(* Steps that issue no code and set no limit, and in which a request only  *)
(* goes away, with its key among the unlimited ones if it owed a limit.    *)
NoRequest ==
    /\ \A r \in Codes : code'[r].key = code[r].key /\ code'[r].created = code[r].created
    /\ limit' = limit /\ now' = now
    /\ unlimited \subseteq unlimited'
    /\ \A c \in Calls :
          /\ call'[c].pc \in {"insert", "limit"} /\ call'[c].key # None =>
                call'[c].pc = call[c].pc /\ call'[c].key = call[c].key
          /\ call[c].pc = "limit" =>
                \/ call'[c].pc = "limit" /\ call'[c].key = call[c].key
                \/ call[c].key \in unlimited'

LEMMA SpacedWithoutRequest == Spaced /\ NoRequest => Spaced'
<1> SUFFICES ASSUME Spaced, NoRequest, NEW k \in Keys, k \notin unlimited'
             PROVE  SpacedFor(k)'
  BY DEF Spaced
<1>1. SpacedFor(k) /\ k # None
  BY NoneAssumption DEF Spaced, NoRequest
<1>2. \A c \in Calls : Limiting(c, k)' => Limiting(c, k) /\ call'[c].pc = call[c].pc
  BY <1>1 DEF NoRequest, Limiting
<1>3. AtLimit(k) => AtLimit(k)'
  BY DEF NoRequest, AtLimit
<1>4. \A r \in Codes : Old(r)' = Old(r) /\ code'[r].created = code[r].created
                       /\ code'[r].key = code[r].key
  BY DEF NoRequest, Old
<1>5. OneRequest(k)'
  BY <1>1, <1>2 DEF SpacedFor, OneRequest
<1>6. OldBefore(k)'
  BY <1>1, <1>2, <1>4 DEF SpacedFor, OldBefore, Limiting
<1>7. Vouched(k)'
  BY <1>1, <1>3, <1>4 DEF SpacedFor, Vouched, NoRequest
<1>8. Apart(k)'
  BY <1>1, <1>4 DEF SpacedFor, Apart
<1> QED BY <1>5, <1>6, <1>7, <1>8 DEF SpacedFor

LEMMA SpacedInit == CodesInit => Spaced
<1> SUFFICES ASSUME CodesInit, NEW k \in Keys PROVE SpacedFor(k)
  BY DEF Spaced
<1>1. \A r \in Codes : code[r].key # k
  BY NoneAssumption DEF CodesInit, NoRow
<1>2. \A c \in Calls : ~Limiting(c, k)
  BY DEF CodesInit, Idle, At, Limiting
<1> QED BY <1>1, <1>2 DEF SpacedFor, OneRequest, OldBefore, Vouched, Apart, Limiting

(* A request looks at the limit: with no other request under way and no    *)
(* key in Redis, all codes are old.                                        *)
LEMMA SpacedCheck ==
    ASSUME Fit, Spaced, NEW c \in Calls, NEW k \in Keys, NEW kind \in Kinds, NEW u \in Users,
           CheckLimit(c, k, kind, u)
    PROVE  Spaced'
<1> SUFFICES ASSUME NEW j \in Keys, j \notin unlimited' PROVE SpacedFor(j)'
  BY DEF Spaced
<1>1. /\ call[c].pc = "idle"
      /\ call' = [call EXCEPT ![c] = At("insert", kind, k, u, None, "current")]
      /\ UNCHANGED <<code, limit, now>>
      /\ unlimited \subseteq unlimited'
  BY DEF CheckLimit
<1>2. call \in [Calls -> Call] /\ \A r \in Codes : code[r].created \in Nat
  BY DEF Fit, CodesTypeOK, Row, Times
<1>3. /\ call'[c].pc = "insert" /\ call'[c].key = k
      /\ \A x \in Calls : x # c => call'[x] = call[x]
  BY <1>1, <1>2 DEF At
<1>4. SpacedFor(j)
  BY <1>1 DEF Spaced
<1>5. \A r \in Codes : Old(r)' = Old(r)
  BY <1>1 DEF Old
<1>6. j = k => limit[j] = 0 /\ \A x \in Calls : ~Limiting(x, j)
  BY DEF CheckLimit
<1>7. AtLimit(j) => AtLimit(j)'
  BY <1>1, <1>3 DEF AtLimit
<1>8. \A x \in Calls : Limiting(x, j)' => Limiting(x, j) \/ (x = c /\ j = k)
  BY <1>3 DEF Limiting
<1>9. OneRequest(j)'
  BY <1>4, <1>6, <1>8 DEF SpacedFor, OneRequest
<1>10. Vouched(j)'
  BY <1>1, <1>4, <1>5, <1>7 DEF SpacedFor, Vouched
<1>11. Apart(j)'
  BY <1>1, <1>4 DEF SpacedFor, Apart
<1>12. j = k => \A r \in Codes : code[r].key = j => Old(r)
  <2>1. SUFFICES ASSUME j = k, NEW r \in Codes, code[r].key = j, ~Old(r) PROVE FALSE
    OBVIOUS
  <2>2. ~AtLimit(j)
    BY <1>6, <2>1 DEF AtLimit, Limiting
  <2>3. code[r].created + Cooldown =< 0
    BY <1>4, <1>6, <2>1, <2>2 DEF SpacedFor, Vouched
  <2> QED BY <1>2, <2>3, TimeAssumption
<1>13. OldBefore(j)'
  <2>1. SUFFICES ASSUME NEW x \in Calls, NEW r \in Codes, call'[x].pc = "insert",
                        call'[x].key = j, code[r].key = j
                 PROVE  Old(r)
    BY <1>1, <1>5 DEF OldBefore
  <2>2. CASE x = c
    BY <1>3, <1>12, <2>1, <2>2
  <2>3. CASE x # c
    BY <1>3, <1>4, <2>1, <2>3 DEF SpacedFor, OldBefore
  <2> QED BY <2>2, <2>3
<1> QED BY <1>9, <1>10, <1>11, <1>13 DEF SpacedFor

(* It issues a code, which is younger than all others of its key by the    *)
(* cooldown.                                                               *)
LEMMA SpacedInsert ==
    ASSUME Fit, Spaced, NEW c \in Calls, InsertCode(c)
    PROVE  Spaced'
<1> SUFFICES ASSUME NEW j \in Keys, j \notin unlimited' PROVE SpacedFor(j)'
  BY DEF Spaced
<1> DEFINE k == call[c].key
<1>1. PICK n \in Codes : code[n].state = "none" /\ code' = [code EXCEPT ![n] = NewRow(call[c])]
  BY DEF InsertCode
<1>2. UNCHANGED <<limit, now, unlimited>> /\ call[c].pc = "insert"
  BY DEF InsertCode, history
<1>3. /\ call \in [Calls -> Call] /\ code \in [Codes -> Row] /\ now \in Nat
      /\ \A r \in Codes : code[r].created \in Nat /\ code[r].created =< now
  BY TimesAreNat DEF Fit, CodesTypeOK, Row, Times, RowFits
<1>4. /\ \A x \in Calls : x # c => call'[x] = call[x]
      /\ k = None => call'[c] = Idle
      /\ k # None => call'[c].pc = "limit" /\ call'[c].key = k
  BY <1>3, GoingOn, Returning DEF InsertCode, Steps
<1>5. /\ code'[n].key = k /\ code'[n].created = now
      /\ \A r \in Codes : r # n => code'[r] = code[r]
  BY <1>1, <1>3 DEF NewRow
<1>6. code[n].key = None
  BY <1>1 DEF Fit, RowFits
<1>7. SpacedFor(j) /\ j # None
  BY <1>2, NoneAssumption DEF Spaced
<1>8. Idle.pc = "idle"
  BY DEF Idle, At
<1>9. \A x \in Calls : Limiting(x, j)' => Limiting(x, j)
  BY <1>2, <1>4, <1>7, <1>8 DEF Limiting
<1>10. \A x \in Calls : call'[x].pc = "insert" => call'[x] = call[x] /\ x # c
  BY <1>4, <1>8
<1>11. OneRequest(j)'
  BY <1>7, <1>9 DEF SpacedFor, OneRequest
<1>12. j = k => \A r \in Codes : code[r].key = j => Old(r)
  BY <1>2, <1>7 DEF SpacedFor, OldBefore
<1>13. OldBefore(j)'
  <2>1. SUFFICES ASSUME NEW x \in Calls, NEW r \in Codes, call'[x].pc = "insert",
                        call'[x].key = j, code'[r].key = j
                 PROVE  Old(r)'
    BY DEF OldBefore
  <2>2. x # c /\ Limiting(x, j)
    BY <1>10, <2>1 DEF Limiting
  <2>3. j # k
    BY <1>2, <1>7, <2>2 DEF SpacedFor, OneRequest, Limiting
  <2>4. r # n /\ code'[r] = code[r]
    BY <1>5, <2>1, <2>3
  <2> QED BY <1>2, <1>7, <1>10, <2>1, <2>4 DEF SpacedFor, OldBefore, Old
<1>14. Vouched(j)'
  <2>1. j = k => AtLimit(j)'
    BY <1>4, <1>7 DEF AtLimit
  <2>2. AtLimit(j) => AtLimit(j)'
    BY <1>2, <1>4 DEF AtLimit
  <2>3. SUFFICES ASSUME NEW r \in Codes, code'[r].key = j, j # k
                 PROVE  Old(r)' \/ code'[r].created + Cooldown =< limit'[j] \/ AtLimit(j)'
    BY <2>1 DEF Vouched
  <2>4. code'[r] = code[r]
    BY <1>5, <2>3
  <2> QED BY <1>2, <1>7, <2>2, <2>3, <2>4 DEF SpacedFor, Vouched, Old
<1>15. Apart(j)'
  <2>1. SUFFICES ASSUME NEW r \in Codes, NEW s \in Codes, r # s,
                        code'[r].key = j, code'[s].key = j,
                        code'[r].created =< code'[s].created
                 PROVE  code'[r].created + Cooldown =< code'[s].created
    BY DEF Apart
  <2>2. CASE r # n /\ s # n
    BY <1>5, <1>7, <2>1, <2>2 DEF SpacedFor, Apart
  <2>3. CASE s = n
    BY <1>5, <1>12, <2>1, <2>3 DEF Old
  <2>4. CASE r = n
    <3>1. code'[s] = code[s] /\ now =< code[s].created /\ Old(s)
      BY <1>5, <1>12, <2>1, <2>4
    <3>2. code[s].created \in Nat /\ Cooldown \in Nat \ {0}
      BY <1>3, TimeAssumption
    <3> QED BY <1>3, <3>1, <3>2 DEF Old
  <2> QED BY <2>2, <2>3, <2>4
<1> QED BY <1>11, <1>13, <1>14, <1>15 DEF SpacedFor

(* It sets the limit, which lasts until the code is old.                   *)
LEMMA SpacedLimit ==
    ASSUME Fit, Spaced, NEW c \in Calls, LimitRate(c)
    PROVE  Spaced'
<1> SUFFICES ASSUME NEW j \in Keys, j \notin unlimited' PROVE SpacedFor(j)'
  BY DEF Spaced
<1> DEFINE k == call[c].key
<1>1. /\ call[c].pc = "limit" /\ limit' = [limit EXCEPT ![k] = now + Cooldown]
      /\ UNCHANGED <<code, now, unlimited>>
  BY DEF LimitRate, SetLimit, history
<1>2. /\ call \in [Calls -> Call] /\ limit \in [Keys -> 0 .. (MaxTime + Cooldown)]
      /\ now \in Nat /\ Cooldown \in Nat /\ k \in Keys
      /\ \A r \in Codes : code[r].created \in Nat /\ code[r].created =< now
  BY <1>1, TimesAreNat, TimeAssumption DEF Fit, CodesTypeOK, Row, Times, RowFits, CallFits
<1>3. call'[c].pc = "idle" /\ \A x \in Calls : x # c => call'[x] = call[x]
  BY <1>2, Returning DEF LimitRate, Idle, At
<1>4. SpacedFor(j)
  BY <1>1 DEF Spaced
<1>5. \A r \in Codes : Old(r)' = Old(r)
  BY <1>1 DEF Old
<1>6. \A x \in Calls : Limiting(x, j)' => Limiting(x, j) /\ call'[x] = call[x]
  BY <1>3 DEF Limiting
<1>7. OneRequest(j)'
  BY <1>4, <1>6 DEF SpacedFor, OneRequest
<1>8. OldBefore(j)'
  BY <1>1, <1>3, <1>4, <1>5 DEF SpacedFor, OldBefore
<1>9. Apart(j)'
  BY <1>1, <1>4 DEF SpacedFor, Apart
<1>10. Vouched(j)'
  <2>1. CASE j # k
    <3>1. limit'[j] = limit[j]
      BY <1>1, <1>2, <2>1
    <3>2. AtLimit(j) => AtLimit(j)'
      BY <1>3, <2>1 DEF AtLimit
    <3> QED BY <1>1, <1>4, <1>5, <3>1, <3>2 DEF SpacedFor, Vouched
  <2>2. CASE j = k
    <3>1. limit'[j] = now + Cooldown
      BY <1>1, <1>2, <2>2
    <3> QED BY <1>1, <1>2, <3>1 DEF Vouched
  <2> QED BY <2>1, <2>2
<1> QED BY <1>7, <1>8, <1>9, <1>10 DEF SpacedFor

(* A key leaves Redis when the code is old.                                *)
LEMMA SpacedTick == ASSUME Fit, Spaced, Tick PROVE Spaced'
<1> SUFFICES ASSUME NEW k \in Keys, k \notin unlimited' PROVE SpacedFor(k)'
  BY DEF Spaced
<1>1. /\ now' = now + 1 /\ UNCHANGED <<code, call, unlimited>>
      /\ limit'[k] = IF limit[k] > now + 1 THEN limit[k] ELSE 0
  BY DEF Tick, history
<1>2. /\ now \in Nat /\ Cooldown \in Nat /\ limit[k] \in Nat
      /\ \A r \in Codes : code[r].created \in Nat
  BY TimesAreNat, TimeAssumption DEF Fit, CodesTypeOK, Row, Times
<1>3. SpacedFor(k)
  BY <1>1 DEF Spaced
<1>4. \A r \in Codes : Old(r) => Old(r)'
  BY <1>1, <1>2 DEF Old
<1>5. \A r \in Codes : code[r].created + Cooldown =< limit[k] =>
                          Old(r)' \/ code[r].created + Cooldown =< limit'[k]
  BY <1>1, <1>2 DEF Old
<1>6. Vouched(k)'
  BY <1>1, <1>3, <1>4, <1>5 DEF SpacedFor, Vouched, AtLimit
<1>7. OneRequest(k)' /\ OldBefore(k)' /\ Apart(k)'
  BY <1>1, <1>3, <1>4 DEF SpacedFor, OneRequest, OldBefore, Apart, Limiting
<1> QED BY <1>6, <1>7 DEF SpacedFor

(* What the other steps do to a row: its key and its time stay.            *)
SameIssue == \A r \in Codes :
    code'[r].key = code[r].key /\ code'[r].created = code[r].created

LEMMA DeleteKeepsIssue == ASSUME Fit, NEW S, Delete(S) PROVE SameIssue
<1>1. code \in [Codes -> Row]
  BY DEF Fit, CodesTypeOK
<1>2. SUFFICES ASSUME NEW r \in Codes
               PROVE  code'[r].key = code[r].key /\ code'[r].created = code[r].created
  BY DEF SameIssue
<1>3. code[r] \in Row /\ (code'[r] = code[r] \/ code'[r] = Deleted(code[r]))
  BY <1>1 DEF Delete
<1> QED BY <1>3 DEF Deleted, Row

LEMMA ConsumeKeepsIssue == ASSUME Fit, NEW q \in Codes, ConsumeRow(q) PROVE SameIssue
<1>1. code \in [Codes -> Row]
  BY DEF Fit, CodesTypeOK
<1>2. SUFFICES ASSUME NEW r \in Codes
               PROVE  code'[r].key = code[r].key /\ code'[r].created = code[r].created
  BY DEF SameIssue
<1>3. code[r] \in Row /\ (code'[r] = code[r] \/ code'[r] = Consumed(code[r]))
  BY <1>1 DEF ConsumeRow
<1> QED BY <1>3 DEF Consumed, Row

LEMMA CutOffNoRequest == ASSUME NEW S \in SUBSET Calls, CutOff(S) PROVE NoRequest
<1>1. Idle.pc = "idle"
  BY DEF Idle, At
<1> QED BY <1>1 DEF CutOff, NoRequest

(* A step of one call that has no limit to set.                            *)
LEMMA OneCallNoRequest ==
    ASSUME NEW c \in Calls, call[c].pc # "limit", \A x \in Calls : x # c => call'[x] = call[x],
           call'[c].pc \in {"insert", "limit"} => call'[c].key = None,
           SameIssue, limit' = limit, now' = now, unlimited' = unlimited
    PROVE  NoRequest
BY DEF NoRequest, SameIssue

LEMMA SpacedStays == Fit /\ Spaced /\ [CodesNext]_codesVars => Spaced'
<1> SUFFICES ASSUME Fit, Spaced, [CodesNext]_codesVars PROVE Spaced'
  OBVIOUS
<1>0. /\ call \in [Calls -> Call] /\ \A c \in Calls : call[c] \in Call /\ CallFits(c)
      /\ Idle.pc = "idle" /\ code \in [Codes -> Row]
  BY DEF Fit, CodesTypeOK, Idle, At
<1>1. ASSUME NEW c \in Calls, Request(c) PROVE Spaced'
  <2>1. ASSUME NEW e \in Emails, RequestPasswordReset(c, e) PROVE Spaced'
    <3>1. <<"reset", e>> \in Keys /\ "reset" \in Kinds /\ Account[e] \in Users
      BY AccountAssumption DEF Keys, Kinds
    <3> QED BY <2>1, <3>1, SpacedCheck DEF RequestPasswordReset
  <2>2. ASSUME NEW u \in Users, RequestEmailVerification(c, u) PROVE Spaced'
    <3>1. <<"verify", u>> \in Keys /\ "verify" \in Kinds
      BY DEF Keys, Kinds
    <3> QED BY <2>2, <3>1, SpacedCheck DEF RequestEmailVerification
  <2>3. ASSUME NEW e \in Emails, Register(c, e) PROVE Spaced'
    <3> DEFINE d == At("insert", "verify", None, Account[e], None, "current")
    <3>1. d.key = None
      BY DEF At
    <3>2. call'[c] = d /\ call[c].pc = "idle" /\ \A x \in Calls : x # c => call'[x] = call[x]
      BY <1>0, <2>3 DEF Register
    <3>3. SameIssue /\ UNCHANGED <<limit, now, unlimited>>
      BY <2>3 DEF Register, SameIssue, history
    <3> QED BY <3>1, <3>2, <3>3, OneCallNoRequest, SpacedWithoutRequest
  <2>4. CASE FindNoUser(c)
    BY <2>4, CutOffNoRequest, SpacedWithoutRequest DEF FindNoUser, ProcessDies
  <2>5. CASE InsertCode(c)
    BY <2>5, SpacedInsert
  <2>6. CASE LimitRate(c)
    BY <2>6, SpacedLimit
  <2>7. CASE SkipLimitRate(c)
    <3>1. call'[c].pc = "idle" /\ \A x \in Calls : x # c => call'[x] = call[x]
      BY <1>0, <2>7, Returning DEF SkipLimitRate
    <3> QED BY <2>7, <3>1, SpacedWithoutRequest DEF SkipLimitRate, NoRequest
  <2> QED BY <1>1, <2>1, <2>2, <2>3, <2>4, <2>5, <2>6, <2>7 DEF Request
<1>2. ASSUME NEW c \in Calls, Confirmation(c) PROVE Spaced'
  <2>1. ASSUME NEW r \in Codes, Confirm(c, r) PROVE Spaced'
    <3> DEFINE d == At("apply", code[r].kind, None, code[r].user, r, "current")
    <3>1. d.pc = "apply"
      BY DEF At
    <3>2. call'[c] = d /\ call[c].pc = "idle" /\ \A x \in Calls : x # c => call'[x] = call[x]
      BY <1>0, <2>1 DEF Confirm
    <3>3. SameIssue /\ UNCHANGED <<limit, now, unlimited>>
      BY <2>1 DEF Confirm, SameIssue
    <3> QED BY <3>1, <3>2, <3>3, OneCallNoRequest, SpacedWithoutRequest
  <2>2. CASE UpdatePassword(c)
    <3>1. \A x \in Calls : \/ call'[x] = call[x]
                           \/ call[x].pc \in {"apply", "login"} /\ call'[x].pc \in {"consume", "login"}
      BY <1>0, <2>2 DEF UpdatePassword, Call
    <3> QED BY <2>2, <3>1, SpacedWithoutRequest DEF UpdatePassword, NoRequest
  <2>3. CASE UpdateIsEmailVerified(c)
    <3>1. call'[c].pc = "consume" /\ \A x \in Calls : x # c => call'[x] = call[x]
      BY <1>0, <2>3, GoingOn DEF UpdateIsEmailVerified, Steps
    <3>2. SameIssue
      BY <2>3 DEF UpdateIsEmailVerified, SameIssue
    <3> QED BY <2>3, <3>1, <3>2, OneCallNoRequest, SpacedWithoutRequest DEF UpdateIsEmailVerified
  <2>4. ASSUME Consume(c) \/ SkipConsume(c) PROVE Spaced'
    <3>1. call'[c].pc \in {"revoke", "idle"} /\ \A x \in Calls : x # c => call'[x] = call[x]
      BY <1>0, <2>4, GoingOn, Returning DEF Consume, SkipConsume, AfterConsume, Steps
    <3>2. call[c].row \in Codes /\ call[c].pc = "consume"
      BY <1>0, <2>4 DEF Consume, SkipConsume, CallFits, Using
    <3>3. SameIssue
      BY <2>4, <3>2, ConsumeKeepsIssue DEF Consume, SkipConsume, SameIssue
    <3>4. UNCHANGED <<limit, now, unlimited>>
      BY <2>4 DEF Consume, SkipConsume, history
    <3> QED BY <3>1, <3>2, <3>3, <3>4, OneCallNoRequest, SpacedWithoutRequest
  <2>5. ASSUME RevokeAll(c) \/ SkipRevokeAll(c) PROVE Spaced'
    <3>1. call'[c].pc = "purge" /\ \A x \in Calls : x # c => call'[x] = call[x]
      BY <1>0, <2>5, GoingOn DEF RevokeAll, SkipRevokeAll, Steps
    <3>2. SameIssue /\ UNCHANGED <<limit, now, unlimited>> /\ call[c].pc = "revoke"
      BY <2>5 DEF RevokeAll, SkipRevokeAll, SameIssue
    <3> QED BY <3>1, <3>2, OneCallNoRequest, SpacedWithoutRequest
  <2>6. CASE Purge(c)
    <3>1. call'[c].pc = "idle" /\ \A x \in Calls : x # c => call'[x] = call[x]
      BY <1>0, <2>6, Returning DEF Purge
    <3>2. SameIssue
      BY <2>6, DeleteKeepsIssue DEF Purge
    <3>3. UNCHANGED <<limit, now, unlimited>> /\ call[c].pc = "purge"
      BY <2>6 DEF Purge, history
    <3> QED BY <3>1, <3>2, <3>3, OneCallNoRequest, SpacedWithoutRequest
  <2>7. CASE SkipPurge(c)
    BY <2>7, CutOffNoRequest, SpacedWithoutRequest DEF SkipPurge
  <2> QED BY <1>2, <2>1, <2>2, <2>3, <2>4, <2>5, <2>6, <2>7 DEF Confirmation
<1>3. ASSUME NEW c \in Calls, LogIn(c) PROVE Spaced'
  <2>1. /\ call[c].pc # "limit" /\ \A x \in Calls : x # c => call'[x] = call[x]
        /\ call'[c].pc \in {"login", "idle"}
    BY <1>0, <1>3, Returning DEF LogIn, StartLogin, StartRefresh, InsertToken, At
  <2>2. SameIssue /\ UNCHANGED <<limit, now, unlimited>>
    BY <1>3 DEF LogIn, StartLogin, StartRefresh, InsertToken, SameIssue, history
  <2> QED BY <2>1, <2>2, OneCallNoRequest, SpacedWithoutRequest
<1>4. ASSUME NEW c \in Calls, Abort(c) PROVE Spaced'
  BY <1>4, CutOffNoRequest, SpacedWithoutRequest DEF Abort
<1>5. CASE ProcessDies
  BY <1>5, CutOffNoRequest, SpacedWithoutRequest DEF ProcessDies
<1>6. CASE Cleanup
  <2>1. SameIssue
    BY <1>6, DeleteKeepsIssue DEF Cleanup, CleanupExpiredTokens, CleanupConsumedTokens
  <2>2. UNCHANGED <<limit, now, call, unlimited>>
    BY <1>6 DEF Cleanup, CleanupExpiredTokens, CleanupConsumedTokens, history
  <2> QED BY <2>1, <2>2, SpacedWithoutRequest DEF NoRequest, SameIssue
<1>7. CASE Tick
  BY <1>7, SpacedTick
<1>8. CASE UNCHANGED codesVars
  BY <1>8, SpacedWithoutRequest DEF codesVars, history, NoRequest
<1> QED BY <1>1, <1>2, <1>3, <1>4, <1>5, <1>6, <1>7, <1>8 DEF CodesNext

-----------------------------------------------------------------------------
(* A code works once: while it is fresh after it took effect, the call     *)
(* that used it still has it in hand.                                      *)

Holds(c, r) == Using(c) /\ call[c].row = r

OnceFor(r) ==
    /\ past[r] # "reused"
    /\ past[r] # "shared" => \A c, d \in Calls : Holds(c, r) /\ Holds(d, r) => c = d
    /\ past[r] = "used" =>
          /\ \A c \in Calls : Holds(c, r) => call[c].pc # "apply"
          /\ code[r].state = "fresh" => \E c \in Calls : Holds(c, r)
Once == \A r \in Codes : OnceFor(r)

(* Steps in which no code takes effect or is found by a confirmation.      *)
QuietFor(r) ==
    /\ past'[r] = past[r] \/ past'[r] = "shared"
    /\ \A c \in Calls : Holds(c, r)' => Holds(c, r) /\ (call'[c].pc = "apply" => call[c].pc = "apply")
    /\ \A c \in Calls : Holds(c, r) /\ ~Holds(c, r)' =>
          code'[r].state # "fresh" \/ call[c].pc = "apply" \/ past'[r] = "shared"
    /\ code'[r].state = "fresh" => code[r].state = "fresh" \/ past[r] = "new"

LEMMA OnceWhenQuiet == ASSUME NEW r \in Codes, OnceFor(r), QuietFor(r) PROVE OnceFor(r)'
BY DEF OnceFor, QuietFor

LEMMA OnceInit == CodesInit => Once
BY DEF CodesInit, Once, OnceFor, Holds, Using, Idle, At

(* Calls that are cut off.                                                 *)
LEMMA CutOffQuiet ==
    ASSUME Fit, Once, NEW S \in SUBSET Calls, CutOff(S), NEW r \in Codes PROVE QuietFor(r)
<1>1. past[r] # "reused" /\ code' = code /\ call \in [Calls -> Call]
  BY DEF Once, OnceFor, CutOff, Fit, CodesTypeOK
<1>2. \A c \in Calls : call'[c] = IF c \in S THEN Idle ELSE call[c]
  BY DEF CutOff
<1>3. past'[r] = past[r] \/ past'[r] = "shared"
  BY DEF CutOff, Share
<1>4. Idle.pc = "idle"
  BY DEF Idle, At
<1>5. ASSUME NEW c \in Calls, Holds(c, r), ~Holds(c, r)', code[r].state = "fresh", call[c].pc # "apply"
      PROVE  past'[r] = "shared"
  <2>1. c \in S /\ Unconsumed(c) /\ call[c].row = r
    BY <1>2, <1>5 DEF Holds, Using, Unconsumed
  <2>2. r \in {call[x].row : x \in {y \in S : Unconsumed(y)}}
    BY <2>1
  <2> QED BY <1>1, <2>2 DEF CutOff, Share
<1> QED BY <1>1, <1>2, <1>3, <1>4, <1>5 DEF QuietFor, Holds, Using

(* A step of one call that keeps its code, or has none.                    *)
LEMMA KeepingQuiet ==
    ASSUME NEW c \in Calls, \A x \in Calls : x # c => call'[x] = call[x],
           Using(c)' => Using(c) /\ call'[c].row = call[c].row /\ call'[c].pc # "apply",
           Using(c) => Using(c)',
           past' = past, NEW r \in Codes,
           code'[r].state = "fresh" => code[r].state = "fresh" \/ past[r] = "new"
    PROVE  QuietFor(r)
BY DEF QuietFor, Holds, Using

(* A code that took effect.                                                *)
LEMMA UseOnce ==
    ASSUME Fit, Once, NEW c \in Calls, call[c].pc = "apply", code' = code,
           Use(call[c].row), call'[c].pc = "consume",
           \A x \in Calls : call'[x].row = call[x].row,
           \A x \in Calls : x # c => call'[x].pc = call[x].pc
    PROVE  Once'
<1> DEFINE q == call[c].row
<1>1. q \in Codes /\ past \in [Codes -> {"new", "used", "reused", "shared"}] /\ Holds(c, q)
  BY DEF Fit, CallFits, Using, CodesTypeOK, Holds
<1>2. \A x \in Calls, r \in Codes : Holds(x, r)' = Holds(x, r)
  BY DEF Holds, Using
<1>3. SUFFICES ASSUME NEW r \in Codes PROVE OnceFor(r)'
  BY DEF Once
<1>4. OnceFor(r)
  BY DEF Once
<1>5. CASE r # q
  <2>1. past'[r] = past[r]
    BY <1>1, <1>5 DEF Use
  <2>2. \A x \in Calls : call'[x].pc = "apply" => call[x].pc = "apply"
    OBVIOUS
  <2>3. QuietFor(r)
    BY <1>2, <2>1, <2>2 DEF QuietFor
  <2> QED BY <1>4, <2>3, OnceWhenQuiet
<1>6. CASE r = q
  <2>1. past[r] \in {"new", "shared"}
    BY <1>1, <1>4, <1>6 DEF OnceFor
  <2>2. past'[r] = IF past[r] = "new" THEN "used" ELSE "shared"
    BY <1>1, <1>6, <2>1 DEF Use
  <2> QED BY <1>1, <1>2, <1>4, <1>6, <2>1, <2>2 DEF OnceFor
<1> QED BY <1>5, <1>6

(* A code that is found.                                                   *)
LEMMA ConfirmOnce ==
    ASSUME Fit, Once, NEW c \in Calls, NEW q \in Codes, Confirm(c, q)
    PROVE  Once'
<1> DEFINE d == At("apply", code[q].kind, None, code[q].user, q, "current")
<1>1. /\ call'[c] = d /\ \A x \in Calls : x # c => call'[x] = call[x]
      /\ d.pc = "apply" /\ d.row = q /\ call[c].pc = "idle"
  BY DEF Confirm, At, Fit, CodesTypeOK
<1>2. code' = code /\ code[q].state = "fresh"
      /\ \A r \in Codes : past'[r] = IF /\ r \in {q} \cap {call[x].row : x \in {y \in Calls : Using(y)}}
                                       /\ past[r] # "reused"
                                    THEN "shared" ELSE past[r]
  BY DEF Confirm, Share, Valid
<1>3. SUFFICES ASSUME NEW r \in Codes PROVE OnceFor(r)'
  BY DEF Once
<1>4. OnceFor(r)
  BY DEF Once
<1>5. CASE r # q
  <2>1. QuietFor(r)
    BY <1>1, <1>2, <1>5 DEF QuietFor, Holds, Using
  <2> QED BY <1>4, <2>1, OnceWhenQuiet
<1>6. CASE r = q /\ \E x \in Calls : Holds(x, q)
  <2>1. past'[r] = "shared"
    BY <1>2, <1>4, <1>6 DEF Holds, OnceFor
  <2> QED BY <2>1 DEF OnceFor
<1>7. CASE r = q /\ ~\E x \in Calls : Holds(x, q)
  <2>1. past'[r] = past[r] /\ past[r] # "used"
    BY <1>2, <1>4, <1>7 DEF Holds, OnceFor
  <2>2. \A x \in Calls : Holds(x, r)' => x = c
    BY <1>1, <1>7 DEF Holds, Using
  <2> QED BY <1>4, <2>1, <2>2 DEF OnceFor
<1> QED BY <1>5, <1>6, <1>7

LEMMA OnceStays == Fit /\ Once /\ [CodesNext]_codesVars => Once'
<1> SUFFICES ASSUME Fit, Once, [CodesNext]_codesVars PROVE Once'
  OBVIOUS
<1> USE DEF Once
<1>0. /\ call \in [Calls -> Call] /\ \A c \in Calls : call[c] \in Call /\ CallFits(c)
      /\ Idle.pc = "idle" /\ code \in [Codes -> Row]
      /\ \A r \in Codes : code[r].state = "none" => past[r] = "new"
  BY DEF Fit, CodesTypeOK, Idle, At, RowFits
<1>1. ASSUME NEW c \in Calls, Request(c) PROVE Once'
  <2>1. CASE FindNoUser(c)
    BY <2>1, CutOffQuiet, OnceWhenQuiet DEF FindNoUser, ProcessDies
  <2>2. CASE ~FindNoUser(c)
    <3>1. /\ call[c].pc \in {"idle", "insert", "limit"} /\ past' = past
          /\ call'[c].pc \in {"idle", "insert", "limit"}
          /\ \A x \in Calls : x # c => call'[x] = call[x]
      <4> DEFINE Through == /\ call[c].pc \in {"idle", "insert", "limit"} /\ past' = past
                            /\ call'[c].pc \in {"idle", "insert", "limit"}
                            /\ \A x \in Calls : x # c => call'[x] = call[x]
      <4>1. ASSUME NEW k, NEW kind, NEW u, CheckLimit(c, k, kind, u) PROVE Through
        BY <1>0, <4>1 DEF CheckLimit, At
      <4>2. ASSUME NEW e \in Emails, Register(c, e) PROVE Through
        BY <1>0, <4>2 DEF Register, At, history
      <4>3. CASE InsertCode(c)
        BY <1>0, <4>3, GoingOn, Returning DEF InsertCode, Steps, history
      <4>4. CASE LimitRate(c) \/ SkipLimitRate(c)
        BY <1>0, <4>4, Returning DEF LimitRate, SkipLimitRate, history
      <4> QED BY <1>1, <2>2, <4>1, <4>2, <4>3, <4>4
              DEF Request, RequestPasswordReset, RequestEmailVerification
    <3>2. \A r \in Codes : code'[r] = code[r] \/ code[r].state = "none"
      BY <1>0, <1>1, <2>2
         DEF Request, RequestPasswordReset, RequestEmailVerification, CheckLimit, Register,
             InsertCode, LimitRate, SkipLimitRate
    <3>3. ~Using(c) /\ ~Using(c)'
      BY <3>1 DEF Using
    <3> QED BY <1>0, <3>1, <3>2, <3>3, KeepingQuiet, OnceWhenQuiet
  <2> QED BY <2>1, <2>2
<1>2. ASSUME NEW c \in Calls, Confirmation(c) PROVE Once'
  <2>1. ASSUME NEW r \in Codes, Confirm(c, r) PROVE Once'
    BY <2>1, ConfirmOnce
  <2>2. CASE UpdatePassword(c)
    <3>1. \A x \in Calls : /\ call'[x].row = call[x].row
                           /\ x # c => call'[x].pc = call[x].pc
                           /\ x = c => call'[x].pc = "consume"
      BY <1>0, <2>2 DEF UpdatePassword, Call
    <3> QED BY <2>2, <3>1, UseOnce DEF UpdatePassword
  <2>3. CASE UpdateIsEmailVerified(c)
    <3>1. /\ call'[c].pc = "consume" /\ \A x \in Calls : x # c => call'[x] = call[x]
          /\ call'[c].row = call[c].row
      BY <1>0, <2>3, GoingOn DEF UpdateIsEmailVerified, Steps
    <3> QED BY <2>3, <3>1, UseOnce DEF UpdateIsEmailVerified
  <2>4. ASSUME Consume(c) \/ SkipConsume(c) PROVE Once'
    <3> DEFINE q == call[c].row
    <3>1. /\ \A x \in Calls : x # c => call'[x] = call[x]
          /\ \/ call'[c].pc = "idle" /\ call[c].kind = "verify"
             \/ call'[c].pc = "revoke" /\ call'[c].row = q
      BY <1>0, <2>4, GoingOn, Returning DEF Consume, SkipConsume, AfterConsume, Steps, Call, Kinds
    <3>2. q \in Codes /\ call[c].pc = "consume" /\ Using(c)
      BY <1>0, <2>4 DEF Consume, SkipConsume, CallFits, Using
    <3>3. ASSUME NEW r \in Codes PROVE QuietFor(r)
      <4>1. OnceFor(r)
        OBVIOUS
      <4>2. CASE Consume(c)
        <5>1. /\ past' = past /\ (r = q => code'[r].state # "fresh")
              /\ code'[r].state = "fresh" => code[r].state = "fresh"
          BY <1>0, <3>2, <4>2 DEF Consume, ConsumeRow, Consumed, history, Row
        <5> QED BY <3>1, <3>2, <5>1 DEF QuietFor, Holds, Using
      <4>3. CASE SkipConsume(c)
        <5>1. code' = code /\ past'[r] \in {past[r], "shared"}
          BY <4>3 DEF SkipConsume, Share
        <5>2. r = q /\ call[c].kind = "verify" /\ code[r].state = "fresh" => past'[r] = "shared"
          <6>1. SUFFICES ASSUME r = q, call[c].kind = "verify", code[r].state = "fresh"
                         PROVE  past'[r] = "shared"
            OBVIOUS
          <6>2. r \in {call[x].row : x \in {y \in {c} : Unconsumed(y) /\ call[y].kind = "verify"}}
            BY <3>2, <6>1 DEF Unconsumed
          <6> QED BY <4>1, <4>3, <6>2 DEF SkipConsume, Share, OnceFor
        <5> QED BY <3>1, <3>2, <5>1, <5>2 DEF QuietFor, Holds, Using
      <4> QED BY <2>4, <4>2, <4>3
    <3> QED BY <3>3, OnceWhenQuiet
  <2>5. ASSUME RevokeAll(c) \/ SkipRevokeAll(c) PROVE Once'
    <3>1. /\ call'[c].pc = "purge" /\ \A x \in Calls : x # c => call'[x] = call[x]
          /\ call'[c].row = call[c].row
      BY <1>0, <2>5, GoingOn DEF RevokeAll, SkipRevokeAll, Steps
    <3>2. UNCHANGED <<code, past>> /\ call[c].pc = "revoke"
      BY <2>5 DEF RevokeAll, SkipRevokeAll
    <3>3. Using(c) /\ Using(c)'
      BY <3>1, <3>2 DEF Using
    <3> QED BY <3>1, <3>2, <3>3, KeepingQuiet, OnceWhenQuiet
  <2>6. CASE Purge(c)
    <3>1. call'[c].pc = "idle" /\ \A x \in Calls : x # c => call'[x] = call[x]
      BY <1>0, <2>6, Returning DEF Purge
    <3>2. /\ call[c].kind = "reset" /\ Using(c)
          /\ Stored(call[c].row) => call[c].row \in ResetCodesOf(call[c].user)
      BY <1>0, <2>6 DEF Purge, CallFits, ResetCodesOf, Using
    <3>3. \A r \in Codes : /\ code'[r].state = "fresh" => code[r].state = "fresh"
                           /\ r = call[c].row => code'[r].state # "fresh"
      <4>1. \A r \in Codes : code[r] \in Row /\ Deleted(code[r]).state = "deleted"
        BY <1>0 DEF Deleted, Row
      <4> QED BY <2>6, <3>2, <4>1 DEF Purge, Delete, Stored
    <3>4. \A r \in Codes : QuietFor(r)
      BY <2>6, <3>1, <3>3 DEF QuietFor, Holds, Using, Purge, history
    <3> QED BY <3>4, OnceWhenQuiet
  <2>7. CASE SkipPurge(c)
    BY <2>7, CutOffQuiet, OnceWhenQuiet DEF SkipPurge
  <2> QED BY <1>2, <2>1, <2>2, <2>3, <2>4, <2>5, <2>6, <2>7 DEF Confirmation
<1>3. ASSUME NEW c \in Calls, LogIn(c) PROVE Once'
  <2>1. /\ call[c].pc \in {"idle", "login"} /\ \A x \in Calls : x # c => call'[x] = call[x]
        /\ call'[c].pc \in {"login", "idle"}
    BY <1>0, <1>3, Returning DEF LogIn, StartLogin, StartRefresh, InsertToken, At
  <2>2. UNCHANGED <<code, past>>
    BY <1>3 DEF LogIn, StartLogin, StartRefresh, InsertToken, history
  <2>3. ~Using(c) /\ ~Using(c)'
    BY <2>1 DEF Using
  <2> QED BY <2>1, <2>2, <2>3, KeepingQuiet, OnceWhenQuiet
<1>4. ASSUME NEW c \in Calls, Abort(c) PROVE Once'
  BY <1>4, CutOffQuiet, OnceWhenQuiet DEF Abort
<1>5. CASE ProcessDies
  BY <1>5, CutOffQuiet, OnceWhenQuiet DEF ProcessDies
<1>6. CASE Cleanup
  <2>1. UNCHANGED <<call, past>>
    BY <1>6 DEF Cleanup, CleanupExpiredTokens, CleanupConsumedTokens, history
  <2>2. \A r \in Codes : code'[r].state = "fresh" => code[r].state = "fresh"
    <3>1. \A r \in Codes : code[r] \in Row /\ Deleted(code[r]).state = "deleted"
      BY <1>0 DEF Deleted, Row
    <3> QED BY <1>6, <3>1 DEF Cleanup, CleanupExpiredTokens, CleanupConsumedTokens, Delete
  <2>3. \A r \in Codes : QuietFor(r)
    BY <2>1, <2>2 DEF QuietFor, Holds, Using
  <2> QED BY <2>3, OnceWhenQuiet
<1>7. ASSUME UNCHANGED <<code, call, past>> PROVE Once'
  BY <1>7 DEF OnceFor, Holds, Using
<1>8. CASE Tick
  BY <1>7, <1>8 DEF Tick, history
<1>9. CASE UNCHANGED codesVars
  BY <1>7, <1>9 DEF codesVars, history
<1> QED BY <1>1, <1>2, <1>3, <1>4, <1>5, <1>6, <1>8, <1>9 DEF CodesNext

-----------------------------------------------------------------------------
(* Old passwords are out: a user's old logins live on only while the reset *)
(* that changed the password has not revoked them.                         *)

OldIn(u) == "old" \in logins[u] \/ LoggingIn(u, "old")
Resetting(c, u) == MustRevoke(c) /\ call[c].user = u
OldOutFor(u) == OldIn(u) /\ u \notin leftover => \E c \in Calls : Resetting(c, u)
OldOut == \A u \in Users : OldOutFor(u)

LEMMA OldOutImplies == OldOut => OldPasswordIsOut
BY DEF OldOut, OldOutFor, OldIn, Resetting, OldPasswordIsOut

(* Steps that make no login old, and in which a call that has to revoke    *)
(* goes away only with its user among those left over.                     *)
QuietOn(u) ==
    /\ leftover \subseteq leftover'
    /\ OldIn(u)' /\ u \notin leftover' => OldIn(u)
    /\ \A c \in Calls : Resetting(c, u) => Resetting(c, u)' \/ u \in leftover' \/ ~OldIn(u)'

LEMMA OldOutWhenQuiet == ASSUME NEW u \in Users, OldOutFor(u), QuietOn(u) PROVE OldOutFor(u)'
BY DEF OldOutFor, QuietOn

LEMMA OldOutInit == CodesInit => OldOut
BY DEF CodesInit, OldOut, OldOutFor, OldIn, LoggingIn, Idle, At

(* A step of one call that revokes nothing and has nothing to revoke.      *)
LEMMA OneCallOld ==
    ASSUME NEW c \in Calls, \A x \in Calls : x # c => call'[x] = call[x],
           leftover' = leftover, NEW u \in Users,
           "old" \in logins'[u] => OldIn(u),
           call'[c].pc = "login" /\ call'[c].user = u /\ call'[c].pw = "old" => OldIn(u),
           Resetting(c, u) => Resetting(c, u)'
    PROVE  QuietOn(u)
<1>1. \A x \in Calls : Resetting(x, u) => Resetting(x, u)'
  BY DEF Resetting, MustRevoke
<1>2. OldIn(u)' => OldIn(u)
  BY DEF OldIn, LoggingIn
<1> QED BY <1>1, <1>2 DEF QuietOn

LEMMA CutOffOld ==
    ASSUME Fit, NEW S \in SUBSET Calls, CutOff(S), NEW u \in Users PROVE QuietOn(u)
<1>1. \A c \in Calls : call'[c] = call[c] \/ (call'[c] = Idle /\ c \in S)
  BY DEF CutOff, Fit, CodesTypeOK
<1>2. Idle.pc = "idle" /\ logins' = logins /\ leftover \subseteq leftover'
  BY DEF Idle, At, CutOff
<1>3. OldIn(u)' => OldIn(u)
  BY <1>1, <1>2 DEF OldIn, LoggingIn
<1>4. ASSUME NEW c \in Calls, Resetting(c, u), ~Resetting(c, u)' PROVE u \in leftover'
  <2>1. c \in {x \in S : MustRevoke(x)} /\ call[c].user = u
    BY <1>1, <1>4 DEF Resetting, MustRevoke
  <2> QED BY <2>1 DEF CutOff
<1> QED BY <1>2, <1>3, <1>4 DEF QuietOn

LEMMA OldOutStays == Fit /\ OldOut /\ [CodesNext]_codesVars => OldOut'
<1> SUFFICES ASSUME Fit, OldOut, [CodesNext]_codesVars, NEW u \in Users PROVE OldOutFor(u)'
  BY DEF OldOut
<1>0. /\ call \in [Calls -> Call] /\ \A c \in Calls : call[c] \in Call /\ CallFits(c)
      /\ Idle.pc = "idle" /\ logins \in [Users -> SUBSET Passwords] /\ OldOutFor(u)
  BY DEF Fit, CodesTypeOK, Idle, At, OldOut
<1>q. SUFFICES ASSUME ~QuietOn(u) PROVE OldOutFor(u)'
  BY <1>0, OldOutWhenQuiet
<1>1. ASSUME NEW c \in Calls, Request(c) PROVE FALSE
  <2>1. CASE FindNoUser(c)
    BY <1>q, <2>1, CutOffOld DEF FindNoUser, ProcessDies
  <2>2. ASSUME call[c].pc \in {"idle", "insert", "limit"}, logins' = logins,
               leftover' = leftover, call'[c].pc # "login",
               \A x \in Calls : x # c => call'[x] = call[x]
        PROVE  FALSE
    <3>1. ~Resetting(c, u)
      BY <2>2 DEF Resetting, MustRevoke
    <3> QED BY <1>q, <2>2, <3>1, OneCallOld DEF OldIn
  <2>3. ASSUME NEW k, NEW kind, NEW v, CheckLimit(c, k, kind, v) PROVE FALSE
    BY <1>0, <2>2, <2>3 DEF CheckLimit, At
  <2>4. ASSUME NEW e \in Emails, Register(c, e) PROVE FALSE
    BY <1>0, <2>2, <2>4 DEF Register, At, history
  <2>5. CASE InsertCode(c)
    BY <1>0, <2>2, <2>5, GoingOn, Returning DEF InsertCode, Steps, history
  <2>6. CASE LimitRate(c) \/ SkipLimitRate(c)
    BY <1>0, <2>2, <2>6, Returning DEF LimitRate, SkipLimitRate, history
  <2> QED BY <1>1, <2>1, <2>3, <2>4, <2>5, <2>6
          DEF Request, RequestPasswordReset, RequestEmailVerification
<1>2. ASSUME NEW c \in Calls, Confirmation(c) PROVE OldOutFor(u)'
  <2>1. ASSUME NEW r \in Codes, Confirm(c, r) PROVE FALSE
    <3>1. /\ call[c].pc = "idle" /\ call'[c].pc = "apply"
          /\ \A x \in Calls : x # c => call'[x] = call[x]
      BY <1>0, <2>1 DEF Confirm, At
    <3>2. ~Resetting(c, u) /\ UNCHANGED <<logins, leftover>>
      BY <2>1, <3>1 DEF Resetting, MustRevoke, Confirm
    <3> QED BY <1>q, <3>1, <3>2, OneCallOld DEF OldIn
  <2>2. CASE UpdatePassword(c)
    <3>1. \A x \in Calls :
              \/ x = c /\ call'[x].pc = "consume" /\ call'[x].kind = call[x].kind
                 /\ call'[x].user = call[x].user
              \/ x # c /\ call[x].pc = "login" /\ call[x].user = call[c].user
                 /\ call'[x].pc = "login" /\ call'[x].user = call[c].user
              \/ x # c /\ call'[x] = call[x]
      BY <1>0, <2>2 DEF UpdatePassword, Call
    <3>2. CASE u = call[c].user
      <4>1. Resetting(c, u)'
        BY <2>2, <3>1, <3>2 DEF UpdatePassword, Resetting, MustRevoke
      <4> QED BY <4>1 DEF OldOutFor
    <3>3. CASE u # call[c].user
      <4>1. logins'[u] = logins[u] /\ leftover' = leftover
        BY <1>0, <2>2, <3>3 DEF UpdatePassword
      <4>2. OldIn(u)' => OldIn(u)
        BY <3>1, <3>3, <4>1 DEF OldIn, LoggingIn
      <4>3. \A x \in Calls : Resetting(x, u) => Resetting(x, u)'
        BY <2>2, <3>1, <3>3 DEF Resetting, MustRevoke
      <4> QED BY <1>q, <4>1, <4>2, <4>3 DEF QuietOn
    <3> QED BY <3>2, <3>3
  <2>3. CASE UpdateIsEmailVerified(c)
    <3>1. call'[c].pc = "consume" /\ \A x \in Calls : x # c => call'[x] = call[x]
      BY <1>0, <2>3, GoingOn DEF UpdateIsEmailVerified, Steps
    <3>2. ~Resetting(c, u) /\ UNCHANGED <<logins, leftover>>
      BY <2>3 DEF Resetting, MustRevoke, UpdateIsEmailVerified
    <3> QED BY <1>q, <3>1, <3>2, OneCallOld DEF OldIn
  <2>4. ASSUME Consume(c) \/ SkipConsume(c) PROVE FALSE
    <3>1. /\ \A x \in Calls : x # c => call'[x] = call[x]
          /\ call'[c].pc # "login" /\ (Resetting(c, u) => Resetting(c, u)')
      BY <1>0, <2>4, GoingOn, Returning
         DEF Consume, SkipConsume, AfterConsume, Steps, Resetting, MustRevoke
    <3>2. UNCHANGED <<logins, leftover>>
      BY <2>4 DEF Consume, SkipConsume, history
    <3> QED BY <1>q, <3>1, <3>2, OneCallOld DEF OldIn
  <2>5. ASSUME RevokeAll(c) \/ SkipRevokeAll(c) PROVE FALSE
    <3>1. /\ call'[c].pc = "purge" /\ call'[c].user = call[c].user /\ call[c].pc = "revoke"
          /\ \A x \in Calls : x # c => call'[x] = call[x]
      BY <1>0, <2>5, GoingOn DEF RevokeAll, SkipRevokeAll, Steps
    <3>2. \A v : LoggingIn(v, "old")' = LoggingIn(v, "old")
      BY <3>1 DEF LoggingIn
    <3>3. leftover \subseteq leftover'
      BY <2>5 DEF RevokeAll, SkipRevokeAll
    <3>4. CASE u = call[c].user
      <4>1. u \in leftover' \/ ~OldIn(u)'
        BY <1>0, <2>5, <3>2, <3>4 DEF RevokeAll, SkipRevokeAll, RevokeTokens, OldIn
      <4> QED BY <1>q, <3>3, <4>1 DEF QuietOn
    <3>5. CASE u # call[c].user
      <4>1. logins'[u] = logins[u]
        BY <1>0, <2>5, <3>5 DEF RevokeAll, SkipRevokeAll, RevokeTokens
      <4>2. \A x \in Calls : Resetting(x, u) => Resetting(x, u)'
        BY <3>1, <3>5 DEF Resetting, MustRevoke
      <4> QED BY <1>q, <3>2, <3>3, <4>1, <4>2 DEF QuietOn, OldIn
    <3> QED BY <3>4, <3>5
  <2>6. CASE Purge(c)
    <3>1. call'[c].pc = "idle" /\ \A x \in Calls : x # c => call'[x] = call[x]
      BY <1>0, <2>6, Returning DEF Purge
    <3>2. ~Resetting(c, u) /\ UNCHANGED <<logins, leftover>>
      BY <2>6 DEF Resetting, MustRevoke, Purge, history
    <3> QED BY <1>q, <3>1, <3>2, OneCallOld DEF OldIn
  <2>7. CASE SkipPurge(c)
    BY <1>q, <2>7, CutOffOld DEF SkipPurge
  <2> QED BY <1>2, <2>1, <2>2, <2>3, <2>4, <2>5, <2>6, <2>7 DEF Confirmation
<1>3. ASSUME NEW c \in Calls, LogIn(c) PROVE FALSE
  <2>1. \A x \in Calls : x # c => call'[x] = call[x]
    BY <1>0, <1>3, Returning DEF LogIn, StartLogin, StartRefresh, InsertToken
  <2>2. leftover' = leftover /\ ~Resetting(c, u)
    BY <1>3 DEF LogIn, StartLogin, StartRefresh, InsertToken, history, Resetting, MustRevoke
  <2>3. "old" \in logins'[u] => OldIn(u)
    BY <1>0, <1>3 DEF LogIn, StartLogin, StartRefresh, InsertToken, OldIn, LoggingIn
  <2>4. call'[c].pc = "login" /\ call'[c].user = u /\ call'[c].pw = "old" => OldIn(u)
    BY <1>0, <1>3, Returning DEF LogIn, StartLogin, StartRefresh, InsertToken, OldIn, At
  <2> QED BY <1>q, <2>1, <2>2, <2>3, <2>4, OneCallOld
<1>4. ASSUME NEW c \in Calls, Abort(c) PROVE FALSE
  BY <1>q, <1>4, CutOffOld DEF Abort
<1>5. CASE ProcessDies
  BY <1>q, <1>5, CutOffOld DEF ProcessDies
<1>6. ASSUME UNCHANGED <<logins, call, leftover>> PROVE FALSE
  BY <1>q, <1>6 DEF QuietOn, OldIn, LoggingIn, Resetting, MustRevoke
<1>7. CASE Cleanup
  BY <1>6, <1>7 DEF Cleanup, CleanupExpiredTokens, CleanupConsumedTokens, history
<1>8. CASE Tick
  BY <1>6, <1>8 DEF Tick, history
<1>9. CASE UNCHANGED codesVars
  BY <1>6, <1>9 DEF codesVars, history
<1> QED BY <1>1, <1>2, <1>3, <1>4, <1>5, <1>7, <1>8, <1>9 DEF CodesNext

-----------------------------------------------------------------------------
(* The steps of the life of a code: nothing makes a row fresh again, and a *)
(* row comes into a call's hands only while it is alive.                   *)

LifeFor(r) ==
    /\ code[r].state # "none" => code'[r].state # "none"
    /\ code[r].state # "none" /\ code'[r].state = "fresh" =>
          code[r].state = "fresh" /\ code'[r].expires = code[r].expires
    /\ InHand(r)' => InHand(r) \/ Alive(r)
    /\ past'[r] # past[r] => InHand(r) \/ Alive(r)
    /\ code[r].state = "fresh" /\ code'[r].state # "fresh" =>
          \/ ~Alive(r)
          \/ \E c \in Calls : call[c].pc = "consume" /\ call[c].row = r
          \/ /\ code[r].kind = "reset"
             /\ \E c \in Calls : call[c].pc = "purge" /\ call[c].user = code[r].user
LifeStep == now =< now' /\ \A r \in Codes : LifeFor(r)

(* Steps that leave the rows and only take them out of hands.              *)
LEMMA NoRowWritten ==
    ASSUME code' = code, now' = now,
           \A c \in Calls : Using(c)' => Using(c) /\ call'[c].row = call[c].row,
           \A r \in Codes : past'[r] # past[r] => InHand(r), now \in Nat
    PROVE  LifeStep
BY DEF LifeStep, LifeFor, InHand

LEMMA CutOffLife == ASSUME Fit, NEW S \in SUBSET Calls, CutOff(S) PROVE LifeStep
<1>1. \A c \in Calls : call'[c] = call[c] \/ call'[c] = Idle
  BY DEF CutOff, Fit, CodesTypeOK
<1>2. Idle.pc = "idle" /\ code' = code /\ now' = now /\ now \in Nat
  BY TimesAreNat DEF Idle, At, CutOff, Fit
<1>3. \A r \in Codes : past'[r] # past[r] => InHand(r)
  BY DEF CutOff, Share, Unconsumed, InHand, Using
<1> QED BY <1>1, <1>2, <1>3, NoRowWritten DEF Using

LEMMA DeleteLife ==
    ASSUME Fit, NEW S, Delete(S), now' = now, past' = past,
           \A c \in Calls : Using(c)' => Using(c) /\ call'[c].row = call[c].row,
           \A r \in Codes : r \in S /\ Alive(r) =>
              /\ code[r].kind = "reset"
              /\ \E c \in Calls : call[c].pc = "purge" /\ call[c].user = code[r].user
    PROVE  LifeStep
<1>1. \A r \in Codes : code[r] \in Row /\ Deleted(code[r]).state = "deleted"
  BY DEF Fit, CodesTypeOK, Deleted, Row
<1>2. \A r \in Codes : /\ r \in S => code'[r].state = "deleted"
                       /\ r \notin S => code'[r] = code[r]
  BY <1>1 DEF Delete
<1>3. now \in Nat
  BY TimesAreNat DEF Fit
<1>4. \A r \in Codes : InHand(r)' => InHand(r)
  BY DEF InHand
<1> QED BY <1>2, <1>3, <1>4 DEF LifeStep, LifeFor

LEMMA EveryStepOfLife == Fit /\ [CodesNext]_codesVars => LifeStep
<1> SUFFICES ASSUME Fit, [CodesNext]_codesVars PROVE LifeStep
  OBVIOUS
<1>0. /\ call \in [Calls -> Call] /\ \A c \in Calls : call[c] \in Call /\ CallFits(c)
      /\ Idle.pc = "idle" /\ now \in Nat /\ \A r \in Codes : code[r] \in Row
      /\ code \in [Codes -> Row] /\ past \in [Codes -> {"new", "used", "reused", "shared"}]
  BY TimesAreNat DEF Fit, CodesTypeOK, Idle, At
<1>1. ASSUME NEW c \in Calls, Request(c) PROVE LifeStep
  <2>1. CASE FindNoUser(c)
    BY <2>1, CutOffLife DEF FindNoUser, ProcessDies
  <2>2. ASSUME NEW k, NEW kind, NEW v, CheckLimit(c, k, kind, v) PROVE LifeStep
    <3>1. call'[c].pc = "insert" /\ \A x \in Calls : x # c => call'[x] = call[x]
      BY <1>0, <2>2 DEF CheckLimit, At
    <3> QED BY <1>0, <2>2, <3>1, NoRowWritten DEF CheckLimit, Using
  <2>3. ASSUME NEW e \in Emails, Register(c, e) PROVE LifeStep
    <3>1. call'[c].pc = "insert" /\ \A x \in Calls : x # c => call'[x] = call[x]
      BY <1>0, <2>3 DEF Register, At
    <3> QED BY <1>0, <2>3, <3>1, NoRowWritten DEF Register, Using, history
  <2>4. CASE InsertCode(c)
    <3>1. call'[c].pc \in {"limit", "idle"} /\ \A x \in Calls : x # c => call'[x] = call[x]
      BY <1>0, <2>4, GoingOn, Returning DEF InsertCode, Steps
    <3>2. /\ \A r \in Codes : code[r].state # "none" => code'[r] = code[r]
          /\ \A r \in Codes : code[r].state = "fresh" => code'[r] = code[r]
          /\ now' = now /\ past' = past
      BY <1>0, <2>4 DEF InsertCode, history
    <3>3. \A r \in Codes : InHand(r)' => InHand(r)
      BY <3>1 DEF InHand, Using
    <3> QED BY <1>0, <3>2, <3>3 DEF LifeStep, LifeFor
  <2>5. CASE LimitRate(c) \/ SkipLimitRate(c)
    <3>1. call'[c].pc = "idle" /\ \A x \in Calls : x # c => call'[x] = call[x]
      BY <1>0, <2>5, Returning DEF LimitRate, SkipLimitRate
    <3> QED BY <1>0, <2>5, <3>1, NoRowWritten DEF LimitRate, SkipLimitRate, Using, history
  <2> QED BY <1>1, <2>1, <2>2, <2>3, <2>4, <2>5
          DEF Request, RequestPasswordReset, RequestEmailVerification
<1>2. ASSUME NEW c \in Calls, Confirmation(c) PROVE LifeStep
  <2>1. ASSUME NEW q \in Codes, Confirm(c, q) PROVE LifeStep
    <3>1. /\ call'[c].row = q /\ \A x \in Calls : x # c => call'[x] = call[x]
      BY <1>0, <2>1 DEF Confirm, At
    <3>2. Alive(q) /\ code' = code /\ now' = now
      BY <1>0, <2>1 DEF Confirm, Valid, Alive, Row
    <3>3. \A r \in Codes : InHand(r)' => InHand(r) \/ r = q
      BY <3>1 DEF InHand, Using
    <3>4. \A r \in Codes : past'[r] # past[r] => r = q
      BY <1>0, <2>1 DEF Confirm, Share
    <3> QED BY <1>0, <3>2, <3>3, <3>4 DEF LifeStep, LifeFor
  <2>2. ASSUME UpdatePassword(c) \/ UpdateIsEmailVerified(c) PROVE LifeStep
    <3>1. \A x \in Calls : /\ call'[x].row = call[x].row
                           /\ Using(x)' => Using(x)
      <4>1. CASE UpdatePassword(c)
        BY <1>0, <4>1 DEF UpdatePassword, Call, Using
      <4>2. CASE UpdateIsEmailVerified(c)
        BY <1>0, <4>2, GoingOn DEF UpdateIsEmailVerified, Steps, Using
      <4> QED BY <2>2, <4>1, <4>2
    <3>2. \A r \in Codes : past'[r] # past[r] => r = call[c].row
      BY <1>0, <2>2 DEF UpdatePassword, UpdateIsEmailVerified, Use
    <3>3. InHand(call[c].row) /\ code' = code /\ now' = now
      BY <2>2 DEF UpdatePassword, UpdateIsEmailVerified, InHand, Using
    <3> QED BY <1>0, <3>1, <3>2, <3>3, NoRowWritten
  <2>3. ASSUME Consume(c) \/ SkipConsume(c) PROVE LifeStep
    <3> DEFINE q == call[c].row
    <3>1. /\ \A x \in Calls : x # c => call'[x] = call[x]
          /\ call'[c].pc \in {"idle", "revoke"} /\ (call'[c].pc # "idle" => call'[c].row = q)
      BY <1>0, <2>3, GoingOn, Returning DEF Consume, SkipConsume, AfterConsume, Steps
    <3>2. call[c].pc = "consume" /\ Using(c) /\ InHand(q)
      BY <2>3 DEF Consume, SkipConsume, InHand, Using
    <3>3. \A r \in Codes : InHand(r)' => InHand(r)
      BY <3>1, <3>2 DEF InHand, Using
    <3>4. \A r \in Codes : past'[r] # past[r] => r = q
      BY <2>3 DEF Consume, SkipConsume, Share, history
    <3>5. \A r \in Codes : code'[r] = code[r] \/ (r = q /\ code'[r].state = "consumed")
      BY <1>0, <2>3 DEF Consume, SkipConsume, ConsumeRow, Consumed, Row
    <3>6. now' = now
      BY <2>3 DEF Consume, SkipConsume
    <3> QED BY <1>0, <3>2, <3>3, <3>4, <3>5, <3>6 DEF LifeStep, LifeFor
  <2>4. ASSUME RevokeAll(c) \/ SkipRevokeAll(c) PROVE LifeStep
    <3>1. /\ call'[c].pc = "purge" /\ \A x \in Calls : x # c => call'[x] = call[x]
          /\ call'[c].row = call[c].row
      BY <1>0, <2>4, GoingOn DEF RevokeAll, SkipRevokeAll, Steps
    <3> QED BY <1>0, <2>4, <3>1, NoRowWritten DEF RevokeAll, SkipRevokeAll, Using
  <2>5. CASE Purge(c)
    <3>1. call'[c].pc = "idle" /\ \A x \in Calls : x # c => call'[x] = call[x]
      BY <1>0, <2>5, Returning DEF Purge
    <3>2. \A r \in ResetCodesOf(call[c].user) :
              code[r].kind = "reset" /\ code[r].user = call[c].user
      BY DEF ResetCodesOf
    <3> QED BY <2>5, <3>1, <3>2, DeleteLife DEF Purge, history, Using
  <2>6. CASE SkipPurge(c)
    BY <2>6, CutOffLife DEF SkipPurge
  <2> QED BY <1>2, <2>1, <2>2, <2>3, <2>4, <2>5, <2>6 DEF Confirmation
<1>3. ASSUME NEW c \in Calls, LogIn(c) PROVE LifeStep
  <2>1. /\ \A x \in Calls : x # c => call'[x] = call[x]
        /\ call'[c].pc \in {"login", "idle"}
    BY <1>0, <1>3, Returning DEF LogIn, StartLogin, StartRefresh, InsertToken, At
  <2>2. UNCHANGED <<code, past, now>>
    BY <1>3 DEF LogIn, StartLogin, StartRefresh, InsertToken, history
  <2> QED BY <1>0, <2>1, <2>2, NoRowWritten DEF Using
<1>4. ASSUME NEW c \in Calls, Abort(c) PROVE LifeStep
  BY <1>4, CutOffLife DEF Abort
<1>5. CASE ProcessDies
  BY <1>5, CutOffLife DEF ProcessDies
<1>6. CASE Cleanup
  <2>1. PICK S : /\ Delete(S) /\ UNCHANGED <<call, now, past>>
                 /\ \A r \in S : code[r].state = "consumed" \/ code[r].expires < now
    BY <1>6 DEF Cleanup, CleanupExpiredTokens, CleanupConsumedTokens, OfKind, Expired,
                LongConsumed, history
  <2>2. \A r \in S : r \in Codes => ~Alive(r)
    BY <1>0, <2>1 DEF Alive, Row
  <2> QED BY <2>1, <2>2, DeleteLife DEF Using
<1>7. CASE Tick
  BY <1>0, <1>7 DEF Tick, history, LifeStep, LifeFor, InHand, Using
<1>8. CASE UNCHANGED codesVars
  BY <1>0, <1>8 DEF codesVars, history, LifeStep, LifeFor, InHand, Using
<1> QED BY <1>1, <1>2, <1>3, <1>4, <1>5, <1>6, <1>7, <1>8 DEF CodesNext

-----------------------------------------------------------------------------
LEMMA AlwaysFit == CodesSpec => []Fit
BY InitFits, FitStays, PTL DEF CodesSpec

(* The rows, the locals of handlers and the history keep their types,      *)
(* whatever calls fail, die or overlap.                                    *)
THEOREM CodesTypeCorrect == CodesSpec => []CodesTypeOK
<1>1. Fit => CodesTypeOK
  BY DEF Fit
<1> QED BY <1>1, AlwaysFit, PTL

(* The rate limit spaces the codes of one address: auth_service.go:351,    *)
(* :469.                                                                   *)
THEOREM CodesComeSpaced == CodesSpec => []CodesAreSpaced
<1>1. Fit /\ Spaced /\ [CodesNext]_codesVars => Spaced'
  BY SpacedStays
<1> QED BY <1>1, SpacedInit, SpacedImplies, AlwaysFit, PTL DEF CodesSpec

(* No code takes effect twice, but for the overlaps and failures that      *)
(* "shared" records: auth_service.go:441, :453, :616.                      *)
THEOREM NoCodeWorksTwice == CodesSpec => []CodesWorkOnce
<1>1. Once => CodesWorkOnce
  BY DEF Once, OnceFor, CodesWorkOnce
<1> QED BY <1>1, OnceInit, OnceStays, AlwaysFit, PTL DEF CodesSpec

(* A password reset ends the logins of before: auth_service.go:437-451.    *)
THEOREM OldLoginsEnd == CodesSpec => []OldPasswordIsOut
BY OldOutInit, OldOutStays, OldOutImplies, AlwaysFit, PTL DEF CodesSpec

(* No step revives a code or lets a dead one take effect:                  *)
(* password_reset_repo.go:38, email_verification_repo.go:34.               *)
THEOREM TheDeadStayDead == CodesSpec => DeadCodesStayDead
<1>1. Fit /\ [CodesNext]_codesVars
          => [\A r \in Codes : Dead(r) => Dead(r)' /\ past'[r] = past[r]]_codesVars
  <2> SUFFICES ASSUME Fit, [CodesNext]_codesVars, NEW r \in Codes, Dead(r)
               PROVE  Dead(r)' /\ past'[r] = past[r]
    OBVIOUS
  <2>1. LifeFor(r) /\ now =< now'
    BY EveryStepOfLife DEF LifeStep
  <2>2. /\ now \in Nat /\ now' \in Nat /\ code[r].expires \in Int
        /\ code'[r].state # "none" => code'[r].expires \in Int
    BY FitStays, TimesAreNat DEF Fit, CodesTypeOK, Row, Times
  <2>3. ~Alive(r)'
    BY <2>1, <2>2 DEF LifeFor, Dead, Alive
  <2> QED BY <2>1, <2>3 DEF LifeFor, Dead
<1> QED BY <1>1, AlwaysFit, PTL DEF CodesSpec, DeadCodesStayDead

(* Only a confirmation of the code, or a completed reset of its user, ends *)
(* it before its time: auth_service.go:453, cleanup.go:41, :113.           *)
THEOREM CodesLiveOut == CodesSpec => CodesLiveTheirTime
<1> DEFINE A == \A r \in Codes :
          Alive(r) /\ ~Alive(r)' =>
              \/ now' # now
              \/ \E c \in Calls : call[c].pc = "consume" /\ call[c].row = r
              \/ /\ code[r].kind = "reset"
                 /\ \E c \in Calls : call[c].pc = "purge" /\ call[c].user = code[r].user
<1>1. Fit /\ [CodesNext]_codesVars => [A]_codesVars
  BY EveryStepOfLife DEF LifeStep, LifeFor, Alive
<1> QED BY <1>1, AlwaysFit, PTL DEF CodesSpec, CodesLiveTheirTime
=============================================================================
