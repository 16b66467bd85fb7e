---------------------------- MODULE AccessProofs ----------------------------
(***************************************************************************)
(* Theorems about Gateway, for any clients and calls, instances, keys and  *)
(* tokens, and any lives of tokens.                                        *)
(*                                                                         *)
(* A token that was signed keeps what makes it pass: the row of its key is *)
(* never deleted, only made inactive, and its jti is on the blacklist only *)
(* after a logout.  A token that was logged out is on the blacklist for as *)
(* long as it has time left.                                               *)
(***************************************************************************)
EXTENDS Gateway, TLAPS

GenFits == \A i \in Instances :
    /\ gen[i].step = "off" <=> gen[i].kid = None
    /\ gen[i].rows \subseteq Kids
ActiveIsKnown == \A i \in Instances : active[i] # None => keys[active[i]] # "none"

(* Until two instances make keys at a time, one of them does, and its      *)
(* UPDATE takes every active row.                                          *)
MakesAlone == ~raced =>
    /\ \A i, j \in Instances : Making(i) /\ Making(j) => i = j
    /\ \A i \in Instances : gen[i].step \in {"clear", "commit"} => ActiveKeys \subseteq gen[i].rows

KeyInv == KeysTypeOK /\ GenFits /\ ActiveIsKnown /\ MakesAlone /\ ActiveKeyIsOne

KeyNext(i) ==
    \/ Load(i) \/ NewKey(i) \/ Create(i) \/ Snapshot(i) \/ Clear(i) \/ Commit(i)
    \/ EnsureFails(i) \/ Restart(i)

-----------------------------------------------------------------------------
LEMMA InitKeys == KeysInit => KeyInv
<1> SUFFICES ASSUME KeysInit PROVE KeyInv
  OBVIOUS
<1>1. Off \in Gen /\ Off.step = "off" /\ Off.kid = None /\ Off.rows = {}
  BY DEF Off, Gen, KeySteps
<1>2. KeysTypeOK
  BY <1>1 DEF KeysInit, KeysTypeOK
<1>3. GenFits /\ ActiveIsKnown
  BY <1>1 DEF KeysInit, GenFits, ActiveIsKnown
<1>4. ActiveKeys = {}
  BY DEF KeysInit, ActiveKeys
<1> QED BY <1>1, <1>2, <1>3, <1>4
        DEF KeyInv, KeysInit, MakesAlone, Making, ActiveKeyIsOne

(* The type of the keys, and the fit of who makes one, by steps.           *)
LEMMA KeyTypes ==
    ASSUME KeyInv, NEW i \in Instances, KeyNext(i)
    PROVE  KeysTypeOK' /\ GenFits'
<1> USE KidsAssumption
<1>0. /\ keys \in [Kids -> {"none", "inactive", "active"}]
      /\ active \in [Instances -> Kids \cup {None}]
      /\ gen \in [Instances -> Gen] /\ raced \in BOOLEAN
      /\ GenFits
  BY DEF KeyInv, KeysTypeOK
<1>1. Off \in Gen /\ Off.step = "off" /\ Off.kid = None /\ Off.rows = {}
  BY DEF Off, Gen, KeySteps
<1>2. gen[i] \in Gen /\ gen[i].kid \in Kids \cup {None} /\ gen[i].rows \subseteq Kids
  BY <1>0 DEF Gen, GenFits
<1>3. ActiveKeys \subseteq Kids
  BY DEF ActiveKeys
<1>4. CASE Load(i)
  <2>1. active' \in [Instances -> Kids \cup {None}] /\ UNCHANGED <<keys, gen, raced>>
    BY <1>0, <1>3, <1>4 DEF Load
  <2> QED BY <1>0, <2>1 DEF KeysTypeOK, GenFits
<1>5. CASE NewKey(i)
  <2>1. PICK k \in Unused : GenStep(i, [step |-> "create", kid |-> k, rows |-> {}])
    BY <1>5 DEF NewKey
  <2>2. [step |-> "create", kid |-> k, rows |-> {}] \in Gen /\ k \in Kids
    BY <2>1 DEF Gen, KeySteps, Unused
  <2> QED BY <1>0, <1>5, <2>1, <2>2 DEF NewKey, GenStep, KeysTypeOK, GenFits
<1>6. CASE Create(i)
  <2> DEFINE g == [gen[i] EXCEPT !.step = "snapshot"]
  <2>1. g \in Gen /\ g.step = "snapshot" /\ g.kid = gen[i].kid /\ g.rows = gen[i].rows
    BY <1>2 DEF Gen, KeySteps
  <2>2. gen[i].kid \in Kids /\ gen[i].kid # None
    BY <1>0, <1>2, <1>6 DEF Create, GenFits
  <2>3. gen' = [gen EXCEPT ![i] = g] /\ keys' = [keys EXCEPT ![gen[i].kid] = "active"]
        /\ UNCHANGED <<active, raced>>
    BY <1>6 DEF Create, GenStep
  <2> HIDE DEF g
  <2> QED BY <1>0, <1>2, <2>1, <2>2, <2>3 DEF KeysTypeOK, GenFits
<1>7. CASE Snapshot(i)
  <2> DEFINE g == [gen[i] EXCEPT !.step = "clear", !.rows = ActiveKeys]
  <2>1. g \in Gen /\ g.step = "clear" /\ g.kid = gen[i].kid /\ g.rows = ActiveKeys
    BY <1>2, <1>3 DEF Gen, KeySteps
  <2>2. gen[i].kid # None
    BY <1>0, <1>7 DEF Snapshot, GenFits
  <2>3. gen' = [gen EXCEPT ![i] = g] /\ UNCHANGED <<keys, active, raced>>
    BY <1>7 DEF Snapshot, GenStep
  <2> HIDE DEF g
  <2> QED BY <1>0, <1>3, <2>1, <2>2, <2>3 DEF KeysTypeOK, GenFits
<1>8. CASE Clear(i)
  <2> DEFINE g == [gen[i] EXCEPT !.step = "commit", !.rows = @ \cap ActiveKeys]
  <2>1. g \in Gen /\ g.step = "commit" /\ g.kid = gen[i].kid
        /\ g.rows = gen[i].rows \cap ActiveKeys
    BY <1>2, <1>3 DEF Gen, KeySteps
  <2>2. gen[i].kid # None
    BY <1>0, <1>8 DEF Clear, GenFits
  <2>3. gen' = [gen EXCEPT ![i] = g] /\ UNCHANGED <<keys, active, raced>>
    BY <1>8 DEF Clear, GenStep
  <2> HIDE DEF g
  <2> QED BY <1>0, <1>3, <2>1, <2>2, <2>3 DEF KeysTypeOK, GenFits
<1>9. CASE Commit(i)
  <2>1. gen[i].kid \in Kids
    BY <1>0, <1>2, <1>9 DEF Commit, GenFits
  <2>2. keys' \in [Kids -> {"none", "inactive", "active"}]
    BY <1>0, <1>9 DEF Commit, Activate
  <2>3. active' \in [Instances -> Kids \cup {None}] /\ gen' = [gen EXCEPT ![i] = Off]
        /\ raced' = raced
    BY <1>0, <1>9, <2>1 DEF Commit, GenStep
  <2> QED BY <1>0, <1>1, <2>2, <2>3 DEF KeysTypeOK, GenFits
<1>10. CASE EnsureFails(i) \/ Restart(i)
  <2>1. gen' = [gen EXCEPT ![i] = Off] /\ keys' = keys /\ raced' \in BOOLEAN
        /\ active' \in [Instances -> Kids \cup {None}]
    BY <1>0, <1>10 DEF EnsureFails, Unlock, Restart, GenStep, Made
  <2> QED BY <1>0, <1>1, <2>1 DEF KeysTypeOK, GenFits
<1> QED BY <1>4, <1>5, <1>6, <1>7, <1>8, <1>9, <1>10 DEF KeyNext

(* A row of jwk_keys is never deleted, and a provider's key is in it.      *)
LEMMA KeysStay ==
    ASSUME KeyInv, NEW i \in Instances, KeyNext(i)
    PROVE  /\ \A k \in Kids : keys[k] # "none" => keys'[k] # "none"
           /\ ActiveIsKnown'
<1> USE KidsAssumption
<1>0. /\ keys \in [Kids -> {"none", "inactive", "active"}]
      /\ active \in [Instances -> Kids \cup {None}]
      /\ gen[i].kid \in Kids \cup {None}
      /\ gen[i].step # "off" => gen[i].kid \in Kids
      /\ ActiveIsKnown
      /\ \A k \in ActiveKeys : k \in Kids /\ keys[k] # "none"
  BY DEF KeyInv, KeysTypeOK, Gen, GenFits, ActiveKeys
<1>1. \A k \in Kids : keys[k] # "none" => keys'[k] # "none"
  <2>1. CASE Create(i)
    BY <1>0, <2>1 DEF Create
  <2>2. CASE Commit(i)
    BY <1>0, <2>2 DEF Commit, Activate
  <2>3. CASE keys' = keys
    BY <2>3
  <2> QED BY <2>1, <2>2, <2>3 DEF KeyNext, Load, NewKey, Snapshot, Clear, EnsureFails, Restart
<1>2. \A j \in Instances : active'[j] # None => active'[j] = active[j] \/ keys'[active'[j]] # "none"
  <2>1. CASE Load(i)
    BY <1>0, <2>1 DEF Load
  <2>2. CASE Commit(i)
    BY <1>0, <2>2 DEF Commit, Activate
  <2>3. CASE Restart(i)
    BY <1>0, <2>3 DEF Restart
  <2>4. CASE active' = active
    BY <2>4
  <2> QED BY <2>1, <2>2, <2>3, <2>4 DEF KeyNext, NewKey, Create, Snapshot, Clear, EnsureFails
<1> QED BY <1>0, <1>1, <1>2 DEF ActiveIsKnown

(* A key is made alone, and the others are made inactive before it is done,*)
(* or raced says otherwise.                                                *)
LEMMA KeyInvStep ==
    ASSUME KeyInv, NEW i \in Instances, KeyNext(i)
    PROVE  KeyInv'
<1> USE KidsAssumption
<1>0. /\ KeysTypeOK' /\ GenFits' /\ ActiveIsKnown'
      /\ \A k \in Kids : keys[k] # "none" => keys'[k] # "none"
  BY KeyTypes, KeysStay
<1>1. /\ keys \in [Kids -> {"none", "inactive", "active"}]
      /\ gen \in [Instances -> Gen] /\ raced \in BOOLEAN
      /\ GenFits /\ MakesAlone /\ ActiveKeyIsOne
      /\ \A j \in Instances : gen[j].rows \subseteq Kids /\ gen[j].kid \in Kids \cup {None}
      /\ ActiveKeys \subseteq Kids /\ ActiveKeys' \subseteq Kids
  BY DEF KeyInv, KeysTypeOK, Gen, GenFits, ActiveKeys
<1>2. Off.step = "off" /\ Off.kid = None
  BY DEF Off
<1>3. CASE Load(i)
  <2>1. UNCHANGED <<keys, gen, raced>>
    BY <1>3 DEF Load
  <2> QED BY <1>0, <1>1, <2>1 DEF KeyInv, MakesAlone, ActiveKeyIsOne, ActiveKeys, Making, Made
<1>4. CASE NewKey(i)
  <2>1. PICK k \in Kids : gen' = [gen EXCEPT ![i] = [step |-> "create", kid |-> k, rows |-> {}]]
    BY <1>4 DEF NewKey, GenStep, Unused
  <2>2. gen[i].step = "off" /\ UNCHANGED keys /\ ActiveKeys' = ActiveKeys
        /\ raced' = (raced \/ \E j \in Instances \ {i} : Making(j))
    BY <1>4 DEF NewKey, NoKeyYet, ActiveKeys
  <2>3. /\ gen'[i].step = "create" /\ gen'[i].kid = k
        /\ \A j \in Instances \ {i} : gen'[j] = gen[j]
    BY <1>1, <2>1
  <2>4. MakesAlone'
    <3>1. ~raced' => \A j \in Instances : Making(j)' => j = i
      <4> SUFFICES ASSUME NEW j \in Instances, Making(j)', j # i PROVE raced'
        OBVIOUS
      <4>1. j \in Instances \ {i} /\ Making(j)
        BY <2>3 DEF Making
      <4> HIDE DEF Making
      <4> QED BY <2>2, <4>1
    <3>2. \A j \in Instances : gen'[j].step \in {"clear", "commit"} => gen'[j] = gen[j]
      BY <2>3
    <3>3. ~raced' => ~raced
      BY <2>2
    <3> QED BY <1>1, <2>2, <3>1, <3>2, <3>3 DEF MakesAlone
  <2>5. \A j \in Instances : Made(j) => Made(j)'
    BY <2>2, <2>3 DEF Made
  <2>6. ActiveKeyIsOne'
    BY <1>1, <2>2, <2>5 DEF ActiveKeyIsOne
  <2> QED BY <1>0, <2>4, <2>6 DEF KeyInv
<1>5. CASE Create(i)
  <2>1. gen[i].step = "create" /\ gen[i].kid \in Kids /\ raced' = raced
        /\ keys' = [keys EXCEPT ![gen[i].kid] = "active"]
    BY <1>1, <1>5 DEF Create, GenFits
  <2>2. /\ gen'[i].step = "snapshot" /\ gen'[i].kid = gen[i].kid
        /\ \A j \in Instances \ {i} : gen'[j] = gen[j]
    BY <1>1, <1>5 DEF Create, GenStep, Gen
  <2>3. gen[i].kid \in ActiveKeys'
    BY <1>1, <2>1 DEF ActiveKeys
  <2>4. Made(i)'
    BY <2>2 DEF Made
  <2>5. ActiveKeyIsOne'
    BY <2>3, <2>4 DEF ActiveKeyIsOne
  <2>6. MakesAlone'
    <3>1. \A j \in Instances : Making(j)' <=> Making(j)
      BY <2>2 DEF Making
    <3>2. Making(i)
      BY <1>1, <2>1 DEF Making, GenFits
    <3>3. \A j \in Instances : gen'[j].step \in {"clear", "commit"} => j # i /\ Making(j)
      BY <1>1, <2>2 DEF Making, GenFits
    <3> QED BY <1>1, <2>1, <3>1, <3>2, <3>3 DEF MakesAlone
  <2> QED BY <1>0, <2>5, <2>6 DEF KeyInv
<1>6. CASE Snapshot(i) \/ Clear(i)
  <2>1. UNCHANGED <<keys, raced>> /\ ActiveKeys' = ActiveKeys
        /\ gen[i].step \in {"snapshot", "clear"}
    BY <1>6 DEF Snapshot, Clear, ActiveKeys
  <2>2. /\ gen'[i].step \in {"clear", "commit"} /\ gen'[i].kid = gen[i].kid
        /\ gen'[i].rows = IF Snapshot(i) THEN ActiveKeys ELSE gen[i].rows \cap ActiveKeys
        /\ Snapshot(i) \/ gen[i].step = "clear"
        /\ \A j \in Instances \ {i} : gen'[j] = gen[j]
    <3>1. CASE Snapshot(i)
      BY <1>1, <3>1 DEF Snapshot, GenStep, Gen
    <3>2. CASE Clear(i) /\ ~Snapshot(i)
      BY <1>1, <3>2 DEF Clear, GenStep, Gen
    <3> QED BY <1>6, <3>1, <3>2
  <2>3. \A j \in Instances : (Making(j)' <=> Making(j)) /\ (Made(j) => Made(j)')
    BY <2>2 DEF Making, Made
  <2>4. MakesAlone'
    BY <1>1, <2>1, <2>2, <2>3 DEF MakesAlone
  <2>5. ActiveKeyIsOne'
    BY <1>1, <2>1, <2>3 DEF ActiveKeyIsOne
  <2> QED BY <1>0, <2>4, <2>5 DEF KeyInv
<1>7. CASE Commit(i)
  <2>1. gen[i].step = "commit" /\ gen[i].kid \in Kids /\ raced' = raced /\ keys' = Activate(i)
    BY <1>1, <1>7 DEF Commit, GenFits
  <2>2. gen'[i] = Off /\ \A j \in Instances \ {i} : gen'[j] = gen[j]
    BY <1>1, <1>7 DEF Commit, GenStep
  <2>3. gen[i].kid \in ActiveKeys'
    BY <1>1, <2>1 DEF ActiveKeys, Activate
  <2>4. ActiveKeys' \subseteq ActiveKeys \cup {gen[i].kid}
    BY <1>1, <2>1 DEF ActiveKeys, Activate
  <2>5. ActiveKeys \subseteq gen[i].rows => ActiveKeys' = {gen[i].kid}
    BY <1>1, <2>1, <2>3 DEF ActiveKeys, Activate
  <2>6. ~raced => \A j \in Instances \ {i} : ~Making(j)
    BY <1>1, <2>1 DEF MakesAlone, Making, GenFits
  <2>7. MakesAlone'
    <3>1. \A j \in Instances : Making(j)' => j # i /\ Making(j)
      BY <1>2, <2>2 DEF Making
    <3>2. \A j \in Instances : gen'[j].step \in {"clear", "commit"} => j # i /\ Making(j)
      BY <1>1, <1>2, <2>2 DEF Making, GenFits
    <3> QED BY <2>1, <2>6, <3>1, <3>2 DEF MakesAlone
  <2>8. ActiveKeyIsOne'
    BY <1>1, <2>1, <2>3, <2>5 DEF ActiveKeyIsOne, MakesAlone
  <2> QED BY <1>0, <2>7, <2>8 DEF KeyInv
<1>8. CASE EnsureFails(i) \/ Restart(i)
  <2>1. keys' = keys /\ ActiveKeys' = ActiveKeys /\ raced' = (raced \/ Made(i))
    BY <1>8 DEF EnsureFails, Restart, ActiveKeys
  <2>2. gen'[i] = Off /\ \A j \in Instances \ {i} : gen'[j] = gen[j]
    BY <1>1, <1>8 DEF EnsureFails, Unlock, Restart, GenStep
  <2>3. \A j \in Instances : Making(j)' => j # i /\ Making(j)
    BY <1>2, <2>2 DEF Making
  <2>4. MakesAlone'
    <3>1. \A j \in Instances : gen'[j].step \in {"clear", "commit"} => gen'[j] = gen[j]
      BY <1>2, <2>2
    <3> QED BY <1>1, <2>1, <2>3, <3>1 DEF MakesAlone
  <2>5. \A j \in Instances : Made(j) => raced' \/ Made(j)'
    BY <2>1, <2>2 DEF Made
  <2>6. raced => raced'
    BY <2>1
  <2>7. ActiveKeyIsOne'
    BY <1>1, <2>1, <2>5, <2>6 DEF ActiveKeyIsOne
  <2> QED BY <1>0, <2>4, <2>7 DEF KeyInv
<1> QED BY <1>3, <1>4, <1>5, <1>6, <1>7, <1>8 DEF KeyNext

LEMMA KeyInvStutter == KeyInv /\ UNCHANGED keyVars => KeyInv'
BY DEF KeyInv, KeysTypeOK, GenFits, ActiveIsKnown, MakesAlone, ActiveKeyIsOne, keyVars,
       ActiveKeys, Making, Made

-----------------------------------------------------------------------------
(* Tokens: what was signed can be verified; what was logged out is on the  *)
(* blacklist while it has time left, and nothing else is on it.            *)
Known(k) == k \in Kids /\ keys[k] # "none"
SignedIsKnown == \A t \in Tokens : Issued(t) => Known(token[t].kid)
OutIsListed == \A t \in Tokens :
    /\ t \in out => Issued(t) /\ (now >= token[t].exp \/ blacklist[t] >= token[t].exp)
    /\ blacklist[t] # 0 => t \in out
TokenInv == TokensTypeOK /\ SignedIsKnown /\ OutIsListed

(* What a request relies on: a token stays signed, and one that is over or *)
(* was logged out stays so.                                                *)
Over(t) == ~Live(t) \/ t \in out
TokensStay ==
    \A t \in Tokens : Issued(t) => Issued(t)' /\ (Over(t) => Over(t)')

TokenNext ==
    \/ \E i \in Instances, t \in Tokens : active[i] # None /\ SignAccess(i, t)
    \/ \E t \in Tokens : Issued(t) /\ BlacklistToken(t)
    \/ Tick
    \/ UNCHANGED tokenVars

LEMMA InitTokens == TokensInit => TokenInv
<1> SUFFICES ASSUME TokensInit PROVE TokenInv
  OBVIOUS
<1>1. 0 \in Moments /\ MaxTime \in Nat
  BY LifeAssumption DEF Moments
<1>2. [kid |-> None, exp |-> 0] \in Claims
  BY <1>1 DEF Claims
<1>3. TokensTypeOK
  BY <1>1, <1>2 DEF TokensInit, TokensTypeOK
<1>4. \A t \in Tokens : ~Issued(t)
  BY DEF TokensInit, Issued
<1> QED BY <1>3, <1>4 DEF TokensInit, TokenInv, SignedIsKnown, OutIsListed

LEMMA TokenStep ==
    ASSUME KeyInv, TokenInv, TokenNext, \A k \in Kids : Known(k) => Known(k)'
    PROVE  TokenInv' /\ TokensStay
<1> USE LifeAssumption, KidsAssumption
<1>0. /\ token \in [Tokens -> Claims]
      /\ blacklist \in [Tokens -> Moments \cup {Forever}]
      /\ now \in 0 .. MaxTime /\ now \in Nat
      /\ out \subseteq Tokens
      /\ MaxTime \in Nat /\ TTL \in Nat /\ TTL > 0
      /\ SignedIsKnown /\ OutIsListed
  BY DEF TokenInv, TokensTypeOK
<1>1. \A t \in Tokens :
         /\ token[t].kid \in Kids \cup {None} /\ token[t].exp \in Moments
         /\ token[t].exp \in Nat /\ token[t].exp =< MaxTime
         /\ blacklist[t] \in Nat
  BY <1>0 DEF Claims, Moments, Forever
<1>2. SUFFICES TokensTypeOK' /\ SignedIsKnown' /\ OutIsListed' /\ TokensStay
  BY DEF TokenInv
<1>3. ASSUME NEW i \in Instances, NEW t \in Tokens, active[i] # None, SignAccess(i, t)
      PROVE  TokensTypeOK' /\ SignedIsKnown' /\ OutIsListed' /\ TokensStay
  <2> DEFINE c == [kid |-> active[i], exp |-> now + TTL]
  <2>1. active[i] \in Kids /\ Known(active[i])
    BY <1>3 DEF KeyInv, KeysTypeOK, ActiveIsKnown, Known
  <2>2. c \in Claims /\ c.kid = active[i] /\ c.exp = now + TTL
    BY <1>0, <1>3, <2>1 DEF SignAccess, Claims, Moments
  <2>3. ~Issued(t) /\ token' = [token EXCEPT ![t] = c] /\ UNCHANGED <<blacklist, now, out>>
    BY <1>3 DEF SignAccess
  <2> HIDE DEF c
  <2>4. token'[t] = c /\ \A u \in Tokens \ {t} : token'[u] = token[u]
    BY <1>0, <2>3
  <2>5. TokensTypeOK'
    BY <1>0, <2>2, <2>3 DEF TokensTypeOK
  <2>6. SignedIsKnown'
    BY <1>0, <1>1, <2>1, <2>2, <2>4 DEF SignedIsKnown, Issued, Known
  <2>7. OutIsListed'
    BY <1>0, <2>3, <2>4 DEF OutIsListed, Issued
  <2>8. TokensStay
    BY <2>3, <2>4 DEF TokensStay, Issued, Over, Live
  <2> QED BY <2>5, <2>6, <2>7, <2>8
<1>4. ASSUME NEW t \in Tokens, Issued(t), BlacklistToken(t)
      PROVE  TokensTypeOK' /\ SignedIsKnown' /\ OutIsListed' /\ TokensStay
  <2>1. UNCHANGED <<token, now>> /\ out' = out \cup {t}
        /\ blacklist' = IF now > token[t].exp THEN blacklist
                          ELSE [blacklist EXCEPT ![t] = Until(t)]
    BY <1>4 DEF BlacklistToken
  <2>2. /\ Until(t) \in Moments \cup {Forever} /\ Until(t) \in Nat
        /\ now >= token[t].exp \/ Until(t) >= token[t].exp
    BY <1>0, <1>1 DEF Until, Moments, Forever
  <2>3. \A u \in Tokens \ {t} : blacklist'[u] = blacklist[u]
    BY <1>0, <2>1
  <2>4. now > token[t].exp \/ blacklist'[t] = Until(t)
    BY <1>0, <2>1
  <2>5. TokensTypeOK'
    BY <1>0, <2>1, <2>2 DEF TokensTypeOK
  <2>6. SignedIsKnown'
    BY <1>0, <1>1, <2>1 DEF SignedIsKnown, Issued, Known
  <2>7. OutIsListed'
    BY <1>0, <1>1, <1>4, <2>1, <2>2, <2>3, <2>4 DEF OutIsListed, Issued
  <2>8. TokensStay
    BY <2>1 DEF TokensStay, Issued, Over, Live
  <2> QED BY <2>5, <2>6, <2>7, <2>8
<1>5. CASE Tick
  <2>1. /\ now < MaxTime /\ now' = now + 1 /\ UNCHANGED <<token, out>>
        /\ blacklist' = [t \in Tokens |-> IF blacklist[t] > now + 1 THEN blacklist[t] ELSE 0]
    BY <1>5 DEF Tick
  <2>2. 0 \in Moments
    BY <1>0 DEF Moments
  <2>3. TokensTypeOK'
    BY <1>0, <2>1, <2>2 DEF TokensTypeOK
  <2>4. SignedIsKnown'
    BY <1>0, <1>1, <2>1 DEF SignedIsKnown, Issued, Known
  <2>5. OutIsListed'
    BY <1>0, <1>1, <2>1 DEF OutIsListed, Issued
  <2>6. TokensStay
    BY <1>0, <1>1, <2>1 DEF TokensStay, Issued, Over, Live
  <2> QED BY <2>3, <2>4, <2>5, <2>6
<1>6. CASE UNCHANGED tokenVars
  <2>1. UNCHANGED <<token, blacklist, now, out>>
    BY <1>6 DEF tokenVars
  <2>2. SignedIsKnown'
    BY <1>0, <1>1, <2>1 DEF SignedIsKnown, Issued, Known
  <2> QED BY <1>0, <2>1, <2>2 DEF TokensTypeOK, OutIsListed, TokensStay, Issued, Over, Live
<1> QED BY <1>3, <1>4, <1>5, <1>6 DEF TokenNext

LEMMA KeysKnown ==
    ASSUME KeyInv, (\E i \in Instances : KeyNext(i)) \/ UNCHANGED keyVars
    PROVE  \A k \in Kids : Known(k) => Known(k)'
BY KeysStay DEF Known, keyVars

-----------------------------------------------------------------------------
(* Answers: the tables of codes, operation by operation.                   *)
Operations == Public \cup Protected

LEMMA CodesHandled ==
    \A op \in Operations :
       /\ AnswersOf[op] \subseteq CasesOf[op] \cup {"OK", "Internal"}
       /\ CasesOf[op] \subseteq {"InvalidArgument", "Unauthenticated", "NotFound",
                                 "AlreadyExists", "FailedPrecondition", "ResourceExhausted"}
<1> SUFFICES ASSUME NEW op \in Operations
             PROVE  /\ AnswersOf[op] \subseteq CasesOf[op] \cup {"OK", "Internal"}
                    /\ CasesOf[op] \subseteq {"InvalidArgument", "Unauthenticated", "NotFound",
                                 "AlreadyExists", "FailedPrecondition", "ResourceExhausted"}
  OBVIOUS
<1> USE DEF AnswersOf, CasesOf
<1>1. CASE op = "Register"
  BY <1>1 DEF RegisterCodes, RegisterCases
<1>2. CASE op = "Login"
  BY <1>2 DEF LoginCodes, LoginCases
<1>3. CASE op = "Refresh"
  BY <1>3 DEF RefreshCodes, RefreshCases
<1>4. CASE op \in {"Logout", "LogoutAll"}
  BY <1>4 DEF LogoutCodes, LogoutAllCodes, LogoutCases
<1>5. CASE op = "GetJwks"
  BY <1>5 DEF GetJwksCodes
<1>6. CASE op = "RequestPasswordReset"
  BY <1>6 DEF RequestPasswordResetCodes, RequestPasswordResetCases
<1>7. CASE op = "ConfirmPasswordReset"
  BY <1>7 DEF ConfirmPasswordResetCodes, ConfirmPasswordResetCases
<1>8. CASE op = "RequestEmailVerification"
  BY <1>8 DEF RequestEmailVerificationCodes, RequestEmailVerificationCases
<1>9. CASE op = "ConfirmEmailVerification"
  BY <1>9 DEF ConfirmEmailVerificationCodes, ConfirmEmailVerificationCases
<1> QED BY <1>1, <1>2, <1>3, <1>4, <1>5, <1>6, <1>7, <1>8, <1>9
        DEF Operations, Public, Protected

LEMMA StatusesFit ==
    /\ DOMAIN StatusOf = {"OK", "InvalidArgument", "Unauthenticated", "NotFound",
                          "AlreadyExists", "FailedPrecondition", "ResourceExhausted"}
    /\ \A code \in DOMAIN StatusOf :
          /\ StatusOf[code] \in Statuses /\ StatusOf[code] # 500
          /\ StatusOf[code] = 200 <=> code = "OK"
BY DEF StatusOf, Statuses

Said(bodies) == {bodies[n] : n \in DOMAIN bodies}

LEMMA OneBody == \A s : Said(<<s>>) = {s}
BY DEF Said

LEMMA TwoBodies == \A s : Said(<<s, s>>) = {s}
BY DEF Said

(* What the gateway writes for an operation and a code.                    *)
LEMMA WrittenFits ==
    ASSUME NEW op \in Operations, NEW code \in AnswersOf[op] \cup {"Unauthenticated", "Internal"}
    PROVE  /\ Written(op, code) \in Bodies /\ code \in Codes
           /\ 200 \in Said(Written(op, code)) <=> code = "OK"
           /\ Written(op, code) = <<500, 500>> \/ \E s \in Statuses : Written(op, code) = <<s>>
           /\ Written(op, code) = <<500, 500>> => op = "Refresh" /\ code = "Internal"
           /\ Written(op, code) = <<500>> => code \in {"Unauthenticated", "Internal"}
           /\ Written(op, code) = <<500>> /\ code = "Unauthenticated" => op \notin {"Login", "Refresh"}
<1>1. 500 \in Statuses /\ 500 # 200
  BY DEF Statuses
<1>2. CASE code = "OK" \/ code \in CasesOf[op]
  <2>1. code \in DOMAIN StatusOf /\ Written(op, code) = <<StatusOf[code]>>
    BY <1>2, CodesHandled, StatusesFit DEF Written
  <2>2. code \in Codes /\ StatusOf[code] \in Statuses /\ StatusOf[code] # 500
        /\ (StatusOf[code] = 200 <=> code = "OK")
    BY <2>1, StatusesFit DEF Codes
  <2>3. <<StatusOf[code]>> # <<500>> /\ <<StatusOf[code]>> # <<500, 500>>
    BY <2>2
  <2>4. Said(<<StatusOf[code]>>) = {StatusOf[code]}
    BY OneBody
  <2> QED BY <2>1, <2>2, <2>3, <2>4 DEF Bodies
<1>3. CASE ~(code = "OK" \/ code \in CasesOf[op])
  <2>1. code \in {"Unauthenticated", "Internal"} /\ code # "OK" /\ code \in Codes
    BY <1>3, CodesHandled, StatusesFit DEF Codes
  <2>2. op \in {"Login", "Refresh"} => "Unauthenticated" \in CasesOf[op]
    BY DEF CasesOf, LoginCases, RefreshCases
  <2>3. op \in {"Login", "Refresh"} => code = "Internal"
    BY <1>3, <2>1, <2>2
  <2>4. CASE op = "Refresh"
    <3>1. Written(op, code) = <<500, 500>>
      BY <1>3, <2>4 DEF Written
    <3>2. <<500, 500>> \in Bodies /\ <<500, 500>> # <<500>>
      BY <1>1 DEF Bodies
    <3>3. Said(<<500, 500>>) = {500}
      BY TwoBodies
    <3> QED BY <1>1, <2>1, <2>3, <2>4, <3>1, <3>2, <3>3
  <2>5. CASE op # "Refresh"
    <3>1. Written(op, code) = <<500>>
      BY <1>3, <2>5 DEF Written
    <3>2. <<500>> \in Bodies /\ <<500, 500>> # <<500>>
      BY <1>1 DEF Bodies
    <3>3. Said(<<500>>) = {500}
      BY OneBody
    <3> QED BY <1>1, <2>1, <2>3, <3>1, <3>2, <3>3
  <2> QED BY <2>4, <2>5
<1> QED BY <1>2, <1>3

(* A request, and what it says of tokens.                                  *)
Answered(q) ==
    /\ 200 \in Said(q.bodies) <=> q.code = "OK"
    /\ q.bodies = <<500, 500>> \/ \E s \in Statuses : q.bodies = <<s>>
    /\ q.bodies = <<500, 500>> => q.op = "Refresh" /\ q.code = "Internal"
    /\ q.bodies = <<500>> /\ ~q.fault =>
          q.op \in FailAlone \/ (q.op \in Protected /\ q.tok # None)

Shaped(q) ==
    /\ q \in Request
    /\ q.pc \in {"sign", "ensure"} <=> q.inst # None
    /\ q.pc = "introspect" => q.op \in Protected
    /\ q.op \in Protected /\ q.pc \in {"call", "handle"} => q.tok # None
    /\ q.pc = "answered" => Answered(q)

Blames(q) ==
    /\ q.op \in Protected /\ ~q.fault /\ q.tok # None
    /\ \/ q.code = "Unauthenticated"
       \/ q.pc = "answered" /\ q.bodies = <<500>> /\ q.op \notin FailAlone
Judged(q) ==
    /\ q.tok # None => Issued(q.tok)
    /\ Blames(q) => Over(q.tok)

LEMMA ReplyFits ==
    ASSUME NEW q, Shaped(q), q.pc # "answered",
           NEW code \in AnswersOf[q.op] \cup {"Unauthenticated", "Internal"},
           NEW fault \in BOOLEAN,
           code = "Unauthenticated" => q.op \in Signing \/ (q.op \in Protected /\ q.tok # None),
           code = "Internal" => fault \/ q.op \in FailAlone
    PROVE  Shaped(AnswerOf(q, code, Written(q.op, code), fault))
<1> DEFINE a == AnswerOf(q, code, Written(q.op, code), fault)
<1>1. q \in Request /\ q.op \in Operations /\ q.fault \in BOOLEAN
  BY DEF Shaped, Request, Operations
<1>2. /\ a.op = q.op /\ a.tok = q.tok /\ a.pc = "answered" /\ a.inst = None /\ a.code = code
      /\ a.bodies = Written(q.op, code)
      /\ a.fault = ((q.fault \/ fault) /\ code \in {"Unauthenticated", "Internal"})
  BY DEF AnswerOf
<1>3. Written(q.op, code) \in Bodies /\ code \in Codes
  BY <1>1, WrittenFits
<1>4. a \in Request
  BY <1>1, <1>3 DEF AnswerOf, Request, Steps
<1>5. Written(q.op, code) = <<500>> /\ ~a.fault =>
         q.op \in FailAlone \/ (q.op \in Protected /\ q.tok # None)
  BY <1>1, <1>2, WrittenFits DEF Signing
<1>6. Answered(a)
  BY <1>1, <1>2, <1>5, WrittenFits DEF Answered
<1> QED BY <1>2, <1>4, <1>6 DEF Shaped

LEMMA ReplyJudged ==
    ASSUME NEW q, Shaped(q), Judged(q),
           NEW code \in AnswersOf[q.op] \cup {"Unauthenticated", "Internal"},
           NEW fault \in BOOLEAN,
           code = "Unauthenticated" /\ q.op \in Protected /\ ~fault /\ q.tok # None => Over(q.tok),
           code = "Internal" => fault \/ q.op \in FailAlone
    PROVE  Judged(AnswerOf(q, code, Written(q.op, code), fault))
<1> DEFINE a == AnswerOf(q, code, Written(q.op, code), fault)
<1>1. q.op \in Operations /\ q.fault \in BOOLEAN
  BY DEF Shaped, Request, Operations
<1>2. /\ a.op = q.op /\ a.tok = q.tok /\ a.pc = "answered" /\ a.code = code
      /\ a.bodies = Written(q.op, code)
      /\ a.fault = ((q.fault \/ fault) /\ code \in {"Unauthenticated", "Internal"})
  BY DEF AnswerOf
<1>3. Blames(a) => q.op \in Protected /\ q.tok # None /\ code \in {"Unauthenticated", "Internal"}
  BY <1>1, <1>2, WrittenFits DEF Blames
<1>4. Blames(a) /\ code = "Internal" => FALSE
  BY <1>1, <1>2 DEF Blames
<1>5. Blames(a) => Over(q.tok)
  BY <1>1, <1>2, <1>3, <1>4 DEF Blames
<1>6. a.tok # None => Issued(a.tok)
  BY <1>2 DEF Judged, Issued
<1>7. Blames(a) => Over(a.tok)
  BY <1>2, <1>5 DEF Over, Live, Issued
<1> QED BY <1>6, <1>7 DEF Judged

ReqFits ==
    /\ req \in [Requests -> Request]
    /\ \A r \in Requests : Shaped(req[r]) /\ Judged(req[r])
ReqInv == ReqFits /\ MutexHeld

(* What is said of tokens stays true.                                      *)
LEMMA JudgedStays ==
    ASSUME TokensStay, NEW q, Shaped(q), Judged(q),
           NEW r \in Requests, req'[r] = q
    PROVE  Judged(req[r])'
<1>1. q.tok \in Tokens \cup {None}
  BY DEF Shaped, Request
<1>2. q.tok # None => Issued(q.tok)'
  BY <1>1 DEF Judged, TokensStay
<1>3. Blames(q) => Over(q.tok)' /\ q.tok # None
  BY <1>1 DEF Judged, TokensStay, Blames
<1> QED BY <1>2, <1>3 DEF Judged, Blames, Issued, Over, Live

LEMMA OneChanges ==
    ASSUME ReqFits, TokensStay, NEW r \in Requests, NEW q, Shaped(q), Judged(q),
           req' = [req EXCEPT ![r] = q]
    PROVE  ReqFits'
<1>1. q \in Request
  BY DEF Shaped
<1>2. req' \in [Requests -> Request]
  BY <1>1 DEF ReqFits
<1>3. ASSUME NEW s \in Requests PROVE Shaped(req'[s]) /\ Judged(req[s])'
  <2>1. PICK x : x = req'[s]
    OBVIOUS
  <2>2. Shaped(x) /\ Judged(x)
    BY <2>1 DEF ReqFits
  <2> QED BY <2>1, <2>2, JudgedStays
<1> QED BY <1>2, <1>3 DEF ReqFits, Shaped

LEMMA NoneChanges == ReqFits /\ TokensStay /\ UNCHANGED req => ReqFits'
<1> SUFFICES ASSUME ReqFits, TokensStay, UNCHANGED req PROVE ReqFits'
  OBVIOUS
<1>1. ASSUME NEW s \in Requests PROVE Shaped(req'[s]) /\ Judged(req[s])'
  <2>1. PICK x : x = req'[s]
    OBVIOUS
  <2>2. Shaped(x) /\ Judged(x)
    BY <2>1 DEF ReqFits
  <2> QED BY <2>1, <2>2, JudgedStays
<1> QED BY <1>1 DEF ReqFits, Shaped

-----------------------------------------------------------------------------
Inv == KeyInv /\ TokenInv /\ ReqInv

LEMMA ReqTypes ==
    ASSUME Inv, NEW r \in Requests
    PROVE  /\ req[r] \in Request /\ req[r].op \in Operations /\ req[r].fault \in BOOLEAN
           /\ req[r].tok \in Tokens \cup {None} /\ req[r].inst \in Instances \cup {None}
           /\ req[r].tok # None => Issued(req[r].tok)
           /\ Shaped(req[r]) /\ Judged(req[r])
           /\ req[r].pc \in {"sign", "ensure"} => req[r].inst \in Instances
BY DEF Inv, ReqInv, ReqFits, Shaped, Judged, Request, Operations

(* Why a token is refused, and what lets one pass that was logged out.     *)
LEMMA RefusedIsOver ==
    ASSUME Inv, NEW r \in Requests, ~Passes(r, FALSE), req[r].tok # None
    PROVE  Over(req[r].tok)
<1> DEFINE t == req[r].tok
<1>1. t \in Tokens /\ Issued(t)
  BY ReqTypes
<1>2. KeyIsKnown(t)
  BY <1>1 DEF Inv, TokenInv, SignedIsKnown, Known, KeyIsKnown
<1>3. Blacklisted(t) => t \in out
  <2>1. now \in Nat /\ (blacklist[t] # 0 => t \in out)
    BY <1>1, LifeAssumption DEF Inv, TokenInv, TokensTypeOK, OutIsListed
  <2>2. blacklist[t] \in Nat
    BY <1>1, LifeAssumption DEF Inv, TokenInv, TokensTypeOK, Moments, Forever
  <2> QED BY <2>1, <2>2 DEF Blacklisted
<1> QED BY <1>2, <1>3 DEF Passes, Validates, Over

LEMMA PassesByFault ==
    ASSUME Inv, NEW r \in Requests, NEW noRedis \in BOOLEAN, Passes(r, noRedis),
           req[r].tok \in out
    PROVE  noRedis
<1> DEFINE t == req[r].tok
<1>1. t \in Tokens
  BY ReqTypes DEF Passes
<1>2. now \in Nat /\ token[t].exp \in Nat /\ blacklist[t] \in Nat
  BY <1>1, LifeAssumption DEF Inv, TokenInv, TokensTypeOK, Claims, Moments, Forever
<1>3. now < token[t].exp /\ (noRedis \/ ~Blacklisted(t))
  BY DEF Passes, Validates, Live
<1>4. now >= token[t].exp \/ blacklist[t] >= token[t].exp
  BY <1>1 DEF Inv, TokenInv, OutIsListed
<1>5. Blacklisted(t)
  BY <1>2, <1>3, <1>4 DEF Blacklisted
<1> QED BY <1>3, <1>5

(* A step that replies to r.                                               *)
LEMMA Replies ==
    ASSUME Inv, TokensStay, NEW r \in Requests, ~At(r, "answered"),
           NEW code \in AnswersOf[req[r].op] \cup {"Unauthenticated", "Internal"},
           NEW fault \in BOOLEAN,
           code = "Unauthenticated" =>
              req[r].op \in Signing
              \/ (req[r].op \in Protected /\ req[r].tok # None /\ (fault \/ Over(req[r].tok))),
           code = "Internal" => fault \/ req[r].op \in FailAlone,
           Reply(r, code, fault)
    PROVE  ReqFits'
<1> DEFINE q == AnswerOf(req[r], code, Written(req[r].op, code), fault)
<1>1. Shaped(req[r]) /\ Judged(req[r]) /\ req[r].pc # "answered"
  BY ReqTypes DEF At
<1>2. req[r].op \in Signing => req[r].op \notin Protected
  BY DEF Signing, Protected
<1>3. Shaped(q)
  BY <1>1, ReplyFits
<1>4. Judged(q)
  BY <1>1, <1>2, ReplyJudged
<1>5. req' = [req EXCEPT ![r] = q]
  BY DEF Reply, Answer
<1> HIDE DEF q
<1> QED BY <1>3, <1>4, <1>5, OneChanges DEF Inv, ReqInv

(* A call that fails.                                                      *)
LEMMA FailedFits ==
    ASSUME Inv, NEW r \in Requests, ~At(r, "answered")
    PROVE  Shaped(Failed(req[r])) /\ Judged(Failed(req[r]))
<1>1. Shaped(req[r]) /\ Judged(req[r]) /\ req[r].pc # "answered"
  BY ReqTypes DEF At
<1>2. Shaped(AnswerOf(req[r], "Internal", Written(req[r].op, "Internal"), TRUE))
  BY <1>1, ReplyFits
<1>3. Judged(AnswerOf(req[r], "Internal", Written(req[r].op, "Internal"), TRUE))
  BY <1>1, ReplyJudged
<1> QED BY <1>2, <1>3 DEF Failed

(* A step that takes r further, with more failures or not.                 *)
LEMMA GoesOn ==
    ASSUME Inv, TokensStay, NEW r \in Requests, req[r].pc # "answered",
           NEW pc \in Steps \ {"introspect", "answered"}, NEW inst \in Instances \cup {None}, NEW fault \in BOOLEAN,
           pc \in {"sign", "ensure"} <=> inst # None,
           req[r].op \in Protected /\ pc \in {"call", "handle"} => req[r].tok # None,
           req[r].fault => fault,
           req' = [req EXCEPT ![r] = [req[r] EXCEPT !.pc = pc, !.inst = inst, !.fault = fault]]
    PROVE  ReqFits'
<1> DEFINE q == [req[r] EXCEPT !.pc = pc, !.inst = inst, !.fault = fault]
<1>1. req[r] \in Request /\ Judged(req[r])
  BY ReqTypes
<1>2. /\ q.op = req[r].op /\ q.tok = req[r].tok /\ q.pc = pc /\ q.inst = inst
      /\ q.code = req[r].code /\ q.fault = fault /\ q \in Request
  BY <1>1 DEF Request
<1>3. Shaped(q)
  BY <1>2 DEF Shaped
<1>4. Blames(q) => Blames(req[r])
  BY <1>2 DEF Blames
<1>5. q.tok # None => Issued(q.tok)
  BY <1>1, <1>2 DEF Judged, Issued
<1>6. Blames(q) => Over(q.tok)
  BY <1>1, <1>2, <1>4 DEF Judged, Over, Live, Issued
<1>7. Judged(q)
  BY <1>5, <1>6 DEF Judged
<1> HIDE DEF q
<1> QED BY <1>3, <1>7, OneChanges DEF Inv, ReqInv, q

-----------------------------------------------------------------------------
(* Each step is one of the keys and one of the tokens.                     *)
LEMMA InstOf ==
    ASSUME Inv, NEW r \in Requests, req[r].pc \in {"sign", "ensure"}
    PROVE  req[r].inst \in Instances
BY ReqTypes

LEMMA KeyPart == Inv /\ Next => UNCHANGED keyVars \/ \E i \in Instances : KeyNext(i)
<1> SUFFICES ASSUME Inv, Next, ~(UNCHANGED keyVars) PROVE \E i \in Instances : KeyNext(i)
  OBVIOUS
<1>1. ASSUME NEW r \in Requests, Ensure(r) \/ GetActiveFails(r) \/ EnsureStep(r) \/ EnsureError(r)
      PROVE  KeyNext(req[r].inst) /\ req[r].inst \in Instances
  <2>1. req[r].inst \in Instances
    BY <1>1, InstOf DEF Ensure, GetActiveFails, EnsureStep, EnsureError, At
  <2> QED BY <1>1, <2>1 DEF Ensure, GetActiveFails, EnsureStep, EnsureError, KeyNext,
             Generate, GenerateAnyway
<1>2. ASSUME NEW i \in Instances, Crash(i) PROVE KeyNext(i)
  BY <1>2 DEF Crash, KeyNext
<1> QED BY <1>1, <1>2 DEF Next, Progress, Receive, BadRequest, CallFails, AuthRequired,
           Interceptor, Handle, Sign, LogoutWithAccessToken, Clock

(* What is at the handler of Logout bears a token.                         *)
LEMMA HandledHasToken ==
    ASSUME Inv, NEW r \in Requests, Handling(r), req[r].op = "Logout"
    PROVE  req[r].tok \in Tokens /\ Issued(req[r].tok)
<1>1. req[r].op \in Protected /\ req[r].op \notin Public
  BY DEF Protected, Public
<1>2. req[r].pc = "handle"
  BY <1>1 DEF Handling, At
<1> QED BY <1>1, <1>2, ReqTypes DEF Shaped

LEMMA TokenPart == Inv /\ Next => TokenNext
<1> SUFFICES ASSUME Inv, Next PROVE TokenNext
  OBVIOUS
<1>1. ASSUME NEW r \in Requests, Sign(r) PROVE TokenNext
  <2>1. req[r].inst \in Instances /\ active[req[r].inst] # None
    BY <1>1, InstOf DEF Sign, At
  <2>2. UNCHANGED tokenVars \/ \E t \in Tokens : SignAccess(req[r].inst, t)
    BY <1>1 DEF Sign
  <2> QED BY <2>1, <2>2 DEF TokenNext
<1>2. ASSUME NEW r \in Requests, LogoutWithAccessToken(r) PROVE TokenNext
  <2>1. req[r].tok \in Tokens /\ Issued(req[r].tok)
    BY <1>2, HandledHasToken DEF LogoutWithAccessToken
  <2>2. UNCHANGED tokenVars \/ BlacklistToken(req[r].tok)
    BY <1>2 DEF LogoutWithAccessToken
  <2> QED BY <2>1, <2>2 DEF TokenNext
<1>3. Clock => TokenNext
  BY DEF Clock, TokenNext
<1>4. UNCHANGED tokenVars => TokenNext
  BY DEF TokenNext
<1> QED BY <1>1, <1>2, <1>3, <1>4 DEF Next, Progress, Receive, BadRequest, CallFails, AuthRequired,
           Interceptor, Handle, Ensure, GetActiveFails, EnsureStep, EnsureError, Crash

LEMMA KeysAndTokens == Inv /\ (Next \/ UNCHANGED vars) => KeyInv' /\ TokenInv' /\ TokensStay
<1> SUFFICES ASSUME Inv, Next \/ UNCHANGED vars PROVE KeyInv' /\ TokenInv' /\ TokensStay
  OBVIOUS
<1>1. KeyInv /\ TokenInv
  BY DEF Inv
<1>2. UNCHANGED keyVars \/ \E i \in Instances : KeyNext(i)
  BY KeyPart DEF vars
<1>3. KeyInv' /\ \A k \in Kids : Known(k) => Known(k)'
  <2>1. CASE UNCHANGED keyVars
    BY <1>1, <2>1, KeyInvStutter DEF keyVars, Known
  <2>2. ASSUME NEW i \in Instances, KeyNext(i)
        PROVE KeyInv' /\ \A k \in Kids : Known(k) => Known(k)'
    BY <1>1, <2>2, KeyInvStep, KeysStay DEF Known
  <2> QED BY <1>2, <2>1, <2>2
<1>4. TokenNext
  BY TokenPart DEF vars, TokenNext
<1> QED BY <1>1, <1>3, <1>4, TokenStep

-----------------------------------------------------------------------------
(* Requests keep their shape, action by action.                            *)
LEMMA InitReq == Init => ReqInv
<1> SUFFICES ASSUME Init PROVE ReqInv
  OBVIOUS
<1> DEFINE q == [op |-> "GetJwks", tok |-> None, pc |-> "idle", inst |-> None,
                 code |-> "none", fault |-> FALSE, bodies |-> <<>>]
<1>1. q \in Request
  BY DEF Request, Public, Steps, Codes, Bodies
<1>2. Shaped(q)
  BY <1>1 DEF Shaped
<1>3. Judged(q)
  BY DEF Judged, Blames
<1>4. req = [r \in Requests |-> q] /\ \A i \in Instances : gen[i] = Off
  BY DEF Init, KeysInit
<1>5. q.pc # "ensure" /\ Off.step = "off"
  BY DEF Off
<1> HIDE DEF q
<1> QED BY <1>1, <1>2, <1>3, <1>4, <1>5 DEF ReqInv, ReqFits, MutexHeld, At

LEMMA ReceiveFits ==
    ASSUME Inv, TokensStay, NEW r \in Requests, NEW op \in Public \cup Protected,
           NEW t \in Tokens \cup {None}, Receive(r, op, t)
    PROVE  ReqFits'
<1> DEFINE q == [op |-> op, tok |-> t, pc |-> IF op \in Protected THEN "introspect" ELSE "call",
                 inst |-> None, code |-> "none", fault |-> FALSE, bodies |-> <<>>]
<1>1. q \in Request
  BY DEF Request, Steps, Codes, Bodies
<1>2. Shaped(q)
  BY <1>1 DEF Shaped
<1>3. t # None => Issued(t)
  BY DEF Receive
<1>4. Judged(q)
  BY <1>3 DEF Judged, Blames
<1>5. req' = [req EXCEPT ![r] = q]
  BY DEF Receive
<1> HIDE DEF q
<1> QED BY <1>2, <1>4, <1>5, OneChanges DEF Inv, ReqInv

(* The gateway refuses a request of itself.                                *)
LEMMA GatewayAnswers ==
    ASSUME Inv, NEW r \in Requests, req[r].pc # "answered", NEW fault \in BOOLEAN,
           NEW code \in Codes, NEW status \in Statuses,
           (code = "InvalidArgument" /\ status = 400) \/ (code = "Unauthenticated" /\ status = 401),
           code = "Unauthenticated" =>
              req[r].op \in Protected /\ (fault \/ req[r].tok = None \/ Over(req[r].tok))
    PROVE  Shaped(AnswerOf(req[r], code, <<status>>, fault))
           /\ Judged(AnswerOf(req[r], code, <<status>>, fault))
<1> DEFINE q == AnswerOf(req[r], code, <<status>>, fault)
<1>0. req[r] \in Request /\ Judged(req[r])
  BY ReqTypes
<1>1. /\ q.op = req[r].op /\ q.tok = req[r].tok /\ q.pc = "answered" /\ q.inst = None
      /\ q.code = code /\ q.bodies = <<status>>
      /\ q.fault = ((req[r].fault \/ fault) /\ code \in {"Unauthenticated", "Internal"})
  BY DEF AnswerOf
<1>2. status \in Statuses /\ status # 500 /\ status # 200 /\ code \in Codes /\ code # "OK"
  BY StatusesFit DEF Statuses, Codes
<1>3. <<status>> \in Bodies
  BY <1>2 DEF Bodies
<1>4. <<status>> # <<500>> /\ <<status>> # <<500, 500>> /\ Said(<<status>>) = {status}
  BY <1>2, OneBody
<1>5. q \in Request
  BY <1>0, <1>2, <1>3 DEF AnswerOf, Request, Steps
<1>6. Shaped(q)
  BY <1>1, <1>2, <1>4, <1>5 DEF Shaped, Answered
<1>7. q.tok # None => Issued(q.tok)
  BY <1>0, <1>1 DEF Judged, Issued
<1>8. Blames(q) => ~fault /\ code = "Unauthenticated" /\ req[r].tok # None
  BY <1>0, <1>1, <1>4 DEF Blames, Request
<1>9. Blames(q) => Over(q.tok)
  BY <1>1, <1>8 DEF Over, Live, Issued
<1>10. Judged(q)
  BY <1>7, <1>9 DEF Judged
<1> QED BY <1>6, <1>10

LEMMA BadRequestFits ==
    ASSUME Inv, TokensStay, NEW r \in Requests, BadRequest(r)
    PROVE  ReqFits'
<1> DEFINE q == AnswerOf(req[r], "InvalidArgument", <<400>>, FALSE)
<1>1. req[r].pc # "answered"
  BY DEF BadRequest, At
<1>2. "InvalidArgument" \in Codes /\ 400 \in Statuses
  BY StatusesFit DEF Codes, Statuses
<1>3. Shaped(q) /\ Judged(q)
  BY <1>1, <1>2, GatewayAnswers
<1>4. req' = [req EXCEPT ![r] = q]
  BY DEF BadRequest, Answer
<1> HIDE DEF q
<1> QED BY <1>3, <1>4, OneChanges DEF Inv, ReqInv

(* A token passes, in the middleware or in the interceptor.                *)
LEMMA PassFits ==
    ASSUME Inv, TokensStay, NEW r \in Requests, NEW noRedis \in BOOLEAN, Passes(r, noRedis),
           req[r].pc \in {"introspect", "call"}, NEW pc \in {"call", "handle"},
           req' = [req EXCEPT ![r].pc = pc, ![r].fault = @ \/ noRedis]
    PROVE  ReqFits'
<1> DEFINE fault == req[r].fault \/ noRedis
<1>1. req[r] \in Request /\ req \in [Requests -> Request] /\ Shaped(req[r])
  BY ReqTypes DEF Inv, ReqInv, ReqFits
<1>2. req[r].inst = None
  BY <1>1 DEF Shaped
<1>3. req[r].tok # None
  BY DEF Passes
<1>4. fault \in BOOLEAN /\ (req[r].fault => fault)
  OBVIOUS
<1>5. req' = [req EXCEPT ![r] = [req[r] EXCEPT !.pc = pc, !.inst = None, !.fault = fault]]
  BY <1>1, <1>2 DEF Request
<1>6. pc \in Steps \ {"introspect", "answered"} /\ pc \notin {"sign", "ensure"}
  BY DEF Steps
<1> HIDE DEF fault
<1> QED BY <1>2, <1>3, <1>4, <1>5, <1>6, GoesOn

LEMMA AuthRequiredFits ==
    ASSUME Inv, TokensStay, NEW r \in Requests, AuthRequired(r)
    PROVE  ReqFits'
<1>1. req[r].pc = "introspect" /\ req[r].op \in Protected
  BY ReqTypes DEF AuthRequired, At, Shaped
<1>2. ASSUME NEW noRedis \in BOOLEAN, Passes(r, noRedis),
             req' = [req EXCEPT ![r].pc = "call", ![r].fault = @ \/ noRedis]
      PROVE  ReqFits'
  BY <1>1, <1>2, PassFits
<1>3. ASSUME NEW fault \in BOOLEAN, fault \/ ~Passes(r, FALSE),
             Answer(r, "Unauthenticated", << 401 >>, fault)
      PROVE  ReqFits'
  <2> DEFINE q == AnswerOf(req[r], "Unauthenticated", << 401 >>, fault)
  <2>1. "Unauthenticated" \in Codes /\ 401 \in Statuses
    BY StatusesFit DEF Codes, Statuses
  <2>2. fault \/ req[r].tok = None \/ Over(req[r].tok)
    BY <1>3, RefusedIsOver
  <2>3. Shaped(q) /\ Judged(q)
    BY <1>1, <2>1, <2>2, GatewayAnswers
  <2>4. req' = [req EXCEPT ![r] = q]
    BY <1>3 DEF Answer
  <2> HIDE DEF q
  <2> QED BY <2>3, <2>4, OneChanges DEF Inv, ReqInv
<1> QED BY <1>2, <1>3 DEF AuthRequired

LEMMA InterceptorFits ==
    ASSUME Inv, TokensStay, NEW r \in Requests, Interceptor(r)
    PROVE  ReqFits'
<1>1. req[r].pc = "call" /\ req[r].op \in Protected /\ ~At(r, "answered")
  BY DEF Interceptor, At
<1>2. req[r].tok # None
  BY <1>1, ReqTypes DEF Shaped
<1>3. ASSUME NEW noRedis \in BOOLEAN, Passes(r, noRedis),
             req' = [req EXCEPT ![r].pc = "handle", ![r].fault = @ \/ noRedis]
      PROVE  ReqFits'
  BY <1>1, <1>3, PassFits
<1>4. ASSUME NEW fault \in BOOLEAN, fault \/ ~Passes(r, FALSE), Reply(r, "Unauthenticated", fault)
      PROVE  ReqFits'
  <2>1. fault \/ Over(req[r].tok)
    BY <1>2, <1>4, RefusedIsOver
  <2> QED BY <1>1, <1>2, <1>4, <2>1, Replies
<1> QED BY <1>3, <1>4 DEF Interceptor

LEMMA CallFailsFits ==
    ASSUME Inv, TokensStay, NEW r \in Requests, CallFails(r)
    PROVE  ReqFits'
<1>1. ~At(r, "answered")
  BY DEF CallFails, At
<1>2. Shaped(Failed(req[r])) /\ Judged(Failed(req[r]))
  BY <1>1, FailedFits
<1>3. req' = [req EXCEPT ![r] = Failed(req[r])]
  BY DEF CallFails
<1> QED BY <1>2, <1>3, OneChanges DEF Inv, ReqInv

LEMMA OKIsAnAnswer == \A op \in Operations : "OK" \in AnswersOf[op]
BY DEF Operations, Public, Protected, AnswersOf, RegisterCodes, LoginCodes, RefreshCodes,
       LogoutCodes, LogoutAllCodes, GetJwksCodes, RequestPasswordResetCodes,
       ConfirmPasswordResetCodes, RequestEmailVerificationCodes, ConfirmEmailVerificationCodes

LEMMA HandleFits ==
    ASSUME Inv, TokensStay, NEW r \in Requests, Handle(r)
    PROVE  ReqFits'
<1>0. req[r] \in Request /\ req \in [Requests -> Request]
  BY ReqTypes DEF Inv, ReqInv, ReqFits
<1>1. req[r].pc # "answered" /\ ~At(r, "answered")
  BY DEF Handle, Handling, At
<1>2. ASSUME NEW i \in Instances, req' = [req EXCEPT ![r].pc = "sign", ![r].inst = i]
      PROVE  ReqFits'
  <2>1. req' = [req EXCEPT ![r] = [req[r] EXCEPT !.pc = "sign", !.inst = i, !.fault = req[r].fault]]
    BY <1>0, <1>2 DEF Request
  <2>2. "sign" \in Steps \ {"introspect", "answered"} /\ i # None /\ req[r].fault \in BOOLEAN
    BY <1>0, NoneAssumption DEF Steps, Request
  <2> QED BY <1>1, <2>1, <2>2, GoesOn
<1>3. ASSUME NEW code \in AnswersOf[req[r].op],
             Reply(r, code, code = "Internal" /\ req[r].op \notin FailAlone)
      PROVE  ReqFits'
  <2> DEFINE fault == (code = "Internal" /\ req[r].op \notin FailAlone)
  <2>1. code = "Unauthenticated" => req[r].op \in Signing
    BY <1>3, ReqTypes DEF Operations, Public, Protected, AnswersOf, RegisterCodes, LoginCodes,
       RefreshCodes, LogoutCodes, LogoutAllCodes, GetJwksCodes, RequestPasswordResetCodes,
       ConfirmPasswordResetCodes, RequestEmailVerificationCodes, ConfirmEmailVerificationCodes, Signing
  <2>2. fault \in BOOLEAN /\ (code = "Internal" => fault \/ req[r].op \in FailAlone)
    OBVIOUS
  <2>3. Reply(r, code, fault)
    BY <1>3
  <2> HIDE DEF fault
  <2> QED BY <1>1, <2>1, <2>2, <2>3, Replies
<1> QED BY <1>2, <1>3 DEF Handle

LEMMA LogoutFits ==
    ASSUME Inv, TokensStay, NEW r \in Requests, LogoutWithAccessToken(r)
    PROVE  ReqFits'
<1>1. ~At(r, "answered") /\ req[r].op = "Logout"
  BY DEF LogoutWithAccessToken, Handling, At
<1>2. PICK code \in {"OK", "NotFound", "Internal"}, fault \in BOOLEAN :
         Reply(r, code, fault) /\ (code = "Internal" => fault)
  BY DEF LogoutWithAccessToken
<1>3. code \in AnswersOf[req[r].op]
  BY <1>1 DEF AnswersOf, LogoutCodes
<1> QED BY <1>1, <1>2, <1>3, Replies

LEMMA SignFits ==
    ASSUME Inv, TokensStay, NEW r \in Requests, Sign(r)
    PROVE  ReqFits'
<1>1. ~At(r, "answered")
  BY DEF Sign, At
<1>2. PICK code \in {"OK", "Internal"} : Reply(r, code, code = "Internal")
  BY DEF Sign
<1>3. PICK fault \in BOOLEAN : fault = (code = "Internal") /\ Reply(r, code, fault)
  BY <1>2
<1>4. code \in AnswersOf[req[r].op] \cup {"Unauthenticated", "Internal"}
  BY OKIsAnAnswer, ReqTypes
<1> QED BY <1>1, <1>3, <1>4, Replies

LEMMA EnsureErrorFits ==
    ASSUME Inv, TokensStay, NEW r \in Requests, EnsureError(r)
    PROVE  ReqFits'
BY Replies DEF EnsureError, At

(* The steps of a request at the mutex.                                    *)
LEMMA EnsureFits ==
    ASSUME Inv, TokensStay, NEW r \in Requests, Ensure(r) \/ GetActiveFails(r) \/ EnsureStep(r)
    PROVE  ReqFits'
<1>0. req[r] \in Request /\ req \in [Requests -> Request] /\ req[r].pc \in {"sign", "ensure"}
  BY ReqTypes DEF Inv, ReqInv, ReqFits, Ensure, GetActiveFails, EnsureStep, At
<1>1. req[r].inst \in Instances /\ req[r].inst # None /\ req[r].fault \in BOOLEAN
  BY <1>0, ReqTypes, NoneAssumption DEF Request
<1>2. CASE UNCHANGED req
  BY <1>2, NoneChanges DEF Inv, ReqInv
<1>3. ASSUME NEW pc \in {"sign", "ensure"}, NEW fault \in BOOLEAN, req[r].fault => fault,
             req' = [req EXCEPT ![r] = [req[r] EXCEPT !.pc = pc, !.inst = req[r].inst, !.fault = fault]]
      PROVE  ReqFits'
  <2>1. pc \in Steps \ {"introspect", "answered"} /\ pc \notin {"call", "handle"}
    BY DEF Steps
  <2>2. PICK inst \in Instances \cup {None} : inst = req[r].inst /\ inst # None
    BY <1>1
  <2>3. req' = [req EXCEPT ![r] = [req[r] EXCEPT !.pc = pc, !.inst = inst, !.fault = fault]]
    BY <1>3, <2>2
  <2>4. req[r].pc # "answered"
    BY <1>0
  <2>5. fault \in BOOLEAN /\ (req[r].fault => fault) /\ (pc \in {"sign", "ensure"} <=> inst # None)
    BY <1>3, <2>2
  <2> HIDE <1>3
  <2> QED BY <2>1, <2>2, <2>3, <2>4, <2>5, GoesOn
<1>4. ASSUME NEW pc \in {"sign", "ensure"}, To(r, pc) PROVE ReqFits'
  <2>1. req' = [req EXCEPT ![r] = [req[r] EXCEPT !.pc = pc, !.inst = req[r].inst, !.fault = req[r].fault]]
    BY <1>0, <1>4 DEF To, Request
  <2> QED BY <1>1, <1>3, <2>1
<1>5. CASE GetActiveFails(r)
  <2>1. req' = [req EXCEPT ![r] = [req[r] EXCEPT !.pc = "ensure", !.inst = req[r].inst, !.fault = TRUE]]
    BY <1>0, <1>5 DEF GetActiveFails, Request
  <2> QED BY <1>3, <2>1
<1> QED BY <1>2, <1>4, <1>5 DEF Ensure, EnsureStep

LEMMA CrashFits ==
    ASSUME Inv, TokensStay, NEW i \in Instances, Crash(i)
    PROVE  ReqFits'
<1>0. req' = [r \in Requests |-> IF req[r].inst = i THEN Failed(req[r]) ELSE req[r]]
  BY DEF Crash
<1>1. ASSUME NEW r \in Requests
      PROVE  req'[r] \in Request /\ Shaped(req'[r]) /\ Judged(req[r])'
  <2>1. Shaped(req[r]) /\ Judged(req[r])
    BY ReqTypes
  <2>2. req[r].inst = i => ~At(r, "answered")
    BY <2>1, NoneAssumption DEF Shaped, At
  <2>3. req[r].inst = i => Shaped(Failed(req[r])) /\ Judged(Failed(req[r]))
    BY <2>2, FailedFits
  <2>4. PICK x : x = req'[r]
    OBVIOUS
  <2>5. Shaped(x) /\ Judged(x)
    BY <1>0, <2>1, <2>3, <2>4
  <2> QED BY <2>4, <2>5, JudgedStays DEF Shaped
<1> QED BY <1>0, <1>1 DEF ReqFits, Shaped

LEMMA ReqStep ==
    ASSUME Inv, TokensStay, Next \/ UNCHANGED vars
    PROVE  ReqFits'
<1>1. CASE UNCHANGED req
  BY <1>1, NoneChanges DEF Inv, ReqInv
<1> QED BY <1>1, ReceiveFits, BadRequestFits, AuthRequiredFits, InterceptorFits, CallFailsFits,
           HandleFits, LogoutFits, SignFits, EnsureErrorFits, EnsureFits, CrashFits
        DEF Next, Progress, Clock, vars

-----------------------------------------------------------------------------
(* The mutex: nobody takes it or lets it go.                               *)
LEMMA NotAtMutex ==
    ASSUME MutexHeld, req \in [Requests -> Request], NEW r \in Requests, ~At(r, "ensure"),
           NEW q, q.pc # "ensure", req' = [req EXCEPT ![r] = q],
           \A i \in Instances : gen'[i].step = "off" <=> gen[i].step = "off"
    PROVE  MutexHeld'
<1>1. \A s \in Requests : /\ At(s, "ensure")' <=> At(s, "ensure")
                          /\ At(s, "ensure") => req'[s].inst = req[s].inst
  BY DEF At
<1> QED BY <1>1 DEF MutexHeld

LEMMA SameAtMutex ==
    ASSUME MutexHeld, UNCHANGED req,
           \A i \in Instances : gen'[i].step = "off" <=> gen[i].step = "off"
    PROVE  MutexHeld'
BY DEF MutexHeld, At

(* A request takes the mutex of its instance.                              *)
LEMMA MutexTaken ==
    ASSUME MutexHeld, req \in [Requests -> Request], NEW r \in Requests, ~At(r, "ensure"),
           NEW i \in Instances, req[r].inst = i, gen[i].step = "off",
           NEW q, q.pc = "ensure", q.inst = i, req' = [req EXCEPT ![r] = q],
           gen'[i].step # "off", \A j \in Instances \ {i} : gen'[j] = gen[j]
    PROVE  MutexHeld'
<1>1. req'[r] = q /\ \A s \in Requests \ {r} : req'[s] = req[s]
  OBVIOUS
<1>2. \A s \in Requests : ~(At(s, "ensure") /\ req[s].inst = i)
  BY DEF MutexHeld
<1>3. \A s \in Requests : At(s, "ensure")' <=> (s = r \/ At(s, "ensure"))
  BY <1>1 DEF At
<1>4. \A s \in Requests : s # r => req'[s].inst = req[s].inst
  BY <1>1
<1>5. ASSUME NEW j \in Instances
      PROVE  gen'[j].step # "off" <=> \E s \in Requests : At(s, "ensure")' /\ req'[s].inst = j
  <2>1. CASE j = i
    BY <1>1, <1>3, <2>1
  <2>2. CASE j # i
    <3>1. gen'[j] = gen[j]
      BY <2>2
    <3>2. gen[j].step # "off" <=> \E s \in Requests : At(s, "ensure") /\ req[s].inst = j
      BY DEF MutexHeld
    <3>3. \A s \in Requests : At(s, "ensure")' /\ req'[s].inst = j <=> At(s, "ensure") /\ req[s].inst = j
      BY <1>1, <1>3, <1>4, <2>2
    <3> QED BY <3>1, <3>2, <3>3
  <2> QED BY <2>1, <2>2
<1>6. ASSUME NEW s \in Requests, NEW u \in Requests,
             At(s, "ensure")', At(u, "ensure")', req'[s].inst = req'[u].inst
      PROVE  s = u
  <2>1. CASE s = r \/ u = r
    BY <1>1, <1>2, <1>3, <1>4, <1>6, <2>1
  <2>2. CASE s # r /\ u # r
    BY <1>3, <1>4, <1>6, <2>2 DEF MutexHeld
  <2> QED BY <2>1, <2>2
<1> QED BY <1>5, <1>6 DEF MutexHeld

(* The mutex of an instance is let go, and nobody is left there.           *)
LEMMA MutexFreed ==
    ASSUME MutexHeld, NEW i \in Instances, gen'[i].step = "off",
           \A j \in Instances \ {i} : gen'[j] = gen[j],
           \A s \in Requests : At(s, "ensure")' => At(s, "ensure") /\ req'[s] = req[s] /\ req[s].inst # i,
           \A s \in Requests : At(s, "ensure") /\ req[s].inst # i => req'[s] = req[s]
    PROVE  MutexHeld'
<1>1. ASSUME NEW j \in Instances
      PROVE  gen'[j].step # "off" <=> \E s \in Requests : At(s, "ensure")' /\ req'[s].inst = j
  <2>1. CASE j = i
    BY <2>1
  <2>2. CASE j # i
    <3>1. gen'[j] = gen[j]
      BY <2>2
    <3>2. gen[j].step # "off" <=> \E s \in Requests : At(s, "ensure") /\ req[s].inst = j
      BY DEF MutexHeld
    <3>3. \A s \in Requests : At(s, "ensure") /\ req[s].inst = j => At(s, "ensure")' /\ req'[s].inst = j
      BY <2>2 DEF At
    <3>4. \A s \in Requests : At(s, "ensure")' /\ req'[s].inst = j => At(s, "ensure") /\ req[s].inst = j
      OBVIOUS
    <3> QED BY <3>1, <3>2, <3>3, <3>4
  <2> QED BY <2>1, <2>2
<1>2. ASSUME NEW s \in Requests, NEW u \in Requests,
             At(s, "ensure")', At(u, "ensure")', req'[s].inst = req'[u].inst
      PROVE  s = u
  BY <1>2 DEF MutexHeld
<1> QED BY <1>1, <1>2 DEF MutexHeld

LEMMA AnswersPc ==
    \A q, code, bodies, fault :
       /\ AnswerOf(q, code, bodies, fault).pc = "answered"
       /\ AnswerOf(q, code, bodies, fault).inst = None
       /\ Failed(q).pc = "answered"
BY DEF AnswerOf, Failed

(* The actions that leave the keys alone.                                  *)
LEMMA MutexAside ==
    ASSUME Inv, NEW r \in Requests, UNCHANGED gen,
           \/ \E op \in Public \cup Protected, t \in Tokens \cup {None} : Receive(r, op, t)
           \/ BadRequest(r) \/ CallFails(r) \/ AuthRequired(r) \/ Interceptor(r) \/ Handle(r)
           \/ Sign(r) \/ LogoutWithAccessToken(r)
    PROVE  MutexHeld'
<1>1. MutexHeld /\ req \in [Requests -> Request] /\ req[r] \in Request
  BY DEF Inv, ReqInv, ReqFits
<1>2. ~At(r, "ensure")
  BY DEF Receive, BadRequest, CallFails, AuthRequired, Interceptor, Handle, Sign,
         LogoutWithAccessToken, Handling, At
<1>3. ASSUME NEW q, q.pc # "ensure", req' = [req EXCEPT ![r] = q] PROVE MutexHeld'
  BY <1>1, <1>2, <1>3, NotAtMutex
<1>4. ASSUME NEW code, NEW bodies, NEW fault, Answer(r, code, bodies, fault) PROVE MutexHeld'
  <2>1. PICK q : q = AnswerOf(req[r], code, bodies, fault)
    OBVIOUS
  <2>2. q.pc # "ensure" /\ req' = [req EXCEPT ![r] = q]
    BY <1>4, <2>1, AnswersPc DEF Answer
  <2> QED BY <1>3, <2>2
<1>5. ASSUME NEW code, NEW fault, Reply(r, code, fault) PROVE MutexHeld'
  BY <1>4, <1>5 DEF Reply
<1>6. ASSUME NEW pc \in {"call", "handle"}, NEW noRedis \in BOOLEAN,
             req' = [req EXCEPT ![r].pc = pc, ![r].fault = @ \/ noRedis]
      PROVE  MutexHeld'
  <2>1. PICK q : q = [req[r] EXCEPT !.pc = pc, !.fault = @ \/ noRedis]
    OBVIOUS
  <2>2. q.pc # "ensure" /\ req' = [req EXCEPT ![r] = q]
    BY <1>1, <1>6, <2>1 DEF Request
  <2> QED BY <1>3, <2>2
<1>7. ASSUME NEW i \in Instances, req' = [req EXCEPT ![r].pc = "sign", ![r].inst = i]
      PROVE  MutexHeld'
  <2>1. PICK q : q = [req[r] EXCEPT !.pc = "sign", !.inst = i]
    OBVIOUS
  <2>2. q.pc # "ensure" /\ req' = [req EXCEPT ![r] = q]
    BY <1>1, <1>7, <2>1 DEF Request
  <2> QED BY <1>3, <2>2
<1>8. ASSUME NEW op \in Public \cup Protected, NEW t \in Tokens \cup {None}, Receive(r, op, t)
      PROVE  MutexHeld'
  <2>1. PICK q : q = [op |-> op, tok |-> t,
                      pc |-> IF op \in Protected THEN "introspect" ELSE "call",
                      inst |-> None, code |-> "none", fault |-> FALSE, bodies |-> <<>>]
    OBVIOUS
  <2>2. q.pc # "ensure" /\ req' = [req EXCEPT ![r] = q]
    BY <1>8, <2>1 DEF Receive
  <2> QED BY <1>3, <2>2
<1>9. CASE CallFails(r)
  <2>1. PICK q : q = Failed(req[r])
    OBVIOUS
  <2>2. q.pc # "ensure" /\ req' = [req EXCEPT ![r] = q]
    BY <1>9, <2>1, AnswersPc DEF CallFails
  <2> QED BY <1>3, <2>2
<1>10. CASE BadRequest(r)
  BY <1>4, <1>10 DEF BadRequest
<1>11. CASE AuthRequired(r)
  BY <1>4, <1>6, <1>11 DEF AuthRequired
<1>12. CASE Interceptor(r)
  BY <1>5, <1>6, <1>12 DEF Interceptor
<1>13. CASE Handle(r)
  BY <1>5, <1>7, <1>13 DEF Handle
<1>14. CASE Sign(r)
  BY <1>5, <1>14 DEF Sign
<1>15. CASE LogoutWithAccessToken(r)
  BY <1>5, <1>15 DEF LogoutWithAccessToken
<1> QED BY <1>8, <1>9, <1>10, <1>11, <1>12, <1>13, <1>14, <1>15

(* The actions at the mutex.                                               *)
LEMMA MutexSteps ==
    ASSUME Inv, NEW r \in Requests,
           Ensure(r) \/ GetActiveFails(r) \/ EnsureStep(r) \/ EnsureError(r)
    PROVE  MutexHeld'
<1> DEFINE i == req[r].inst
<1>1. /\ MutexHeld /\ req \in [Requests -> Request] /\ req[r] \in Request
      /\ gen \in [Instances -> Gen] /\ i \in Instances
  BY InstOf DEF Inv, ReqInv, ReqFits, KeyInv, KeysTypeOK, Ensure, GetActiveFails, EnsureStep,
     EnsureError, At
<1>2. Off.step = "off"
  BY DEF Off
<1>3. CASE Ensure(r) /\ Load(i)
  BY <1>1, <1>3, SameAtMutex, NoneAssumption DEF Ensure, Load, Generate, NewKey, NoKeyYet
<1>4. ASSUME At(r, "sign"), NewKey(i), NEW fault \in BOOLEAN,
             req' = [req EXCEPT ![r] = [req[r] EXCEPT !.pc = "ensure", !.fault = fault]]
      PROVE  MutexHeld'
  <2>1. PICK q : q = [req[r] EXCEPT !.pc = "ensure", !.fault = fault]
    OBVIOUS
  <2>2. q.pc = "ensure" /\ q.inst = i /\ req' = [req EXCEPT ![r] = q]
    BY <1>1, <1>4, <2>1 DEF Request
  <2>3. gen[i].step = "off"
    BY <1>4 DEF NewKey, NoKeyYet
  <2>4. gen'[i].step # "off" /\ \A j \in Instances \ {i} : gen'[j] = gen[j]
    BY <1>1, <1>4 DEF NewKey, GenStep
  <2>5. ~At(r, "ensure")
    BY <1>4 DEF At
  <2>6. PICK inst \in Instances : inst = i
    BY <1>1
  <2> QED BY <1>1, <2>2, <2>3, <2>4, <2>5, <2>6, MutexTaken
<1>5. CASE Ensure(r) /\ Generate(i) /\ To(r, "ensure")
  <2>1. req' = [req EXCEPT ![r] = [req[r] EXCEPT !.pc = "ensure", !.fault = req[r].fault]]
    BY <1>1, <1>5 DEF To, Request
  <2>2. req[r].fault \in BOOLEAN
    BY <1>1 DEF Request
  <2> QED BY <1>4, <1>5, <2>1, <2>2 DEF Ensure, Generate
<1>6. CASE GetActiveFails(r)
  <2>1. req' = [req EXCEPT ![r] = [req[r] EXCEPT !.pc = "ensure", !.fault = TRUE]]
    BY <1>1, <1>6 DEF GetActiveFails, Request
  <2> QED BY <1>4, <1>6, <2>1 DEF GetActiveFails, GenerateAnyway
<1>7. CASE EnsureStep(r) /\ (Create(i) \/ Snapshot(i) \/ Clear(i)) /\ UNCHANGED req
  <2>1. gen[i].step # "off" /\ gen'[i].step # "off"
    BY <1>1, <1>7 DEF Create, Snapshot, Clear, GenStep, Gen
  <2>2. \A j \in Instances \ {i} : gen'[j] = gen[j]
    BY <1>1, <1>7 DEF Create, Snapshot, Clear, GenStep
  <2> QED BY <1>1, <1>7, <2>1, <2>2, SameAtMutex
<1>8. ASSUME At(r, "ensure"), gen' = [gen EXCEPT ![i] = Off], NEW q, q.pc # "ensure",
             req' = [req EXCEPT ![r] = q]
      PROVE  MutexHeld'
  <2>1. gen'[i].step = "off" /\ \A j \in Instances \ {i} : gen'[j] = gen[j]
    BY <1>1, <1>2, <1>8
  <2>2. \A s \in Requests : At(s, "ensure") /\ req[s].inst = i => s = r
    BY <1>1, <1>8 DEF MutexHeld
  <2>3. req'[r] = q /\ \A s \in Requests : s # r => req'[s] = req[s]
    BY <1>1, <1>8
  <2>4. \A s \in Requests : At(s, "ensure")' => At(s, "ensure") /\ req'[s] = req[s] /\ req[s].inst # i
    BY <1>8, <2>2, <2>3 DEF At
  <2>5. \A s \in Requests : At(s, "ensure") /\ req[s].inst # i => req'[s] = req[s]
    BY <2>3
  <2>6. PICK inst \in Instances : inst = i
    BY <1>1
  <2> QED BY <1>1, <2>1, <2>4, <2>5, <2>6, MutexFreed
<1>9. CASE EnsureStep(r) /\ Commit(i) /\ To(r, "sign")
  <2>1. PICK q : q = [req[r] EXCEPT !.pc = "sign"]
    OBVIOUS
  <2>2. q.pc # "ensure" /\ req' = [req EXCEPT ![r] = q]
    BY <1>1, <1>9, <2>1 DEF To, Request
  <2> QED BY <1>8, <1>9, <2>2 DEF EnsureStep, Commit, GenStep
<1>10. CASE EnsureError(r)
  <2>1. PICK q : q = AnswerOf(req[r], "Internal", Written(req[r].op, "Internal"), TRUE)
    OBVIOUS
  <2>2. q.pc # "ensure" /\ req' = [req EXCEPT ![r] = q]
    BY <1>10, <2>1, AnswersPc DEF EnsureError, Reply, Answer
  <2> QED BY <1>8, <1>10, <2>2 DEF EnsureError, EnsureFails, Unlock, GenStep
<1> QED BY <1>3, <1>5, <1>6, <1>7, <1>9, <1>10 DEF Ensure, EnsureStep

LEMMA MutexCrash ==
    ASSUME Inv, NEW i \in Instances, Crash(i)
    PROVE  MutexHeld'
<1>1. MutexHeld /\ gen \in [Instances -> Gen] /\ Off.step = "off"
  BY DEF Inv, ReqInv, KeyInv, KeysTypeOK, Off
<1>2. req' = [r \in Requests |-> IF req[r].inst = i THEN Failed(req[r]) ELSE req[r]]
  BY DEF Crash
<1>3. gen'[i].step = "off" /\ \A j \in Instances \ {i} : gen'[j] = gen[j]
  BY <1>1 DEF Crash, Restart, GenStep
<1>4. \A s \in Requests : IF req[s].inst = i THEN req'[s].pc = "answered" ELSE req'[s] = req[s]
  BY <1>2, AnswersPc
<1>5. \A s \in Requests : At(s, "ensure")' => At(s, "ensure") /\ req'[s] = req[s] /\ req[s].inst # i
  BY <1>4 DEF At
<1> QED BY <1>1, <1>3, <1>4, <1>5, MutexFreed

LEMMA MutexStep == Inv /\ (Next \/ UNCHANGED vars) => MutexHeld'
<1> SUFFICES ASSUME Inv, Next \/ UNCHANGED vars PROVE MutexHeld'
  OBVIOUS
<1>1. ASSUME NEW r \in Requests,
             \/ \E op \in Public \cup Protected, t \in Tokens \cup {None} : Receive(r, op, t)
             \/ BadRequest(r) \/ CallFails(r) \/ AuthRequired(r) \/ Interceptor(r) \/ Handle(r)
             \/ Sign(r) \/ LogoutWithAccessToken(r)
      PROVE  MutexHeld'
  <2>1. UNCHANGED gen
    BY <1>1 DEF Receive, BadRequest, CallFails, AuthRequired, Interceptor, Handle, Sign,
           LogoutWithAccessToken, keyVars
  <2> QED BY <1>1, <2>1, MutexAside
<1>2. ASSUME UNCHANGED <<gen, req>> PROVE MutexHeld'
  BY <1>2, SameAtMutex DEF Inv, ReqInv
<1>3. CASE Clock \/ UNCHANGED vars
  BY <1>2, <1>3 DEF Clock, vars, keyVars
<1> QED BY <1>1, <1>3, MutexSteps, MutexCrash DEF Next, Progress

-----------------------------------------------------------------------------
LEMMA InitInv == Init => Inv
BY InitKeys, InitTokens, InitReq DEF Init, Inv

LEMMA InvStep == Inv /\ [Next]_vars => Inv'
<1> SUFFICES ASSUME Inv, Next \/ UNCHANGED vars PROVE Inv'
  OBVIOUS
<1>1. KeyInv' /\ TokenInv' /\ TokensStay
  BY KeysAndTokens
<1>2. ReqFits'
  BY <1>1, ReqStep
<1>3. MutexHeld'
  BY MutexStep
<1> QED BY <1>1, <1>2, <1>3 DEF Inv, ReqInv

THEOREM InvHolds == Spec => []Inv
BY InitInv, InvStep, PTL DEF Spec

(* Keys, tokens and requests are well formed, and the mutex of an instance *)
(* is held by one request that is there to let it go.                      *)
THEOREM AccessTypeCorrect == Spec => []AccessTypeOK
<1>1. Inv => AccessTypeOK
  BY DEF Inv, KeyInv, TokenInv, ReqInv, ReqFits, Shaped, AccessTypeOK
<1> QED BY <1>1, InvHolds, PTL

(* Once there is a signing key there is an active one, and a second only   *)
(* while a key is made, after a race of two instances or a failed          *)
(* activation (jwt_rsa.go:88-114, jwk_repo.go:61-81).                      *)
THEOREM ActiveKeyStaysOne == Spec => []ActiveKeyIsOne
<1>1. Inv => ActiveKeyIsOne
  BY DEF Inv, KeyInv
<1> QED BY <1>1, InvHolds, PTL

(* A token with time left that nobody logged out is refused only when      *)
(* something failed (jwt_rsa.go:228-307, middleware/auth.go:38-45).        *)
THEOREM NoTokenIsRefusedFalsely == Spec => []NoFalseRefusal
<1>1. Inv => NoFalseRefusal
  BY DEF Inv, ReqInv, ReqFits, Judged, Blames, Over, NoFalseRefusal
<1> QED BY <1>1, InvHolds, PTL

(* What the gateway tells a client is what the auth service answered       *)
(* (auth_handler.go:42-471).                                               *)
THEOREM AnswersStayTrue == Spec => []AnswersAreTrue
<1>1. Inv => AnswersAreTrue
  <2> SUFFICES ASSUME Inv, NEW r \in Requests, At(r, "answered")
               PROVE  /\ 200 \in {req[r].bodies[n] : n \in DOMAIN req[r].bodies} <=> req[r].code = "OK"
                      /\ req[r].bodies = <<500, 500>> \/ \E s \in Statuses : req[r].bodies = <<s>>
                      /\ req[r].bodies = <<500, 500>> => req[r].op = "Refresh" /\ req[r].code = "Internal"
                      /\ req[r].bodies = <<500>> /\ ~req[r].fault =>
                            \/ req[r].op \in FailAlone
                            \/ req[r].op \in Protected /\ (~Live(req[r].tok) \/ req[r].tok \in out)
    BY DEF AnswersAreTrue
  <2>1. Answered(req[r]) /\ Judged(req[r])
    BY ReqTypes DEF Shaped, At
  <2>2. req[r].bodies = <<500>> /\ ~req[r].fault /\ req[r].op \notin FailAlone => Blames(req[r])
    BY <2>1 DEF Answered, Blames, At
  <2>3. Blames(req[r]) => req[r].op \in Protected /\ (~Live(req[r].tok) \/ req[r].tok \in out)
    BY <2>1 DEF Judged, Blames, Over
  <2> QED BY <2>1, <2>2, <2>3 DEF Answered, Said
<1> QED BY <1>1, InvHolds, PTL

(* A step that lets a request past the middleware or the interceptor.      *)
LEMMA PassedByPasses ==
    ASSUME Inv, Next, NEW r \in Requests,
           \/ At(r, "introspect") /\ req'[r].pc = "call"
           \/ At(r, "call") /\ req[r].op \in Protected /\ req'[r].pc = "handle"
    PROVE  \E noRedis \in BOOLEAN :
              Passes(r, noRedis) /\ req'[r].fault = (req[r].fault \/ noRedis)
<1>1. /\ req \in [Requests -> Request] /\ req[r] \in Request /\ req[r].inst = None
      /\ req'[r] # req[r]
  BY ReqTypes DEF Inv, ReqInv, ReqFits, Shaped, At
<1>2. ASSUME NEW s \in Requests, NEW q, req' = [req EXCEPT ![s] = q], s = r => q.pc \notin {"call", "handle"}
      PROVE  FALSE
  BY <1>1, <1>2
<1>3. ASSUME NEW s \in Requests, NEW code, NEW bodies, NEW fault, Answer(s, code, bodies, fault)
      PROVE  FALSE
  <2>1. PICK q : q = AnswerOf(req[s], code, bodies, fault)
    OBVIOUS
  <2>2. q.pc = "answered" /\ req' = [req EXCEPT ![s] = q]
    BY <1>3, <2>1, AnswersPc DEF Answer
  <2> QED BY <1>2, <2>2
<1>4. ASSUME NEW s \in Requests, NEW code, NEW fault, Reply(s, code, fault) PROVE FALSE
  BY <1>3, <1>4 DEF Reply
<1>5. ASSUME NEW s \in Requests, s # r, \A x \in Requests \ {s} : req'[x] = req[x] PROVE FALSE
  BY <1>1, <1>5
<1>6. ASSUME NEW s \in Requests, AuthRequired(s) \/ Interceptor(s) PROVE
         s = r /\ \E noRedis \in BOOLEAN : \E pc \in {"call", "handle"} :
            Passes(r, noRedis) /\ req' = [req EXCEPT ![s].pc = pc, ![s].fault = @ \/ noRedis]
  <2>1. PICK noRedis \in BOOLEAN, pc \in {"call", "handle"} :
           Passes(s, noRedis) /\ req' = [req EXCEPT ![s].pc = pc, ![s].fault = @ \/ noRedis]
    BY <1>3, <1>4, <1>6 DEF AuthRequired, Interceptor
  <2>2. \A x \in Requests \ {s} : req'[x] = req[x]
    BY <1>1, <2>1
  <2>3. s = r
    BY <1>5, <2>2
  <2> QED BY <2>1, <2>3
<1>7. ASSUME NEW s \in Requests, AuthRequired(s) \/ Interceptor(s)
      PROVE  \E noRedis \in BOOLEAN :
                Passes(r, noRedis) /\ req'[r].fault = (req[r].fault \/ noRedis)
  <2>1. PICK noRedis \in BOOLEAN, pc \in {"call", "handle"} :
           Passes(r, noRedis) /\ req' = [req EXCEPT ![r].pc = pc, ![r].fault = @ \/ noRedis]
    BY <1>6, <1>7
  <2>2. req'[r].fault = (req[r].fault \/ noRedis)
    BY <1>1, <2>1 DEF Request
  <2> QED BY <2>1, <2>2
<1>8. ASSUME NEW s \in Requests, NEW op \in Public \cup Protected, NEW t \in Tokens \cup {None},
             Receive(s, op, t)
      PROVE  FALSE
  <2>1. s # r
    BY <1>8 DEF Receive, At
  <2>2. \A x \in Requests \ {s} : req'[x] = req[x]
    BY <1>1, <1>8 DEF Receive
  <2> QED BY <1>5, <2>1, <2>2
<1>9. ASSUME NEW s \in Requests, BadRequest(s) PROVE FALSE
  BY <1>3, <1>9 DEF BadRequest
<1>10. ASSUME NEW s \in Requests, CallFails(s) PROVE FALSE
  <2>1. PICK q : q = Failed(req[s])
    OBVIOUS
  <2>2. q.pc = "answered" /\ req' = [req EXCEPT ![s] = q]
    BY <1>10, <2>1, AnswersPc DEF CallFails
  <2> QED BY <1>2, <2>2
<1>11. ASSUME NEW s \in Requests, Handle(s) PROVE FALSE
  <2>1. PICK i \in Instances : req' = [req EXCEPT ![s].pc = "sign", ![s].inst = i]
    BY <1>4, <1>11 DEF Handle
  <2>2. PICK q : q = [req[s] EXCEPT !.pc = "sign", !.inst = i]
    OBVIOUS
  <2>3. q.pc = "sign" /\ req' = [req EXCEPT ![s] = q]
    BY <1>1, <2>1, <2>2 DEF Request
  <2> QED BY <1>2, <2>3
<1>12. ASSUME NEW s \in Requests, Sign(s) \/ LogoutWithAccessToken(s) PROVE FALSE
  BY <1>4, <1>12 DEF Sign, LogoutWithAccessToken
<1>13. ASSUME NEW s \in Requests,
              Ensure(s) \/ GetActiveFails(s) \/ EnsureStep(s) \/ EnsureError(s)
       PROVE  FALSE
  <2>1. s # r
    BY <1>13 DEF Ensure, GetActiveFails, EnsureStep, EnsureError, At
  <2>2. \A x \in Requests \ {s} : req'[x] = req[x]
    BY <1>1, <1>13 DEF Ensure, GetActiveFails, EnsureStep, EnsureError, To, Reply, Answer
  <2> QED BY <1>5, <2>1, <2>2
<1>14. ASSUME NEW i \in Instances, Crash(i) PROVE FALSE
  BY <1>1, <1>14, NoneAssumption DEF Crash
<1>15. ~Clock
  BY <1>1 DEF Clock
<1> QED BY <1>7, <1>8, <1>9, <1>10, <1>11, <1>12, <1>13, <1>14, <1>15 DEF Next, Progress

(* A token that was logged out passes only while Redis fails, for as long  *)
(* as it has time left and ever after (jwt_rsa.go:296-300, 366-393).       *)
THEOREM LoggedOutStaysRefused == Spec => LoggedOutIsRefused
<1> DEFINE Passed(r) == (At(r, "introspect") /\ req'[r].pc = "call")
                          \/ (At(r, "call") /\ req[r].op \in Protected /\ req'[r].pc = "handle")
           Refused == \A r \in Requests :
              LET passed == (At(r, "introspect") /\ req'[r].pc = "call")
                            \/ (At(r, "call") /\ req[r].op \in Protected /\ req'[r].pc = "handle")
              IN  passed /\ req[r].tok \in out => req'[r].fault
<1>1. ASSUME Inv, [Next]_vars PROVE [Refused]_vars
  <2> SUFFICES ASSUME Next, NEW r \in Requests, Passed(r), req[r].tok \in out PROVE req'[r].fault
    BY <1>1
  <2>1. PICK noRedis \in BOOLEAN : Passes(r, noRedis) /\ req'[r].fault = (req[r].fault \/ noRedis)
    BY <1>1, PassedByPasses
  <2>2. noRedis
    BY <1>1, <2>1, PassesByFault
  <2> QED BY <2>1, <2>2
<1> QED BY <1>1, InvHolds, PTL DEF Spec, LoggedOutIsRefused
=============================================================================
