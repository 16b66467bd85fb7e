----------------------------- MODULE SigningKeys -----------------------------
(***************************************************************************)
(* The RSA keys with which instances of the auth service sign access       *)
(* tokens: the table jwk_keys, and in each instance the provider that      *)
(* takes its key from the table, or makes one, when it first signs.        *)
(*                                                                         *)
(* A mutex lets one call of an instance do so at a time; nothing keeps two *)
(* instances apart.  SetActive is one transaction of two UPDATEs under     *)
(* READ COMMITTED: the first finds the rows that are active when it        *)
(* starts, waits for their locks and clears those that still are.          *)
(*                                                                         *)
(* Keys are never deleted, and the caches of public keys, in the instance  *)
(* and in Redis, are filled from the table: they tell what it tells.       *)
(***************************************************************************)
EXTENDS Naturals

CONSTANTS
    Kids,       \* ids of keys: random, here the numbers in which they come
    Instances,  \* processes of the auth service
    None

ASSUME KidsAssumption == Kids \subseteq Nat /\ None \notin Kids

VARIABLES
    keys,       \* jwk_keys: "none", "inactive" or "active"
    active,     \* activeKid of each provider, and the private key with it
    gen,        \* who holds the mutex of the provider, and how far it is
    raced       \* history: two instances made keys at a time, or one that
                \* had made a key did not get it activated

keyVars == <<keys, active, gen, raced>>

KeySteps == {"off", "create", "snapshot", "clear", "commit"}
Off == [step |-> "off", kid |-> None, rows |-> {}]
Gen == [step : KeySteps, kid : Kids \cup {None}, rows : SUBSET Kids]

KeysInit ==
    /\ keys = [k \in Kids |-> "none"]
    /\ active = [i \in Instances |-> None]
    /\ gen = [i \in Instances |-> Off]
    /\ raced = FALSE

ActiveKeys == {k \in Kids : keys[k] = "active"}
Making(i) == gen[i].kid # None
Made(i) == gen[i].step \in {"snapshot", "clear", "commit"}

(* Rows that a transaction other than i's has written and not committed.   *)
Locked(i) == UNION {gen[j].rows : j \in {x \in Instances \ {i} : gen[x].step = "commit"}}

GenStep(i, g) == gen' = [gen EXCEPT ![i] = g]

(* ensureActiveKey: the provider has no key yet, and the mutex is free.    *)
(* Mutant: it takes no mutex.                                              *)
NoMutex(i) == active[i] = None
NoKeyYet(i) == active[i] = None /\ gen[i].step = "off"

(* GetActive finds a key.                                                  *)
Load(i) ==
    /\ NoKeyYet(i)
    /\ \E k \in ActiveKeys : active' = [active EXCEPT ![i] = k]
    /\ UNCHANGED <<keys, gen, raced>>

(* It finds none, or fails: whatever the error, a new key is made.  Bound  *)
(* for the second: a kid that is free.                                     *)
Unused == {k \in Kids : keys[k] = "none" /\ \A j \in Instances : gen[j].kid # k}

NewKey(i) ==
    /\ NoKeyYet(i)
    /\ \E k \in Unused :
          /\ \A l \in Unused : k <= l
          /\ GenStep(i, [step |-> "create", kid |-> k, rows |-> {}])
    /\ raced' = (raced \/ \E j \in Instances \ {i} : Making(j))
    /\ UNCHANGED <<keys, active>>

Generate(i) == ActiveKeys = {} /\ NewKey(i)
GenerateAnyway(i) == ActiveKeys # {} /\ NewKey(i)

(* Create: the row is active from the start.                               *)
Create(i) ==
    /\ gen[i].step = "create"
    /\ keys' = [keys EXCEPT ![gen[i].kid] = "active"]
    /\ GenStep(i, [gen[i] EXCEPT !.step = "snapshot"])
    /\ UNCHANGED <<active, raced>>

(* SetActive, first UPDATE: its snapshot, and its writes once the rows of  *)
(* the snapshot are free.                                                  *)
Snapshot(i) ==
    /\ gen[i].step = "snapshot"
    /\ GenStep(i, [gen[i] EXCEPT !.step = "clear", !.rows = ActiveKeys])
    /\ UNCHANGED <<keys, active, raced>>

Clear(i) ==
    /\ gen[i].step = "clear"
    /\ gen[i].rows \cap Locked(i) = {}
    /\ GenStep(i, [gen[i] EXCEPT !.step = "commit", !.rows = @ \cap ActiveKeys])
    /\ UNCHANGED <<keys, active, raced>>

(* Second UPDATE and commit; the provider takes the key.  Mutant: the      *)
(* first UPDATE leaves the active rows alone.                              *)
Activated(i) == [k \in Kids |-> IF k = gen[i].kid THEN "active" ELSE keys[k]]
Activate(i) == [k \in Kids |->
    IF k = gen[i].kid THEN "active"
    ELSE IF k \in gen[i].rows THEN "inactive" ELSE keys[k]]

Commit(i) ==
    /\ gen[i].step = "commit"
    /\ gen[i].kid \notin Locked(i)
    /\ keys' = Activate(i)
    /\ active' = [active EXCEPT ![i] = gen[i].kid]
    /\ GenStep(i, Off)
    /\ UNCHANGED raced

(* A statement fails, or the call's context is cancelled: the transaction  *)
(* is rolled back and the mutex released.  Mutant: it is not released.     *)
StaysLocked(i) == UNCHANGED gen
Unlock(i) == GenStep(i, Off)

EnsureFails(i) ==
    /\ gen[i].step # "off"
    /\ Unlock(i)
    /\ raced' = (raced \/ Made(i))
    /\ UNCHANGED <<keys, active>>

(* The process dies and is started again.                                  *)
Restart(i) ==
    /\ active' = [active EXCEPT ![i] = None]
    /\ GenStep(i, Off)
    /\ raced' = (raced \/ Made(i))
    /\ UNCHANGED keys

-----------------------------------------------------------------------------
KeysTypeOK ==
    /\ keys \in [Kids -> {"none", "inactive", "active"}]
    /\ active \in [Instances -> Kids \cup {None}]
    /\ gen \in [Instances -> Gen]
    /\ raced \in BOOLEAN

(* Once there is a key there is an active one, so that no instance that    *)
(* starts later makes another, and there is only one unless a key is being *)
(* made, two were made at a time or one was not activated                  *)
(* (jwt_rsa.go:88-114, jwk_repo.go:61-81).                                 *)
ActiveKeyIsOne ==
    /\ (\E k \in Kids : keys[k] # "none") => ActiveKeys # {}
    /\ \A k, l \in ActiveKeys : k = l \/ raced \/ \E i \in Instances : Made(i)
=============================================================================
