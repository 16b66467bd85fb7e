---------------------------- MODULE SessionFamily ----------------------------
(***************************************************************************)
(* What the auth service promises about one session: its refresh tokens    *)
(* are a chain.  Login issues the first, each Refresh exchanges the last   *)
(* one for the next, and no two are accepted at a time; once the session   *)
(* is closed there are no more.  There are no handlers, statements or      *)
(* clock here.                                                             *)
(*                                                                         *)
(* The promise ends when the session goes astray.                          *)
(***************************************************************************)

CONSTANTS
    Tokens,
    None        \* what the first token of a session was exchanged for

VARIABLES
    life,       \* the session: unborn, open, over or astray
    usable,     \* the tokens of the session that Refresh would accept
    heirs       \* which tokens were issued, and for which ones

vars == <<life, usable, heirs>>

Init ==
    /\ life = "unborn"
    /\ usable = {}
    /\ heirs = {}

Issued == {e.heir : e \in heirs}

Open ==
    /\ life = "unborn"
    /\ life' = "open"
    /\ UNCHANGED <<usable, heirs>>

(* A token has one heir, and None, for which Login issues the first token, *)
(* has one too.  A token may be out of date as soon as it is issued.       *)
Issue(old, new) ==
    /\ life = "open" /\ usable = {}
    /\ old \in Issued \cup {None} /\ new \notin Issued
    /\ \A e \in heirs : e.of # old
    /\ heirs' = heirs \cup {[of |-> old, heir |-> new]}
    /\ usable' \in {{}, {new}}
    /\ UNCHANGED life

(* A token was exchanged, revoked, deleted, or has expired.                *)
Spend ==
    /\ usable' = {}
    /\ UNCHANGED <<life, heirs>>

(* Logout and the cleanup jobs close no session that is in use.            *)
Close ==
    /\ life = "open" /\ usable = {}
    /\ life' = "over"
    /\ UNCHANGED <<usable, heirs>>

GoAstray ==
    /\ life' = "astray"
    /\ usable' = {}
    /\ heirs' = {}

Next ==
    \/ Open \/ Spend \/ Close \/ GoAstray
    \/ \E old \in Tokens \cup {None}, new \in Tokens : Issue(old, new)

Spec == Init /\ [][Next]_vars
=============================================================================
