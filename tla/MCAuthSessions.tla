--------------------------- MODULE MCAuthSessions ---------------------------
(***************************************************************************)
(* Instances of AuthSessions for TLC.  Race: two calls and two sessions;   *)
(* with TTL = 1 a token inserted at 0 is refused at 1, and a call may begin *)
(* before that and end after it.  Live: one call, the cleanup jobs and a   *)
(* long time; with TTL = Age = 2 a session that Login made is old at 3,    *)
(* one that was refreshed later at 4.                                      *)
(***************************************************************************)
EXTENDS AuthSessions, TLC

Symmetry ==
    Permutations(Calls) \cup Permutations(Tokens) \cup Permutations(Sessions)
        \cup Permutations(Users)
=============================================================================
