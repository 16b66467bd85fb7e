----------------------------- MODULE MCGateway -----------------------------
(* An instance of Gateway for TLC.                                         *)
EXTENDS Gateway, TLC

CONSTANTS c1, c2

(* Two clients, so that two calls make keys at a time; one logs out while  *)
(* the other uses the token.                                               *)
MCCalls == c1 :> {"Refresh", "RequestEmailVerification"} @@ c2 :> {"Login", "Logout"}
=============================================================================
