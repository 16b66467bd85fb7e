------------------------------ MODULE MCMailing ------------------------------
(***************************************************************************)
(* Mailing for TLC: the mail of a password reset and one of a              *)
(* registration.                                                           *)
(***************************************************************************)
EXTENDS Mailing

CONSTANTS reset, verify

TwoMails == {reset, verify}
OneReset == {reset}
=============================================================================
