---------------------------- MODULE MCAccounts ------------------------------
(***************************************************************************)
(* Two browsers and one API call for TLC.                                  *)
(***************************************************************************)
EXTENDS Accounts
=============================================================================
