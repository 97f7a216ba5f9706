--------------------------- MODULE MCConnectivity ---------------------------
(***************************************************************************)
(* Two server addresses, one of each family, for TLC.                      *)
(***************************************************************************)
EXTENDS Connectivity, TLC

CONSTANTS v4, v6

MCAddresses == <<v4, v6>>
=============================================================================
