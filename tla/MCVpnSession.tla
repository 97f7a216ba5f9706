---------------------------- MODULE MCVpnSession ----------------------------
(***************************************************************************)
(* A small instance of VpnSession for TLC.                                 *)
(***************************************************************************)
EXTENDS VpnSession, TLC

CONSTANTS u1, d1, d2

MCOwner == [d \in Devices |-> u1]

=============================================================================
