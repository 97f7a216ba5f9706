------------------------------- MODULE MCOidc -------------------------------
(***************************************************************************)
(* A small instance of OidcSignIn for TLC.                                 *)
(***************************************************************************)
EXTENDS OidcSignIn, TLC

CONSTANTS i1, c1, c2

MCRows == {[client |-> c2, auto |-> FALSE]}
MCFile == [i \in Ids |-> IF i = i1 THEN [client |-> c1, auto |-> TRUE] ELSE NoProvider]

MCSymmetry == Permutations(Browsers)
=============================================================================
