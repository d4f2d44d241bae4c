------------------------------ MODULE MCAdoption ------------------------------
(***************************************************************************)
(* A small instance of Adoption for TLC.                                   *)
(***************************************************************************)
EXTENDS Adoption

CONSTANTS a, b, c

MCObjects == {a, b, c}
=============================================================================
