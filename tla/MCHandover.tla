----------------------------- MODULE MCHandover -----------------------------
(***************************************************************************)
(* Small instances of Handover for TLC.                                    *)
(***************************************************************************)
EXTENDS HandoverInvariant, TLC

CONSTANTS a, b, c   \* objects

Two == {a, b}
Three == {a, b, c}

Interchangeable == Permutations(Objects)
=============================================================================
