------------------------------ MODULE MCPackage ------------------------------
(***************************************************************************)
(* A small instance of PackageUnpack for TLC: two images that can be       *)
(* loaded and one that cannot.                                             *)
(***************************************************************************)
EXTENDS PackageUnpack

MCImages == {"v1", "v2", "broken"}
MCHash == [i \in MCImages |->
             CASE i = "v1" -> "h1" [] i = "v2" -> "h2" [] i = "broken" -> "h3"]
=============================================================================
