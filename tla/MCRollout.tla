------------------------------ MODULE MCRollout ------------------------------
(***************************************************************************)
(* Small instances of Rollout for TLC.                                     *)
(***************************************************************************)
EXTENDS RolloutInvariant

CONSTANTS a, b, c,         \* objects
          t1, t2, t3,      \* templates
          h1, h2, h3, h4   \* hashes

MCObjects == {a, b, c}
MCTemplates == {t1, t2, t3}
MCHashes == {h1, h2, h3, h4}

\* every template after another hash; one collision leads t1 to h4
OwnHash == [t \in MCTemplates |->
              IF t = t1 THEN 0 :> h1 @@ 1 :> h4
              ELSE IF t = t2 THEN 0 :> h2 @@ 1 :> h2
              ELSE 0 :> h3 @@ 1 :> h3]

\* a is in every template, in the first of two phases
KeepShared == (t1 :> <<a, b>>) @@ (t2 :> <<a, c>>) @@ (t3 :> <<a>>)
KeepSharedPhases == (t1 :> <<1, 2>>) @@ (t2 :> <<1, 2>>) @@ (t3 :> <<1>>)

\* a is in every template; b is dropped after the first, c comes with the last
DropAndAdd == (t1 :> <<a, b>>) @@ (t2 :> <<a>>) @@ (t3 :> <<a, c>>)
DropAndAddPhases == (t1 :> <<1, 2>>) @@ (t2 :> <<1>>) @@ (t3 :> <<1, 2>>)

\* no two templates share an object; b depends on a
Disjoint == (t1 :> << >>) @@ (t2 :> <<a, b>>) @@ (t3 :> <<c>>)
DisjointPhases == (t1 :> << >>) @@ (t2 :> <<1, 2>>) @@ (t3 :> <<1>>)

\* t3 brings back the object t2 dropped
Reuse == (t1 :> <<a>>) @@ (t2 :> <<b>>) @@ (t3 :> <<a>>)

\* t3 drops the object b that t1 and t2 share
DropShared == (t1 :> <<a, b>>) @@ (t2 :> <<a, b>>) @@ (t3 :> <<a>>)

OnePhase == (t1 :> <<1>>) @@ (t2 :> <<1>>) @@ (t3 :> <<1>>)
OneBigPhase == (t1 :> <<2>>) @@ (t2 :> <<2>>) @@ (t3 :> <<1>>)

\* t1 and t2 hash alike
SameHash == [t \in MCTemplates |-> IF t = t3 THEN 0 :> h3 @@ 1 :> h3
                                             ELSE 0 :> h1 @@ 1 :> h4]

TwoRevisions == {<<t1, t2>>}
Rollback == {<<t1, t2, t1>>}
ThreeRevisions == {<<t1, t2, t3>>}
=============================================================================
