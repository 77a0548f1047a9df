---------------------------- MODULE MCClaimHandoff ----------------------------
(* Instances of ClaimHandoff for TLC: members, their passes and operators. *)
EXTENDS ClaimHandoff, TLC

CONSTANTS a, b, p1, p2, p3, nobody, i1, i2

\* Two passes of one Hive, one of the other.
TwoForA == (p1 :> a) @@ (p2 :> a) @@ (p3 :> b)
OneEach == (p1 :> a) @@ (p2 :> b)

Anyone == Hives \X Issues
EachItsOwn == {<<a, i1>>, <<b, i2>>}

BothWays == {<<a, b>>, <<b, a>>}
OneWay == {<<b, a>>}
=============================================================================
