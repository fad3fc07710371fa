------------------------- MODULE MCLambdaInstances -------------------------
(***************************************************************************)
(* Two instances, two tenants, two settings.  Old paths o1 and o2 differ   *)
(* only in case.  bad is out of bounds for every setting; k2 is not   *)
(* read per tenant.                                                        *)
(***************************************************************************)
EXTENDS LambdaInstances, TLC

CONSTANTS i1, i2, s1, s2, o1, o2, f1, t1, t2, k1, k2, v0, v1, bad

MCFormOf == (o1 :> f1) @@ (o2 :> f1)
MCScopes == {<<s1>>, <<s2, s1>>}
MCKeys == <<k1, k2>>
MCDefault == (k1 :> v0) @@ (k2 :> v0)
Symmetry == Permutations({i1, i2})
=============================================================================
