----------------------------- MODULE MCWorklist -----------------------------
(* Worklist with two Go files in one package and a file of another sort.   *)
EXTENDS Worklist

CONSTANTS a, b, c, d, e, p

OnePackage == (a :> p) @@ (b :> p)

OneEach == (a :> {d}) @@ (b :> {e})
=============================================================================
