---------------------------- MODULE MCFIFOQueue ----------------------------
(***************************************************************************)
(* An instance of FIFOQueue for TLC: three keys, two manifests of the key  *)
(* "a" (a resubmission or an update), and one pod without a name.          *)
(***************************************************************************)
EXTENDS FIFOOrder, TLC

CONSTANTS a, b, c, a1, a2, b1, c1, x1

MCKeyOf == a1 :> a @@ a2 :> a @@ b1 :> b @@ c1 :> c @@ x1 :> NoKey
=============================================================================
