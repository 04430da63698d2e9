---------------------------- MODULE MCAdmission ----------------------------
(* Admission on small instances: four attempts of three sources, of which  *)
(* two share one; or three attempts of one source.                         *)
EXTENDS Admission, TLC

CONSTANTS l1, l2, c1, c2, c3, c4, a, b, c

MCIpOf == c1 :> a @@ c2 :> a @@ c3 :> b @@ c4 :> c
MCIpOfOne == c1 :> a @@ c2 :> a @@ c3 :> a
MCSymmetry ==
  Permutations(Listeners) \cup Permutations({c1, c2})
=============================================================================
