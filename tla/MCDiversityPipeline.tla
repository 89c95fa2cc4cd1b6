------------------------ MODULE MCDiversityPipeline ------------------------
(* An instance of DiversityPipeline for TLC: two functions share a source. *)
EXTENDS DiversityPipeline, TLC

CONSTANTS f1, f2, f3, s1, s2

TwoShareOne == (f1 :> s1) @@ (f2 :> s1) @@ (f3 :> s2)
=============================================================================
